---------------------------- MODULE PickingTasks ----------------------------
(***************************************************************************)
(* Picking tasks and the stock they reserve.                               *)
(*                                                                         *)
(* repositories/picking_task_repository.go keeps one row of picking_tasks  *)
(* per task and changes three tables together: the task, the quantity and  *)
(* reserved_qty of the inventory rows (sku, location) it allocates, and    *)
(* the outbound rows it appends to inventory_movements.  Creating a task   *)
(* reserves nothing; starting it reserves every allocation or fails; what  *)
(* ends it (completion, cancellation, the stale-reservation cron job) must *)
(* give the reservation back exactly once.                                 *)
(*                                                                         *)
(* Each handler is one database transaction and here one action.  The      *)
(* interleaving of the statements of concurrent transactions is the        *)
(* subject of PickingRaces.                                                *)
(***************************************************************************)
EXTENDS Integers, FiniteSets, StockSums

CONSTANTS
    Tasks,          \* order numbers a task may be created under
    Rows,           \* rows of table inventory: one (sku, location) each
    Skus,           \* articles
    SkuOf,          \* the article stored in each row
    Quantities,     \* quantities a client may send for one row
    InitialStock,   \* quantity of each row before the first task
    OversellBound   \* how far below zero the model lets a counter of a row
                    \* fall, and how far above its initial stock it lets it rise

ASSUME RowsAssumption ==
    /\ IsFiniteSet(Tasks)
    /\ SkuOf \in [Rows -> Skus]
    /\ Quantities \subseteq Int
    /\ InitialStock \in [Rows -> Nat]
    /\ OversellBound \in Nat

VARIABLES
    quantity,   \* inventory.quantity
    reserved,   \* inventory.reserved_qty
    expired,    \* rows whose lot is past its expiration_date
    status,     \* picking_tasks.status; "none" before the row exists
    alloc,      \* items -> allocations -> quantity
    picked,     \* items -> allocations -> picked_qty, alloc when absent
    legacy,     \* rows a task names by the "location" of an item without allocations
    done,       \* articles whose item has status completed or partial
    age,        \* the task's timestamps against the seven days of the cron job
    shipped     \* outbound inventory_movements of each task, summed per row

stock    == <<quantity, reserved>>
taskVars == <<status, alloc, picked, legacy, done, age>>
vars     == <<quantity, reserved, expired, status, alloc, picked, legacy, done, age, shipped>>

Statuses == {"open", "assigned", "in_progress", "completed",
             "completed_with_differences", "cancelled", "abandoned"}
Completed == {"completed", "completed_with_differences"}
Terminal  == Completed \cup {"cancelled", "abandoned"}

(* fresh: younger than seven days.  touched: created more than seven days  *)
(* ago, updated since.  stale: neither created nor updated since.          *)
Ages == {"fresh", "touched", "stale"}

(* A quantity per row.  Nothing checks the sign of an allocation or of a   *)
(* picked quantity: the payload of UpdatePickingTask is a raw map, and     *)
(* only the sum of an item's allocations is validated on create.           *)
Lines == [Rows -> Quantities \cup {0}]
Nothing == [r \in Rows |-> 0]
RowsOf(s) == {r \in Rows : SkuOf[r] = s}

(* The rows items with allocations a and picked quantities p have a line   *)
(* for; a line that allocates 0 and picks 0 is as good as none.            *)
Listed(a, p) == {r \in Rows : a[r] # 0 \/ p[r] # 0}

(* What is left of a for code that reads the allocations alone and not the *)
(* "location" of the rows L (parsePickingItemsWithLegacyFallback reads it).*)
WithoutLegacy(a, L) == [r \in Rows |-> IF r \in L THEN 0 ELSE a[r]]
LegacyRows(a, p) == SUBSET {r \in Rows : a[r] # 0 /\ p[r] = a[r]}

InProgress == {t \in Tasks : status[t] = "in_progress"}

-----------------------------------------------------------------------------
(* The shared reservation helpers.                                         *)

validPickingTransitions ==
    [open        |-> {"assigned", "in_progress", "cancelled", "abandoned"},
     assigned    |-> {"open", "in_progress", "cancelled", "abandoned"},
     in_progress |-> {"completed", "completed_with_differences", "cancelled", "abandoned"}]

\* Mutant of isValidPickingTransition.
TransitionWithoutCurrent(current, next) ==
    current = next \/ \E s \in DOMAIN validPickingTransitions : next \in validPickingTransitions[s]

isValidPickingTransition(current, next) ==
    \/ current = next
    \/ current \in DOMAIN validPickingTransitions /\ next \in validPickingTransitions[current]

\* Mutant of CanReserve.
CanReserveIgnoringReserved(res, a, p) ==
    \A r \in Listed(a, p) : quantity[r] >= a[r] /\ res[r] + a[r] >= 0

(* One conditional UPDATE per allocation; any that matches no row aborts,  *)
(* and so does one that would make reserved_qty negative                   *)
(* (chk_reserved_non_negative, migration 17).                              *)
CanReserve(res, a, p) ==
    \A r \in Listed(a, p) : quantity[r] - res[r] >= a[r] /\ res[r] + a[r] >= 0
applyReservations(res, a) == [r \in Rows |-> res[r] + a[r]]

\* Mutant of releaseReservations.
ReleaseWithoutFloor(res, a) == [r \in Rows |-> res[r] - a[r]]

(* GREATEST(0, reserved_qty - quantity), which grows if quantity < 0.      *)
releaseReservations(res, a) == [r \in Rows |-> IF res[r] >= a[r] THEN res[r] - a[r] ELSE 0]

validateNoExpiredLots(a, p) == Listed(a, p) \cap expired = {}

Touch(t) == age' = [age EXCEPT ![t] = IF @ = "stale" THEN "touched" ELSE @]

(* The bound of the model on the counters that requests can drive anywhere.*)
InBounds(counter) ==
    \A r \in Rows : counter[r] \in (0 - OversellBound) .. (InitialStock[r] + OversellBound)

-----------------------------------------------------------------------------
Init ==
    /\ quantity = InitialStock
    /\ reserved = Nothing
    /\ expired  = {}
    /\ status   = [t \in Tasks |-> "none"]
    /\ alloc    = [t \in Tasks |-> Nothing]
    /\ picked   = [t \in Tasks |-> Nothing]
    /\ legacy   = [t \in Tasks |-> {}]
    /\ done     = [t \in Tasks |-> {}]
    /\ age      = [t \in Tasks |-> "fresh"]
    /\ shipped  = [t \in Tasks |-> Nothing]

(* The unique order number is the task's name, so a taken one is refused.  *)
CreatePickingTask(t, a) ==
    /\ status[t] = "none"
    /\ status' = [status EXCEPT ![t] = "open"]
    /\ alloc'  = [alloc EXCEPT ![t] = a]
    /\ picked' = [picked EXCEPT ![t] = a]
    /\ UNCHANGED <<stock, expired, legacy, done, age, shipped>>

(* A line of the sheet is an article in one location, or in none.  Only a  *)
(* positive quantity makes an allocation.                                  *)
ImportPickingTaskFromExcel(t, a) ==
    /\ \A r \in Rows : a[r] >= 0
    /\ \A r, q \in Listed(a, a) : SkuOf[r] = SkuOf[q] => r = q
    /\ CreatePickingTask(t, a)

StartPickingTask(t) ==
    /\ status[t] \in {"open", "assigned"}
    /\ validateNoExpiredLots(alloc[t], picked[t])
    /\ CanReserve(reserved, alloc[t], picked[t])
    /\ reserved' = applyReservations(reserved, alloc[t])
    /\ status'   = [status EXCEPT ![t] = "in_progress"]
    /\ Touch(t)
    /\ UNCHANGED <<quantity, expired, alloc, picked, legacy, done, shipped>>

-----------------------------------------------------------------------------
(* UpdatePickingTask.  The payload may carry a status, new items, both or  *)
(* neither; what an item says is stored as it is sent.                     *)

MoveStatus(t, next) ==
    /\ isValidPickingTransition(status[t], next)
    /\ status' = [status EXCEPT ![t] = next]

\* Mutant of ReservedAfterCancel.
ReservedKeptOnCancel(t, next) == reserved

ReservedAfterCancel(t, next) ==
    IF next = "cancelled" /\ status[t] = "in_progress"
    THEN releaseReservations(reserved, alloc[t])
    ELSE reserved

ReplaceItems(t, a, p, L) ==
    /\ alloc'  = [alloc EXCEPT ![t] = a]
    /\ picked' = [picked EXCEPT ![t] = p]
    /\ legacy' = [legacy EXCEPT ![t] = L]
    /\ done'   = [done EXCEPT ![t] = {}]

(* The reservation is recomputed when the task was in_progress on entry,   *)
(* whatever status the payload moves it to.  The old items are released    *)
(* with the fallback to "location", the new ones reserved without it.      *)
Rereserve(t, res, a, p, L) ==
    IF status[t] = "in_progress"
    THEN LET free  == releaseReservations(res, alloc[t])
             typed == WithoutLegacy(a, L)
         IN  /\ validateNoExpiredLots(a, p)
             /\ CanReserve(free, typed, WithoutLegacy(p, L))
             /\ reserved' = applyReservations(free, typed)
             /\ InBounds(reserved')
    ELSE reserved' = res

UpdateStatus(t, next) ==
    /\ status[t] # "none"
    /\ MoveStatus(t, next)
    /\ reserved' = ReservedAfterCancel(t, next)
    /\ Touch(t)
    /\ UNCHANGED <<quantity, expired, alloc, picked, legacy, done, shipped>>

UpdateItems(t, a, p, L) ==
    /\ status[t] # "none"
    /\ Rereserve(t, reserved, a, p, L)
    /\ ReplaceItems(t, a, p, L)
    /\ Touch(t)
    /\ UNCHANGED <<quantity, expired, status, shipped>>

UpdateStatusAndItems(t, next, a, p, L) ==
    /\ status[t] # "none"
    /\ MoveStatus(t, next)
    /\ Rereserve(t, ReservedAfterCancel(t, next), a, p, L)
    /\ ReplaceItems(t, a, p, L)
    /\ Touch(t)
    /\ UNCHANGED <<quantity, expired, shipped>>

(* Notes, priority, assignee, order number or customer: only updated_at.   *)
UpdateOtherFields(t) ==
    /\ status[t] # "none"
    /\ age[t] = "stale"
    /\ Touch(t)
    /\ UNCHANGED <<stock, expired, status, alloc, picked, legacy, done, shipped>>

-----------------------------------------------------------------------------
\* Mutant of ShipAllocations.
ShipWholeAllocations(t, a, p) ==
    /\ quantity' = [r \in Rows |-> quantity[r] - a[r]]
    /\ reserved' = releaseReservations(reserved, a)
    /\ shipped'  = [shipped EXCEPT ![t] = [r \in Rows |-> @[r] + p[r]]]
    /\ InBounds(quantity') /\ InBounds(reserved') /\ InBounds(shipped'[t])

(* What completing allocations a with picked quantities p does to stock    *)
(* and to the ledger of outbound movements.                                *)
ShipAllocations(t, a, p) ==
    /\ quantity' = [r \in Rows |-> quantity[r] - p[r]]
    /\ reserved' = releaseReservations(reserved, a)
    /\ shipped'  = [shipped EXCEPT ![t] = [r \in Rows |-> @[r] + p[r]]]
    /\ InBounds(quantity') /\ InBounds(reserved') /\ InBounds(shipped'[t])

(* The line's article must be in the task; its allocations are the ones    *)
(* the request brings, and the task's status is not looked at.  The items  *)
(* are parsed and written back, with allocations in place of "location".   *)
CompletePickingLine(t, s, a, p) ==
    /\ status[t] # "none"
    /\ validateNoExpiredLots(a, p)
    /\ Listed(alloc[t], picked[t]) \cap RowsOf(s) # {}
    /\ Listed(a, p) \subseteq RowsOf(s)
    /\ ShipAllocations(t, a, p)
    /\ alloc'  = [alloc EXCEPT ![t] = [r \in Rows |-> IF r \in RowsOf(s) THEN a[r] ELSE @[r]]]
    /\ picked' = [picked EXCEPT ![t] = [r \in Rows |-> IF r \in RowsOf(s) THEN p[r] ELSE @[r]]]
    /\ legacy' = [legacy EXCEPT ![t] = {}]
    /\ done'   = [done EXCEPT ![t] = @ \cup {s}]
    /\ Touch(t)
    /\ UNCHANGED <<expired, status>>

FinalStatus(t) ==
    IF picked[t] # alloc[t]
    THEN "completed_with_differences"
    ELSE "completed"

\* Mutant of Completable.
NotCancelled(t) == status[t] \in {"in_progress"} \cup Completed

Completable(t) == status[t] = "in_progress"

(* Every allocation of every item is shipped, completed lines included.    *)
CompletePickingTask(t) ==
    /\ Completable(t)
    /\ ShipAllocations(t, alloc[t], picked[t])
    /\ status' = [status EXCEPT ![t] = FinalStatus(t)]
    /\ Touch(t)
    /\ UNCHANGED <<expired, alloc, picked, legacy, done>>

-----------------------------------------------------------------------------
(* SalesOrdersRepository.Cancel, as it bears on the linked task.           *)
CancelSalesOrder(t) ==
    /\ status[t] \notin Terminal \cup {"none"}
    /\ status' = [status EXCEPT ![t] = "cancelled"]
    /\ Touch(t)
    /\ UNCHANGED <<stock, expired, alloc, picked, legacy, done, shipped>>

\* Mutant of StaleInProgress.
StaleAssigned == {t \in Tasks : status[t] = "assigned" /\ age[t] = "stale"}

(* The cron job: reservations of the stale tasks go back in one UPDATE,    *)
(* summed per row over the allocations in the items, and all of them are   *)
(* abandoned.  The SQL knows no "location" of an item.                     *)
StaleInProgress == {t \in InProgress : age[t] = "stale"}
StaleWaiting    == {t \in Tasks : status[t] \in {"open", "assigned"} /\ age[t] # "fresh"}

InAllocations == [t \in Tasks |-> WithoutLegacy(alloc[t], legacy[t])]

RunStaleReservationsCleanup ==
    /\ StaleInProgress \cup StaleWaiting # {}
    /\ reserved' = releaseReservations(reserved,
                        [r \in Rows |-> NetOver(StaleInProgress, InAllocations, r)])
    /\ status' = [t \in Tasks |->
                    IF t \in StaleInProgress \cup StaleWaiting THEN "abandoned" ELSE status[t]]
    /\ age' = [t \in Tasks |->
                    IF t \in StaleInProgress \cup StaleWaiting THEN "touched" ELSE age[t]]
    /\ UNCHANGED <<quantity, expired, alloc, picked, legacy, done, shipped>>

(* Seven days pass for a task; a lot reaches its expiration date.          *)
SevenDaysPass(t) ==
    /\ status[t] \in {"open", "assigned", "in_progress"}
    /\ age[t] # "stale"
    /\ age' = [age EXCEPT ![t] = IF @ = "fresh" THEN "touched" ELSE "stale"]
    /\ UNCHANGED <<stock, expired, status, alloc, picked, legacy, done, shipped>>

LotExpires(r) ==
    /\ r \notin expired
    /\ expired' = expired \cup {r}
    /\ UNCHANGED <<stock, taskVars, shipped>>

-----------------------------------------------------------------------------
(***************************************************************************)
(* The documented lifecycle: create, start, edit, cancel or complete the   *)
(* whole task; allocate no negative quantity and pick at most what was     *)
(* allocated.  Requests that move a task by a bare status (into            *)
(* in_progress, out of it other than by cancelling) and line completions   *)
(* are not part of it, nor edits of ended tasks or with legacy items.      *)
(***************************************************************************)
OrdinaryLines == {a \in Lines : \A r \in Rows : a[r] >= 0}
ReasonablePicks(a) == {p \in OrdinaryLines : \A r \in Rows : p[r] <= a[r]}
OrdinaryStatuses == {"open", "assigned", "cancelled"}

EditsItems(t) ==
    \E a \in OrdinaryLines : \E p \in ReasonablePicks(a) :
        \/ UpdateItems(t, a, p, {})
        \/ \E next \in OrdinaryStatuses \ {"cancelled"} : UpdateStatusAndItems(t, next, a, p, {})

TaskNext ==
    \/ \E t \in Tasks :
        \/ \E a \in OrdinaryLines : CreatePickingTask(t, a) \/ ImportPickingTaskFromExcel(t, a)
        \/ StartPickingTask(t)
        \/ \E next \in OrdinaryStatuses : UpdateStatus(t, next)
        \/ status[t] \notin Terminal /\ EditsItems(t)
        \/ UpdateOtherFields(t)
        \/ CompletePickingTask(t)
        \/ SevenDaysPass(t)
    \/ RunStaleReservationsCleanup
    \/ \E r \in Rows : LotExpires(r)

(* Everything the endpoints accept.                                        *)
Next ==
    \/ TaskNext
    \/ \E t \in Tasks :
        \/ \E next \in Statuses : UpdateStatus(t, next)
        \/ \E a \in Lines : CreatePickingTask(t, a) \/ ImportPickingTaskFromExcel(t, a)
        \/ \E a, p \in Lines :
            \/ \E L \in LegacyRows(a, p) :
                \/ UpdateItems(t, a, p, L)
                \/ \E next \in Statuses : UpdateStatusAndItems(t, next, a, p, L)
            \/ \E s \in Skus : CompletePickingLine(t, s, a, p)
        \/ CancelSalesOrder(t)

TaskSpec == Init /\ [][TaskNext]_vars
Spec     == Init /\ [][Next]_vars

(* main.go runs CronDispatch every hour for as long as the server lives.   *)
FairTaskSpec == TaskSpec /\ WF_vars(RunStaleReservationsCleanup)

-----------------------------------------------------------------------------
(* Types; reserved_qty is never negative (chk_reserved_non_negative).      *)
TypeOK ==
    /\ quantity \in [Rows -> Int]
    /\ reserved \in [Rows -> Nat]
    /\ expired \subseteq Rows
    /\ status \in [Tasks -> Statuses \cup {"none"}]
    /\ alloc \in [Tasks -> [Rows -> Int]]
    /\ picked \in [Tasks -> [Rows -> Int]]
    /\ legacy \in [Tasks -> SUBSET Rows]
    /\ done \in [Tasks -> SUBSET Skus]
    /\ age \in [Tasks -> Ages]
    /\ shipped \in [Tasks -> [Rows -> Int]]

(* Under the documented lifecycle the counter of every row is exactly the  *)
(* sum of what the in_progress tasks allocate on it: every reservation is  *)
(* given back once, by whichever of completion, cancellation, edit or cron *)
(* job ends it.                                                            *)
ReservationsBalanced == \A r \in Rows : reserved[r] = SumOver(InProgress, alloc, r)

(* Under the documented lifecycle no row has more reserved than it holds,  *)
(* so every started task can be completed in full and no quantity falls    *)
(* below zero.                                                             *)
NeverOversold == \A r \in Rows : reserved[r] <= quantity[r]

(* Whatever the endpoints are asked, stock on hand and the outbound        *)
(* movements account for the initial stock, unit by unit.                  *)
StockAccounted == \A r \in Rows : quantity[r] + NetOver(Tasks, shipped, r) = InitialStock[r]

(* Under the documented lifecycle a task ships what was picked for it,     *)
(* once, if it is completed, and nothing if it is not.                     *)
ShipsOnce ==
    \A t \in Tasks : shipped[t] = IF status[t] \in Completed THEN picked[t] ELSE Nothing

(* A task in a terminal status stays in it.                                *)
TerminalIsFinal ==
    [][\A t \in Tasks : status[t] \in Terminal => status'[t] = status[t]]_vars

(* Whatever the endpoints are asked, a row's reservation grows only while  *)
(* the row holds the stock for all of it, even after other handlers        *)
(* oversold the row, unless a negative quantity is allocated on it: the    *)
(* conditional UPDATE never over-reserves, but releasing a negative        *)
(* allocation reserves without looking at the stock.                       *)
SpeaksOfDebt(t, r) == alloc[t][r] < 0
ReservationGrowsWithinStock ==
    [][\A r \in Rows : reserved'[r] > reserved[r]
            => \/ reserved'[r] <= quantity'[r]
               \/ \E t \in Tasks : SpeaksOfDebt(t, r) \/ SpeaksOfDebt(t, r)']_vars

(* A task in progress that nobody has touched for seven days does not stay *)
(* so: the cron job abandons it unless someone acts on it first.           *)
Forgotten(t) == status[t] = "in_progress" /\ age[t] = "stale"
ForgottenIsReleased == \A t \in Tasks : Forgotten(t) ~> ~Forgotten(t)

(* The inductive invariant of the documented lifecycle: besides the three  *)
(* properties, requests only bring quantities of the model, none of them   *)
(* negative, all of them in allocations, and no task picks more than it    *)
(* allocates.                                                              *)
PicksWithinAllocations ==
    /\ alloc \in [Tasks -> OrdinaryLines]
    /\ picked \in [Tasks -> OrdinaryLines]
    /\ legacy = [t \in Tasks |-> {}]
    /\ \A t \in Tasks, r \in Rows : picked[t][r] <= alloc[t][r]

LifecycleInv ==
    TypeOK /\ PicksWithinAllocations /\ ReservationsBalanced /\ NeverOversold /\ ShipsOnce

-----------------------------------------------------------------------------
(* What each task holds of each row: its allocations while in progress.    *)
Held == [t \in Tasks |-> IF status[t] = "in_progress" THEN alloc[t] ELSE Nothing]

(* The promise that the documented lifecycle keeps.                        *)
Promises == INSTANCE StockPromises WITH
    Holders  <- Tasks,
    Amounts  <- (Quantities \cap Nat) \cup {0},
    onHand   <- quantity,
    promised <- Held

(* The documented lifecycle implements StockPromises: seen through the     *)
(* allocations of the tasks in progress, units are promised to one task at *)
(* a time and leave only for the task they are promised to.                *)
KeepsPromises == Promises!PromiseSpec

-----------------------------------------------------------------------------
(* What comments of the source say of wider use of the endpoints.          *)

(* ports/sales_orders.go: Cancel releases picking reservations.            *)
CancelReleases ==
    [][\A t \in Tasks : status[t] = "in_progress" /\ status'[t] = "cancelled"
            => reserved' = releaseReservations(reserved, alloc[t])]_vars

CancelSpec == Init /\ [][TaskNext \/ \E t \in Tasks : CancelSalesOrder(t)]_vars

=============================================================================

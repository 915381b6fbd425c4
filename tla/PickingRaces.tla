----------------------------- MODULE PickingRaces -----------------------------
(***************************************************************************)
(* The transactions of the picking handlers, statement by statement.       *)
(*                                                                         *)
(* A handler reads its task without a lock, decides, updates inventory     *)
(* rows one by one, writes the task and commits.  PostgreSQL runs the      *)
(* transactions READ COMMITTED: a read sees what is committed, an UPDATE   *)
(* locks its row until the transaction ends, waits for another's lock and  *)
(* evaluates its WHERE and SET on the row as it then is.  A transaction    *)
(* may end at any point in a rollback: a failed guard, a deadlock victim,  *)
(* a lost connection, a stopped server.                                    *)
(*                                                                         *)
(* Items are picked as allocated.  The last UPDATE of a handler, of the    *)
(* task by its id, and the COMMIT that follows are one step: the lock it   *)
(* takes is held while no other is waited for.                             *)
(***************************************************************************)
EXTENDS Integers, Sequences, SequencesExt, StockSums

CONSTANTS
    Clients,        \* concurrent transactions
    Tasks, Rows,
    Plans,          \* items a task may have: sequences of [row, n]
    MaxQuantity,    \* the largest n, and the most of a row in one task
    InitialStock

Item == [row : Rows, n : 1 .. MaxQuantity]

(* What a list of items allocates on each row.                             *)
AllocationOf(plan) ==
    [r \in Rows |-> SumOver({i \in DOMAIN plan : plan[i].row = r}, plan, "n")]

ASSUME RacesAssumption ==
    /\ IsFiniteSet(Tasks) /\ IsFiniteSet(Rows)
    /\ MaxQuantity \in Nat
    /\ \A plan \in Plans : /\ plan \in Seq(Item)
                           /\ \A r \in Rows : AllocationOf(plan)[r] <= MaxQuantity
    /\ InitialStock \in [Rows -> Nat]

VARIABLES
    quantity, reserved,             \* committed inventory rows
    status, items, age, shipped,    \* committed tasks and movements
    tx,                             \* what each client's transaction is about
    exclusive                       \* whether transactions about one task exclude each other

txVars == <<quantity, reserved, status, items, age, shipped, tx>>
vars == <<txVars, exclusive>>

Terminal == {"completed", "cancelled", "abandoned"}
InProgress == {t \in Tasks : status[t] = "in_progress"}

Allocations == [t \in Tasks |-> AllocationOf(items[t])]

(* A transaction: the handler, the tasks it is about, the new items of an  *)
(* edit, the UPDATEs still to run, and the inventory rows written and      *)
(* locked so far with their values.                                        *)
NoTx == [op |-> "none", tasks |-> {}, plan |-> <<>>, todo |-> <<>>, rows |-> <<>>]
Active == {c \in Clients : tx[c] # NoTx}

(* rows, with the value w for row r.                                       *)
With(rows, r, w) == [q \in DOMAIN rows \cup {r} |-> IF q = r THEN w ELSE rows[q]]

Row(c, r) == IF r \in DOMAIN tx[c].rows THEN tx[c].rows[r]
             ELSE [quantity |-> quantity[r], reserved |-> reserved[r]]

\* Mutant of CanLock.
LockedByNobody(c, r) == TRUE

CanLock(c, r) == \A d \in Clients \ {c} : r \notin DOMAIN tx[d].rows

-----------------------------------------------------------------------------
(* The UPDATEs of inventory.                                               *)

Statements(kind, plan) ==
    [i \in DOMAIN plan |-> [kind |-> kind, row |-> plan[i].row, n |-> plan[i].n]]

\* Mutant of Released.
ReleasedWithoutFloor(row, n) == row.reserved - n

Released(row, n) == IF row.reserved >= n THEN row.reserved - n ELSE 0

\* Mutant of HasStock.
StockIgnoringReserved(row, s) == s.kind = "reserve" => row.quantity >= s.n

HasStock(row, s) == s.kind = "reserve" => row.quantity - row.reserved >= s.n

Updated(row, s) ==
    CASE s.kind = "reserve" -> [row EXCEPT !.reserved = @ + s.n]
      [] s.kind = "release" -> [row EXCEPT !.reserved = Released(row, s.n)]
      [] s.kind = "ship"    -> [quantity |-> row.quantity - s.n, reserved |-> Released(row, s.n)]

-----------------------------------------------------------------------------
Init ==
    /\ quantity = InitialStock
    /\ reserved = [r \in Rows |-> 0]
    /\ status   = [t \in Tasks |-> "none"]
    /\ items    = [t \in Tasks |-> <<>>]
    /\ age      = [t \in Tasks |-> "fresh"]
    /\ shipped  = [t \in Tasks |-> [r \in Rows |-> 0]]
    /\ tx       = [c \in Clients |-> NoTx]
    /\ exclusive \in BOOLEAN

committed == <<quantity, reserved, status, items, age, shipped>>

CreatePickingTask(t, plan) ==
    /\ status[t] = "none"
    /\ status' = [status EXCEPT ![t] = "open"]
    /\ items'  = [items EXCEPT ![t] = plan]
    /\ UNCHANGED <<quantity, reserved, age, shipped, tx>>

Begin(c, op, tasks, plan, todo) ==
    /\ tx[c] = NoTx
    /\ tx' = [tx EXCEPT ![c] = [op |-> op, tasks |-> tasks, plan |-> plan,
                                todo |-> todo, rows |-> <<>>]]
    /\ UNCHANGED committed

BeginStart(c, t) ==
    /\ status[t] \in {"open", "assigned"}
    /\ Begin(c, "start", {t}, <<>>, Statements("reserve", items[t]))

(* Whether to release is decided on the status read here.                  *)
BeginCancel(c, t) ==
    /\ status[t] \in {"open", "assigned", "in_progress"}
    /\ Begin(c, "cancel", {t}, <<>>,
             IF status[t] = "in_progress" THEN Statements("release", items[t]) ELSE <<>>)

BeginEdit(c, t, plan) ==
    /\ status[t] \in {"open", "assigned", "in_progress"}
    /\ Begin(c, "edit", {t}, plan,
             IF status[t] = "in_progress"
             THEN Statements("release", items[t]) \o Statements("reserve", plan)
             ELSE <<>>)

BeginComplete(c, t) ==
    /\ status[t] = "in_progress"
    /\ Begin(c, "complete", {t}, <<>>, Statements("ship", items[t]))

(* The cron job, one at a time (advisory lock): the sums are those of the  *)
(* stale tasks of this moment, the rows are updated in any order.          *)
StaleInProgress == {t \in InProgress : age[t] = "stale"}
StaleWaiting    == {t \in Tasks : status[t] \in {"open", "assigned"} /\ age[t] # "fresh"}
Stale == StaleInProgress \cup StaleWaiting
Running(op) == \E c \in Clients : tx[c].op = op

BeginCleanup(c) ==
    /\ Stale # {}
    /\ ~Running("cleanup")
    /\ LET sums == [r \in Rows |-> SumOver(StaleInProgress, Allocations, r)]
       IN  \E order \in SetToSeqs({r \in Rows : sums[r] > 0}) :
              Begin(c, "cleanup", Stale, <<>>,
                    [i \in DOMAIN order |-> [kind |-> "release", row |-> order[i], n |-> sums[order[i]]]])

(* One UPDATE of an inventory row.                                         *)
Statement(c) ==
    /\ tx[c].todo # <<>>
    /\ LET s == Head(tx[c].todo)
       IN  /\ CanLock(c, s.row)
           /\ HasStock(Row(c, s.row), s)
           /\ tx' = [tx EXCEPT ![c] = [tx[c] EXCEPT
                 !.todo = Tail(@), !.rows = With(@, s.row, Updated(Row(c, s.row), s))]]
    /\ UNCHANGED committed

Rollback(c) ==
    /\ tx[c] # NoTx
    /\ tx' = [tx EXCEPT ![c] = NoTx]
    /\ UNCHANGED committed

-----------------------------------------------------------------------------
(* The last UPDATE, of the tasks, and COMMIT.                              *)

CommitRows(c) ==
    /\ tx[c].todo = <<>>
    /\ quantity' = [r \in Rows |-> Row(c, r).quantity]
    /\ reserved' = [r \in Rows |-> Row(c, r).reserved]
    /\ tx' = [tx EXCEPT ![c] = NoTx]

Touch(t) == age' = [age EXCEPT ![t] = IF @ = "stale" THEN "touched" ELSE @]

(* UPDATE picking_tasks SET status = ... WHERE id = ...                    *)
CommitStatus(c, op, new) ==
    /\ tx[c].op = op
    /\ CommitRows(c)
    /\ \E t \in tx[c].tasks :
        /\ status'  = [status EXCEPT ![t] = new]
        /\ shipped' = IF op = "complete"
                      THEN [shipped EXCEPT ![t] = [r \in Rows |-> @[r] + quantity[r] - Row(c, r).quantity]]
                      ELSE shipped
        /\ Touch(t)
    /\ UNCHANGED items

CommitEdit(c) ==
    /\ tx[c].op = "edit"
    /\ CommitRows(c)
    /\ \E t \in tx[c].tasks :
        /\ items' = [items EXCEPT ![t] = tx[c].plan]
        /\ Touch(t)
    /\ UNCHANGED <<status, shipped>>

(* The job's last UPDATEs select the tasks again.                          *)
CommitCleanup(c) ==
    /\ tx[c].op = "cleanup"
    /\ CommitRows(c)
    /\ status' = [t \in Tasks |-> IF t \in Stale THEN "abandoned" ELSE status[t]]
    /\ age'    = [t \in Tasks |-> IF t \in Stale THEN "touched" ELSE age[t]]
    /\ UNCHANGED <<items, shipped>>

Commit(c) ==
    \/ CommitStatus(c, "start", "in_progress")
    \/ CommitStatus(c, "cancel", "cancelled")
    \/ CommitStatus(c, "complete", "completed")
    \/ CommitEdit(c)
    \/ CommitCleanup(c)

(* NOW() is the time a transaction began, so a task that turns seven days  *)
(* old while the job runs is not stale for it: it turns so afterwards.     *)
SevenDaysPass(t) ==
    /\ status[t] \in {"open", "assigned", "in_progress"}
    /\ age[t] # "stale"
    /\ ~Running("cleanup")
    /\ age' = [age EXCEPT ![t] = IF @ = "fresh" THEN "touched" ELSE "stale"]
    /\ UNCHANGED <<quantity, reserved, status, items, shipped, tx>>

-----------------------------------------------------------------------------
BeginOn(c, t) ==
    \/ BeginStart(c, t)
    \/ BeginCancel(c, t)
    \/ \E plan \in Plans : BeginEdit(c, t, plan)
    \/ BeginComplete(c, t)

Others ==
    \/ \E t \in Tasks : SevenDaysPass(t) \/ \E plan \in Plans : CreatePickingTask(t, plan)
    \/ \E c \in Clients : Statement(c) \/ Commit(c) \/ Rollback(c)

(* Any requests at the same time, or no two transactions at the same time  *)
(* about the same task.                                                    *)
Busy == UNION {tx[c].tasks : c \in Clients}
Excluded == IF exclusive THEN Busy ELSE {}
Next ==
    /\ exclusive' = exclusive
    /\ \/ \E c \in Clients, t \in Tasks \ Excluded : BeginOn(c, t)
       \/ \E c \in Clients : Stale \cap Excluded = {} /\ BeginCleanup(c)
       \/ Others

Spec == Init /\ [][Next]_vars

-----------------------------------------------------------------------------
(* Types; no UPDATE makes a counter negative, committed or not.            *)
TypeOK ==
    /\ quantity \in [Rows -> Int] /\ reserved \in [Rows -> Nat]
    /\ status \in [Tasks -> {"none", "open", "in_progress"} \cup Terminal]
    /\ items \in [Tasks -> Plans \cup {<<>>}]
    /\ age \in [Tasks -> {"fresh", "touched", "stale"}]
    /\ shipped \in [Tasks -> [Rows -> Nat]]
    /\ \A c \in Clients :
        /\ tx[c].op \in {"none", "start", "cancel", "edit", "complete", "cleanup"}
        /\ tx[c].tasks \subseteq Tasks
        /\ \A r \in DOMAIN tx[c].rows : r \in Rows /\ tx[c].rows[r].reserved \in Nat

(* Transactions about different tasks may interleave as they like, on the  *)
(* same rows: what commits is what the handlers of PickingTasks would do   *)
(* one after the other.  Of behaviours whose transactions do not exclude   *)
(* each other nothing is said: they are mapped to one that never moves.    *)
Shown(v, initially) == IF exclusive THEN v ELSE initially
Serial == INSTANCE PickingTasks WITH
    Skus <- {"sku"}, SkuOf <- [r \in Rows |-> "sku"],
    Quantities <- 1 .. MaxQuantity, OversellBound <- 0,
    expired <- {}, legacy <- [t \in Tasks |-> {}], done <- [t \in Tasks |-> {}],
    quantity <- Shown(quantity, InitialStock),
    reserved <- Shown(reserved, [r \in Rows |-> 0]),
    status <- Shown(status, [t \in Tasks |-> "none"]),
    age <- Shown(age, [t \in Tasks |-> "fresh"]),
    shipped <- Shown(shipped, [t \in Tasks |-> [r \in Rows |-> 0]]),
    alloc <- Shown(Allocations, [t \in Tasks |-> [r \in Rows |-> 0]]),
    picked <- Shown(Allocations, [t \in Tasks |-> [r \in Rows |-> 0]])
TasksSerialise == Serial!TaskSpec

(* However requests race, no UPDATE is lost: the movements of the          *)
(* completions account for the stock.                                      *)
NoLostUpdate == \A r \in Rows : quantity[r] + SumOver(Tasks, shipped, r) = InitialStock[r]

(* However requests race, a commit reserves only stock the row has.        *)
CommitsWithinStock ==
    [][\A r \in Rows : reserved'[r] > reserved[r] => reserved'[r] <= quantity'[r]]_vars

=============================================================================

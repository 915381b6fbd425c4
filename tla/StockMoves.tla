------------------------------ MODULE StockMoves ------------------------------
(***************************************************************************)
(* The inventory rows of one SKU and everything that writes them: stock    *)
(* transfers, adjustments, creation, update and deletion by hand, imports, *)
(* and the reservations and shipments of picking.                          *)
(*                                                                         *)
(* Picking writes with relative UPDATEs, each one step here.  The others   *)
(* read a row and write it back later: the read, the write and the commit  *)
(* are steps of their own, under PostgreSQL's READ COMMITTED.  A           *)
(* transaction may end in a rollback at any point.                         *)
(*                                                                         *)
(* Nothing in the schema makes (sku, location) unique, so a location may   *)
(* come to have two rows; a query for one row takes the one with the       *)
(* smallest id, and ids are random.                                        *)
(***************************************************************************)
EXTENDS Integers, Sequences, FiniteSetsExt, TLC

CONSTANTS
    Clients,        \* concurrent requests
    Locations,
    Transfers,
    Ids,            \* ids of inventory rows
    LineChoices,    \* the lines a transfer may have: sequences of quantities
    Amounts,        \* the quantities adjusted, counted, created and edited
    Allocations,    \* the quantities picking tasks allocate and pick, of either sign
    FileChoices,    \* the files imported: sequences of [at, quantity]
    MaxQuantity,    \* bound on the quantity of a row
    MaxHeld,        \* bound on what is reserved of a row
    MaxRequests,    \* bound on the requests served
    InitialStock    \* quantity at each location

ASSUME MovesAssumption ==
    /\ Ids \subseteq Nat \ {0} /\ IsFiniteSet(Ids)
    /\ Cardinality(Ids) >= Cardinality(Locations) /\ "nowhere" \notin Locations
    /\ LineChoices \subseteq Seq(Nat \ {0})
    /\ Amounts \subseteq Nat \ {0} /\ Allocations \subseteq Int
    /\ FileChoices \subseteq Seq([at : Locations, quantity : Int])
    /\ MaxQuantity \in Nat /\ MaxHeld \in Nat /\ MaxRequests \in Nat
    /\ InitialStock \in [Locations -> Nat]

VARIABLES
    rows,           \* id -> committed row, NoRow when there is none
    transfer,       \* header and lines of each transfer
    tx,             \* what each client's request is about
    held,           \* what the picking tasks in progress hold, by location
    loose,          \* locations where picking left its lifecycle, see Strays
    ledger,         \* sum of the inventory movements, by location
    spoilt,         \* locations whose account is lost, see Spoils
    requests        \* how many requests came so far

picking == <<held, loose>>
stock == <<rows, picking, ledger, spoilt>>
vars == <<stock, transfer, tx, requests>>

Statuses == {"draft", "in_progress", "completed", "cancelled"}
NoRow == [at |-> "nowhere", quantity |-> 0, reserved |-> 0]
NoTransfer == [status |-> "none"]
NoTx == [op |-> "none"]
Row == [at : Locations, quantity : Int, reserved : Nat]

At(table, l) == {id \in DOMAIN table : table[id].at = l}

(* .First(): the row at l with the smallest id.                            *)
First(table, l) == Min(At(table, l))

(* Rows written by an open transaction are locked until it ends.           *)
Written(c) == IF tx[c].op = "transfer" THEN tx[c].written ELSE <<>>

\* Mutant of CanLock.
LocksNothing(c, ids) == TRUE

CanLock(c, ids) == \A d \in Clients \ {c} : ids \cap DOMAIN Written(d) = {}

(* A table with these rows written.                                        *)
With(table, new) == [id \in DOMAIN table \cup DOMAIN new |->
    IF id \in DOMAIN new THEN new[id] ELSE table[id]]

(* What c sees: its own writes over what is committed.                     *)
Seen(c) == With(rows, Written(c))

(* What loses a location's account, and what nothing else does: a row that *)
(* changed after it was read is overwritten as it was ("where" says so),   *)
(* the location gets a second row, a count sets the stock below what is    *)
(* reserved, an Excel file brings a negative quantity, or stock is changed *)
(* or deleted by hand without a movement.                                  *)
Spoils(where) ==
    spoilt' = spoilt \cup where \cup {l \in Locations : Cardinality(At(rows', l)) > 1}

(* The movements recorded by a step; those of a spoilt location are no     *)
(* longer counted.                                                         *)
Records(change) == ledger' = [l \in Locations |->
    IF l \in spoilt' THEN 0 ELSE ledger[l] + change[l]]
Nothing == [l \in Locations |-> 0]
Only(l, n) == [Nothing EXCEPT ![l] = n]

Fits(quantity) == quantity \in -MaxQuantity .. MaxQuantity

(* A new row gets a random id, never one a row has or had: the ids of the  *)
(* rows there are and those an open request remembers are not reused.      *)
Remembered(c) ==
    CASE tx[c].op \in {"adjust", "update"} -> {tx[c].id}
      [] tx[c].op = "transfer" -> DOMAIN Written(c) \cup {tx[c].read[1] : i \in DOMAIN tx[c].read}
      [] OTHER -> {}
FreshIds == {id \in Ids : rows[id] = NoRow} \ UNION {Remembered(c) : c \in Clients}

Init ==
    /\ \E idOf \in [Locations -> Ids] :
        /\ \A k, l \in Locations : idOf[k] = idOf[l] => k = l
        /\ rows = [id \in Ids |->
            IF \E l \in Locations : idOf[l] = id /\ InitialStock[l] > 0
            THEN LET l == CHOOSE l \in Locations : idOf[l] = id
                 IN  [at |-> l, quantity |-> InitialStock[l], reserved |-> 0]
            ELSE NoRow]
    /\ transfer = [t \in Transfers |-> NoTransfer]
    /\ tx       = [c \in Clients |-> NoTx]
    /\ held     = [l \in Locations |-> 0]
    /\ loose    = {}
    /\ ledger   = InitialStock
    /\ spoilt   = {}
    /\ requests = 0

Request == requests < MaxRequests /\ requests' = requests + 1

Begin(c, request) ==
    /\ tx[c] = NoTx
    /\ tx' = [tx EXCEPT ![c] = request]
    /\ Request
    /\ UNCHANGED <<stock, transfer>>

Rollback(c) ==
    /\ tx[c] # NoTx
    /\ tx' = [tx EXCEPT ![c] = NoTx]
    /\ UNCHANGED <<stock, transfer, requests>>

End(c) == tx' = [tx EXCEPT ![c] = NoTx] /\ UNCHANGED requests

-----------------------------------------------------------------------------
(* Transfer headers and lines, each a statement of its own.                *)

SetTransfer(t, value) ==
    /\ transfer' = [transfer EXCEPT ![t] = value]
    /\ Request
    /\ UNCHANGED <<stock, tx>>

(* The lines are inserted one by one after the header: a failure leaves    *)
(* those inserted so far.                                                  *)
CreateStockTransfer(t, from, to, lines) ==
    /\ transfer[t] = NoTransfer /\ from # to /\ lines # <<>>
    /\ \E n \in 0 .. Len(lines) :
        SetTransfer(t, [status |-> "draft", from |-> from, to |-> to, lines |-> SubSeq(lines, 1, n)])

UpdateStockTransfer(t, from, to, status) ==
    /\ transfer[t] # NoTransfer /\ from # to
    /\ SetTransfer(t, [transfer[t] EXCEPT !.status = status, !.from = from, !.to = to])

DeleteStockTransfer(t) == transfer[t] # NoTransfer /\ SetTransfer(t, NoTransfer)

(* One line added, changed or deleted, whatever the status.                *)
EditLine(t, lines) ==
    /\ transfer[t] # NoTransfer
    /\ SetTransfer(t, [transfer[t] EXCEPT !.lines = lines])

EditTransfer(t) ==
    \/ \E from, to \in Locations :
        \/ \E lines \in LineChoices : CreateStockTransfer(t, from, to, lines)
        \/ \E status \in Statuses : UpdateStockTransfer(t, from, to, status)
    \/ DeleteStockTransfer(t)
    \/ \E lines \in LineChoices \cup {<<>>} :
        EditLine(t, lines) /\ Len(lines) - Len(transfer[t].lines) \in -1 .. 1

-----------------------------------------------------------------------------
(* ExecuteTransfer.                                                        *)

(* Header and lines are read before the transaction; any edit of either    *)
(* may come between.                                                       *)
BeginTransfer(c, t) ==
    /\ transfer[t] # NoTransfer
    /\ transfer[t].status \in {"draft", "in_progress"}
    /\ transfer[t].lines # <<>>
    /\ Begin(c, [op |-> "transfer", transfer |-> t, from |-> transfer[t].from,
                 to |-> transfer[t].to, todo |-> transfer[t].lines, moved |-> 0,
                 read |-> <<>>, written |-> <<>>, overwrote |-> FALSE])

Available(row) == row.quantity - row.reserved

(* SELECT ... FOR UPDATE and the UPDATE of the source, then the read of    *)
(* the destination, which locks nothing.                                   *)
TakeFromSource(c) ==
    /\ tx[c].op = "transfer" /\ tx[c].todo # <<>> /\ tx[c].read = <<>>
    /\ LET n    == Head(tx[c].todo)
           here == At(Seen(c), tx[c].from)
       IN  /\ CanLock(c, here)
           /\ \E id \in here :
               /\ n <= Available(Seen(c)[id])
               /\ LET now == [Seen(c) EXCEPT ![id].quantity = @ - n]
                  IN  tx' = [tx EXCEPT ![c] = [tx[c] EXCEPT
                        !.written = [i \in here \cup DOMAIN @ |-> now[i]],
                        !.read = IF At(now, tx[c].to) = {} THEN <<0, NoRow>>
                                 ELSE LET to == First(now, tx[c].to) IN <<to, now[to]>>]]
    /\ UNCHANGED <<stock, transfer, requests>>

(* Save of the row as read, or an INSERT where there was none.             *)
PutAtDestination(c) ==
    /\ tx[c].op = "transfer" /\ tx[c].read # <<>>
    /\ LET n == Head(tx[c].todo)
           Put(id, row, overwrites) == tx' = [tx EXCEPT ![c] = [tx[c] EXCEPT
               !.written = With(@, [i \in {id} |-> row]), !.read = <<>>, !.todo = Tail(@),
               !.moved = @ + n, !.overwrote = @ \/ overwrites]]
       IN  IF tx[c].read[1] = 0
           THEN \E id \in FreshIds :
                   Put(id, [at |-> tx[c].to, quantity |-> n, reserved |-> 0], FALSE)
           ELSE LET id  == tx[c].read[1]
                    row == tx[c].read[2]
                IN  /\ CanLock(c, {id}) /\ Fits(row.quantity + n)
                    /\ Put(id, [row EXCEPT !.quantity = @ + n], row # Seen(c)[id])
    /\ UNCHANGED <<stock, transfer, requests>>

CommitTransfer(c) ==
    /\ tx[c].op = "transfer" /\ tx[c].todo = <<>>
    /\ rows' = Seen(c)
    /\ transfer' = [transfer EXCEPT ![tx[c].transfer] =
                        IF @ = NoTransfer THEN @ ELSE [@ EXCEPT !.status = "completed"]]
    /\ Spoils(IF tx[c].overwrote THEN {tx[c].to} ELSE {})
    /\ Records([Only(tx[c].to, tx[c].moved) EXCEPT ![tx[c].from] = -tx[c].moved])
    /\ End(c)
    /\ UNCHANGED picking

-----------------------------------------------------------------------------
(* CreateAdjustment.  What the service checks of a decrease the repository *)
(* checks again on the row it reads itself, which is the check that binds. *)

\* Mutant of AdjustmentAllowed.
AllowedAboveZero(row, change) == row.quantity + change >= 0

AdjustmentAllowed(row, change) ==
    row.quantity + change >= 0 /\ row.quantity + change >= row.reserved

ReadToAdjust(l, change, counted) == LET id == First(rows, l) IN
    [op |-> "adjust", id |-> id, row |-> rows[id], change |-> change, counted |-> counted]

BeginAdjustment(c, l, change) ==
    /\ At(rows, l) # {}
    /\ AdjustmentAllowed(rows[First(rows, l)], change)
    /\ Begin(c, ReadToAdjust(l, change, FALSE))

(* A count is turned into a change by the service, which reads the row     *)
(* for it; the repository reads it again and checks nothing.               *)
BeginCount(c, l, target) ==
    /\ At(rows, l) # {}
    /\ Begin(c, [op |-> "count", at |-> l, change |-> target - rows[First(rows, l)].quantity])

ReadCounted(c) ==
    /\ tx[c].op = "count" /\ At(rows, tx[c].at) # {}
    /\ tx' = [tx EXCEPT ![c] = ReadToAdjust(@.at, @.change, TRUE)]
    /\ UNCHANGED <<stock, transfer, requests>>

(* Save of the row as read: a row deleted meanwhile comes back.            *)
SaveAdjustment(c) ==
    /\ tx[c].op = "adjust"
    /\ LET row == [tx[c].row EXCEPT !.quantity = @ + tx[c].change]
           l   == row.at
       IN  /\ CanLock(c, {tx[c].id}) /\ Fits(row.quantity)
           /\ rows' = [rows EXCEPT ![tx[c].id] = row]
           /\ Spoils(IF \/ rows[tx[c].id] # tx[c].row
                        \/ tx[c].counted /\ row.quantity < row.reserved
                     THEN {l} ELSE {})
           /\ Records(Only(l, tx[c].change))
    /\ End(c)
    /\ UNCHANGED <<transfer, picking>>

-----------------------------------------------------------------------------
(* Rows created, updated and deleted by hand.                              *)

BeginCreate(c, l, quantity) ==
    /\ At(rows, l) = {}
    /\ Begin(c, [op |-> "create", at |-> l, quantity |-> quantity, todo |-> <<>>, skips |-> FALSE])

(* Of a file the rest is still to do.                                      *)
CommitCreate(c) ==
    /\ tx[c].op = "create"
    /\ \E id \in FreshIds :
        rows' = [rows EXCEPT ![id] = [at |-> tx[c].at, quantity |-> tx[c].quantity, reserved |-> 0]]
    /\ Spoils(IF tx[c].quantity < 0 THEN {tx[c].at} ELSE {})
    /\ Records(Only(tx[c].at, tx[c].quantity))
    /\ tx' = [tx EXCEPT ![c] = IF @.todo = <<>> THEN NoTx
                                   ELSE [op |-> "import", todo |-> @.todo, skips |-> @.skips]]
    /\ UNCHANGED <<transfer, picking, requests>>

(* A file is a transaction per row.  JSON rows with a negative quantity    *)
(* are skipped; Excel rows are not looked at.                              *)
ImportInventoryFromExcel(c, file) == Begin(c, [op |-> "import", todo |-> file, skips |-> FALSE])
ImportInventoryFromJSON(c, file) == Begin(c, [op |-> "import", todo |-> file, skips |-> TRUE])

(* The first row that fails ends the import; those before it stay.         *)
ImportRow(c) ==
    /\ tx[c].op = "import"
    /\ tx' = [tx EXCEPT ![c] =
        IF @.todo = <<>> THEN NoTx
        ELSE LET row == Head(@.todo) IN
             CASE @.skips /\ row.quantity < 0 ->
                     [op |-> "import", todo |-> Tail(@.todo), skips |-> TRUE]
               [] ~(@.skips /\ row.quantity < 0) /\ At(rows, row.at) # {} -> NoTx
               [] OTHER -> [op |-> "create", at |-> row.at, quantity |-> row.quantity,
                            todo |-> Tail(@.todo), skips |-> @.skips]]
    /\ UNCHANGED <<stock, transfer, requests>>

BeginUpdate(c, l, quantity) ==
    /\ At(rows, l) # {}
    /\ LET id == First(rows, l)
       IN  Begin(c, [op |-> "update", id |-> id, quantity |-> quantity, reserved |-> rows[id].reserved])

(* Updates of a struct writes its fields that are not zero: reserved_qty   *)
(* goes back to what was read unless that was 0.  No movement is recorded. *)
CommitUpdate(c) ==
    /\ tx[c].op = "update" /\ CanLock(c, {tx[c].id})
    /\ LET id == tx[c].id IN
        /\ rows' = [rows EXCEPT ![id] = IF @ = NoRow THEN NoRow ELSE
                      [rows[id] EXCEPT !.quantity = tx[c].quantity,
                                       !.reserved = IF tx[c].reserved = 0 THEN @ ELSE tx[c].reserved]]
        /\ Spoils(IF rows'[id] = rows[id] THEN {} ELSE {rows[id].at})
    /\ Records(Nothing)
    /\ End(c)
    /\ UNCHANGED <<transfer, picking>>

DeleteInventory(l) ==
    /\ At(rows, l) # {}
    /\ \A c \in Clients : At(rows, l) \cap DOMAIN Written(c) = {}
    /\ rows' = [id \in Ids |-> IF id \in At(rows, l) THEN NoRow ELSE rows[id]]
    /\ Spoils({l})
    /\ Records(Nothing)
    /\ Request
    /\ UNCHANGED <<transfer, tx, picking>>

-----------------------------------------------------------------------------
(* Picking: relative UPDATEs of every row at the location.                 *)

\* Mutant of Released.
ReleasedWithoutFloor(row, n) == row.reserved - n

Released(row, n) == IF row.reserved >= n THEN row.reserved - n ELSE 0

(* What takes a location out of the lifecycle of picking tasks, and what   *)
(* nothing else does: a line is picked that no task holds there (not yet,  *)
(* or not any more), less than nothing or more than was allocated is       *)
(* picked, a quantity is negative, a reservation is released twice, or a   *)
(* task ends and leaves it.                                                *)
Strays(where) == loose' = loose \cup where
Holds(l, change) == held' = [held EXCEPT ![l] = IF l \in loose' THEN 0 ELSE @ + change]

(* One UPDATE gives the rows in the domain of new these values.            *)
UpdateRows(new) ==
    /\ \A c \in Clients : DOMAIN new \cap DOMAIN Written(c) = {}
    /\ \A id \in DOMAIN new : Fits(new[id].quantity) /\ new[id].reserved <= MaxHeld
    /\ rows' = With(rows, new)
    /\ Spoils({})
    /\ Request
    /\ UNCHANGED <<transfer, tx>>

(* The constraint of migration 17 keeps a negative allocation from taking  *)
(* more than is reserved.                                                  *)
Reserve(l, n) ==
    LET enough == {id \in At(rows, l) : Available(rows[id]) >= n}
    IN  /\ enough # {} /\ \A id \in enough : rows[id].reserved + n >= 0
        /\ UpdateRows([id \in enough |-> [rows[id] EXCEPT !.reserved = @ + n]])
        /\ Strays(IF n < 0 THEN {l} ELSE {})
        /\ held[l] + n <= MaxHeld /\ Holds(l, n)
        /\ Records(Nothing)

Keeps(l, allocated, picked) == allocated \in 0 .. held[l] /\ picked \in 0 .. allocated

(* A task lets go of what it allocated, of what it holds (inside) or not.  *)
Release(l, allocated, inside) ==
    /\ inside => Keeps(l, allocated, 0)
    /\ UpdateRows([id \in At(rows, l) |->
            [rows[id] EXCEPT !.reserved = Released(rows[id], allocated)]])
    /\ Strays(IF inside THEN {} ELSE {l})
    /\ Holds(l, -allocated)
    /\ Records(Nothing)

(* And ships what was picked, with the whole task or line by line.         *)
Ship(l, allocated, picked, inside) ==
    /\ At(rows, l) # {}
    /\ inside => Keeps(l, allocated, picked)
    /\ UpdateRows([id \in At(rows, l) |->
            [rows[id] EXCEPT !.quantity = @ - picked, !.reserved = Released(rows[id], allocated)]])
    /\ Strays(IF inside THEN {} ELSE {l})
    /\ Holds(l, -allocated)
    /\ Records(Only(l, -picked))

(* A task completed by its status alone, or whose order is cancelled, no   *)
(* longer holds what stays reserved.                                       *)
LeaveReserved(l) ==
    /\ held[l] > 0
    /\ Strays({l})
    /\ Holds(l, 0)
    /\ Request
    /\ UNCHANGED <<rows, ledger, spoilt, transfer, tx>>

Picking(l) ==
    \/ LeaveReserved(l)
    \/ \E n \in Allocations :
        \/ Reserve(l, n)
        \/ \E inside \in BOOLEAN :
            \/ Release(l, n, inside)
            \/ \E picked \in Allocations \cup {0} : Ship(l, n, picked, inside)

-----------------------------------------------------------------------------
Next ==
    \/ \E t \in Transfers : EditTransfer(t)
    \/ \E c \in Clients :
        \/ \E t \in Transfers : BeginTransfer(c, t)
        \/ TakeFromSource(c) \/ PutAtDestination(c) \/ CommitTransfer(c)
        \/ ReadCounted(c) \/ SaveAdjustment(c)
        \/ CommitCreate(c) \/ ImportRow(c) \/ CommitUpdate(c) \/ Rollback(c)
        \/ \E file \in FileChoices :
            ImportInventoryFromExcel(c, file) \/ ImportInventoryFromJSON(c, file)
        \/ \E l \in Locations, n \in Amounts :
            \/ BeginAdjustment(c, l, n) \/ BeginAdjustment(c, l, -n)
            \/ BeginCount(c, l, n) \/ BeginCreate(c, l, n) \/ BeginUpdate(c, l, n)
    \/ \E l \in Locations : DeleteInventory(l) \/ Picking(l)

Spec == Init /\ [][Next]_vars

-----------------------------------------------------------------------------
(* Types; reserved_qty stays non-negative, as migration 17 demands.        *)
TypeOK ==
    /\ rows \in [Ids -> Row \cup {NoRow}]
    /\ \A t \in Transfers : transfer[t] # NoTransfer =>
        /\ transfer[t].status \in Statuses
        /\ transfer[t].from \in Locations /\ transfer[t].to \in Locations \ {transfer[t].from}
    /\ \A c \in Clients : DOMAIN Written(c) \subseteq Ids
    /\ held \in [Locations -> 0 .. MaxHeld] /\ loose \subseteq Locations
    /\ ledger \in [Locations -> Int]
    /\ spoilt \subseteq Locations

(* However transfers, adjustments, manual writes and picking interleave,   *)
(* the movements account for the stock of every location that no unseen    *)
(* row was overwritten at, that has one row and was not edited by hand.    *)
MovementsExplainStock == \A l \in Locations \ spoilt :
    ledger[l] = IF At(rows, l) = {} THEN 0 ELSE rows[First(rows, l)].quantity

(* At these locations, as long as picking keeps to its lifecycle there,    *)
(* what is reserved is what picking tasks hold, and the stock covers it:   *)
(* no transfer takes what is reserved before it locks the row, and no      *)
(* decrease what was reserved when it read it.  (A row reserved after an   *)
(* adjustment read it is overwritten, which spoils the location: see       *)
(* DecreasesLeaveReserved.)                                                *)
ReservedIsCovered == \A l \in Locations \ (spoilt \cup loose) :
    IF At(rows, l) = {} THEN held[l] = 0
    ELSE LET row == rows[First(rows, l)]
         IN  row.reserved = held[l] /\ row.reserved <= row.quantity

(* What the comment at the check says: an adjustment that is no count is   *)
(* blocked if the stock would fall below what is reserved.  It is not, if  *)
(* the reservation comes between the read and the save.                    *)
Decreases(c) == tx[c].op = "adjust" /\ ~tx[c].counted /\ tx[c].change < 0
DecreasesLeaveReserved == [][\A c \in Clients : Decreases(c) /\ rows' # rows /\ tx'[c] = NoTx =>
    rows'[tx[c].id].quantity >= rows[tx[c].id].reserved]_vars

=============================================================================

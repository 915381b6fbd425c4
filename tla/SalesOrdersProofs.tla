-------------------------- MODULE SalesOrdersProofs --------------------------
(***************************************************************************)
(* However the requests about a sales order race, fail and get lost, for   *)
(* any number of them, of tasks and of articles: the order never records   *)
(* more than completed tasks shipped for it, and no task that fulfils a    *)
(* backorder leaves one.  Of requests that come one at a time and do not   *)
(* fail, lines written by hand among them, whenever none is under way: the *)
(* notes list what the completed tasks shipped, the order records what of  *)
(* it was ordered, and the backorders owe the rest of every article that   *)
(* no task made for another one shipped.                                   *)
(***************************************************************************)
EXTENDS MCSalesOrders, StockSumsProofs

-----------------------------------------------------------------------------
(* The inductive invariant.  A request is at one of the places After once  *)
(* its task is completed, and is the only one of that task; what a task    *)
(* shipped is recorded when the request leaves Recording, and what a       *)
(* request has read by then counts none of the tasks still to be recorded. *)

Recording == {"record", "write"}
After == Recording \cup {"note", "backorder", "settle", "reduce"}
Inserting == {"submit", "fulfill"}

Row == [status : Statuses, deleted : BOOLEAN, task : Tasks \cup {None}]
TaskRow == [status : {"none", "open", "in_progress"} \cup Terminal,
            items : Quantities, source : {None} \cup (Tasks \X Skus),
            byLine : Quantities, byHand : 0 .. MaxByHand]
Loaded == [expected : Quantities, picked : [Skus -> Nat], edits : Nat]

Exists(t) == task[t].status # "none"
Over(t) == task[t].status \in Terminal
KnownRow(row) == row \in Row /\ (row.task # None => Exists(row.task))
Backorder(b) == b \in Tasks \X Skus /\ Exists(b[1]) /\ task[b[1]].source = None

TaskInv(t) ==
    /\ ~Exists(t) => task[t].source = None /\ remaining[t] = Nothing
    /\ ~Over(t) => shipped[t] = Nothing
    /\ task[t].source # None => Backorder(task[t].source) /\ remaining[t] = Nothing

ReqInv(c) ==
    /\ At(c, "update") => KnownRow(req[c].row) /\ req[c].new \in Quantities
    /\ At(c, "cancel") => KnownRow(req[c].row) /\ (req[c].stops => req[c].row.task # None)
    /\ req[c].at \in Inserting =>
          req[c].task \in Tasks /\ ~Exists(req[c].task) /\ req[c].items \in Quantities
    /\ At(c, "fulfill") => Backorder(req[c].source)
    /\ req[c].at \in After =>
          /\ req[c].task \in Tasks /\ Over(req[c].task) /\ req[c].qty = shipped[req[c].task]
          /\ req[c].loaded \in Loaded /\ req[c].now \in Loaded
    /\ At(c, "reduce") => Source(c) # None /\ req[c].left \in 0 .. MaxQuantity

OneOfItsTask(c, d) ==
    /\ req[c].at \in Inserting /\ req[d].at \in Inserting => req[c].task # req[d].task
    /\ req[c].at \in After /\ req[d].at \in After => req[c].task # req[d].task

Unrecorded == {req[c].task : c \in {d \in Clients : req[d].at \in Recording}}
Recordable(s) == SumOver(Tasks \ Unrecorded, shipped, s)

CountInv ==
    \A s \in Skus :
        /\ picked[s] <= Recordable(s)
        /\ \A c \in Clients : At(c, "write") => req[c].now.picked[s] <= Recordable(s)

OrdersInv ==
    /\ TypeOK /\ KnownRow(order) /\ req = [c \in Clients |-> req[c]]
    /\ \A t \in Tasks : TaskInv(t)
    /\ \A b \in pending : Backorder(b)
    /\ \A c \in Clients : ReqInv(c)
    /\ \A c, d \in Clients : c # d => OneOfItsTask(c, d)
    /\ CountInv

(* Before the first request nothing is recorded and nothing was shipped.   *)
LEMMA InitOrdersInv == Init => OrdersInv
<1>. SUFFICES ASSUME Init PROVE OrdersInv
  OBVIOUS
<1>. USE OrdersAssumption DEF Init
<1>1. Nothing \in Quantities /\ Nothing \in [Skus -> Nat] /\ \A s \in Skus : Nothing[s] = 0
  BY DEF Nothing, Quantities
<1>2. TypeOK
  BY <1>1 DEF TypeOK, Statuses
<1>3. KnownRow(order)
  BY DEF KnownRow, Row, Statuses
<1>4. \A t \in Tasks : TaskInv(t) /\ ~Exists(t)
  BY DEF TaskInv, Exists
<1>5. \A c \in Clients : req[c].at = "idle"
  BY DEF Idle
<1>6. \A c \in Clients : ReqInv(c)
  BY <1>5 DEF ReqInv, At, Inserting, After, Recording
<1>7. \A c, d \in Clients : OneOfItsTask(c, d)
  BY <1>5 DEF OneOfItsTask, Inserting, After, Recording
<1>8. ASSUME NEW s \in Skus PROVE picked[s] <= Recordable(s)
  <2>1. picked[s] = 0
    BY <1>1
  <2>2. \A t \in Tasks \ Unrecorded : shipped[t][s] = 0
    BY <1>1
  <2>3. Recordable(s) = 0
    BY <2>2, SumOfZeros DEF Recordable
  <2>. QED
    BY <2>1, <2>3
<1>9. CountInv
  BY <1>5, <1>8 DEF CountInv, At
<1>. QED
  BY <1>2, <1>3, <1>4, <1>6, <1>7, <1>9 DEF OrdersInv

-----------------------------------------------------------------------------
(* What every step keeps.                                                  *)

Kept ==
    \A t \in Tasks :
        /\ Exists(t) => task'[t].status # "none" /\ task'[t].source = task[t].source
        /\ Over(t) => task'[t].status \in Terminal /\ shipped'[t] = shipped[t]

(* The steps of one request leave the others as they were, and one request *)
(* to a task, when they keep the tasks there are.                          *)
LEMMA OthersKeep ==
    ASSUME OrdersInv, NEW c \in Clients, NEW r, Goes(c, r), Kept,
           \A d \in Clients \ {c} : req[d].at \in Inserting => task'[req[d].task].status = "none",
           r.at \in Inserting =>
              \A d \in Clients \ {c} : req[d].at \in Inserting => r.task # req[d].task,
           r.at \in After =>
              \A d \in Clients \ {c} : req[d].at \in After => r.task # req[d].task,
           ReqInv(c)'
    PROVE  /\ req' = [d \in Clients |-> req'[d]]
           /\ req'[c] = r /\ \A d \in Clients \ {c} : req'[d] = req[d]
           /\ \A d \in Clients : ReqInv(d)'
           /\ \A d, e \in Clients : d # e => OneOfItsTask(d, e)'
<1>1. req' = [d \in Clients |-> IF d = c THEN r ELSE req[d]]
  BY DEF OrdersInv, Goes
<1>2. req'[c] = r /\ \A d \in Clients \ {c} : req'[d] = req[d]
  BY <1>1
<1>3. \A b : Backorder(b) => Backorder(b)'
  BY DEF Backorder, Kept, Exists
<1>4. \A row : KnownRow(row) => KnownRow(row)'
  BY DEF KnownRow, Row, Kept, Exists
<1>5. ASSUME NEW d \in Clients \ {c} PROVE ReqInv(d)'
  <2>1. req'[d] = req[d] /\ ReqInv(d)
    BY <1>2 DEF OrdersInv
  <2>2. req[d].at \in After => /\ Over(req[d].task)' /\ shipped'[req[d].task] = shipped[req[d].task]
                               /\ task'[req[d].task].source = task[req[d].task].source
    BY <2>1 DEF ReqInv, Kept, Over, Exists, Terminal
  <2>3. req[d].at \in Inserting => ~Exists(req[d].task)'
    BY <2>1 DEF Exists
  <2>4. At(d, "reduce") => req[d].at \in After
    BY DEF At, After
  <2>. QED
    BY <1>3, <1>4, <2>1, <2>2, <2>3, <2>4 DEF ReqInv, At, Source
<1>6. \A d, e \in Clients : d # e => OneOfItsTask(d, e)'
  BY <1>2 DEF OneOfItsTask, OrdersInv
<1>. QED
  BY <1>1, <1>2, <1>5, <1>6

(* Nothing a task shipped ceases to be recordable while no task that       *)
(* shipped something is taken up again.                                    *)
LEMMA RecordableGrows ==
    ASSUME TypeOK, TypeOK', NEW s \in Skus,
           \A t \in Tasks \ Unrecorded :
              shipped[t][s] # 0 => t \notin Unrecorded' /\ shipped'[t][s] = shipped[t][s]
    PROVE  Recordable(s) <= Recordable(s)'
<1>. DEFINE before == Tasks \ Unrecorded
            now    == Tasks \ Unrecorded'
<1>1. /\ \A t \in Tasks : shipped[t][s] \in Nat /\ shipped'[t][s] \in Nat
  BY DEF TypeOK, Quantities
<1>2. Units(before, shipped, s) \subseteq Units(now, shipped', s)
  <2>. SUFFICES ASSUME NEW t \in before, NEW u \in {t} \X (1 .. shipped[t][s])
                PROVE  \E v \in now : u \in {v} \X (1 .. shipped'[v][s])
    BY DEF Units
  <2>1. shipped[t][s] # 0
    BY <1>1
  <2>2. t \in now /\ shipped'[t][s] = shipped[t][s]
    BY <2>1
  <2>. QED
    BY <2>2
<1>3. IsFiniteSet(now)
  BY FS_Subset, OrdersAssumption
<1>4. IsFiniteSet(Units(now, shipped', s))
  BY <1>1, <1>3, UnitsFinite
<1>. QED
  BY <1>2, <1>4, FS_Subset DEF Recordable, SumOver

(* A request that moves on without recording.                              *)
LEMMA CountKeeps ==
    ASSUME OrdersInv, TypeOK', NEW c \in Clients, NEW r, Goes(c, r),
           shipped' = shipped, \A s \in Skus : picked'[s] <= picked[s],
           r.at \in Recording => req[c].at \in Recording /\ r.task = req[c].task,
           r.at = "write" => \A s \in Skus : r.now.picked[s] \in Nat /\ r.now.picked[s] <= Recordable(s)
    PROVE  CountInv'
<1>1. req' = [d \in Clients |-> IF d = c THEN r ELSE req[d]]
  BY DEF OrdersInv, Goes
<1>2. TypeOK /\ IsFiniteSet(Tasks)
  BY OrdersAssumption DEF OrdersInv
<1>3. Unrecorded' \subseteq Unrecorded
  BY <1>1 DEF Unrecorded
<1>4. ASSUME NEW s \in Skus
      PROVE  /\ picked'[s] <= Recordable(s)'
             /\ \A d \in Clients : At(d, "write")' => req'[d].now.picked[s] <= Recordable(s)'
  <2>1. Recordable(s) <= Recordable(s)'
    BY <1>2, <1>3, RecordableGrows
  <2>2. Recordable(s) \in Nat /\ Recordable(s)' \in Nat
    <3>1. \A t \in Tasks : shipped[t][s] \in Nat /\ shipped'[t][s] \in Nat
      BY <1>2 DEF TypeOK, Quantities
    <3>2. IsFiniteSet(Tasks \ Unrecorded) /\ IsFiniteSet(Tasks \ Unrecorded')
      BY <1>2, FS_Subset
    <3>. QED
      BY <3>1, <3>2, SumType DEF Recordable
  <2>3. picked[s] \in Nat /\ picked'[s] \in Nat /\ picked[s] <= Recordable(s) /\ picked'[s] <= picked[s]
    BY <1>2 DEF TypeOK, OrdersInv, CountInv
  <2>4. ASSUME NEW d \in Clients, At(d, "write")'
        PROVE  req'[d].now.picked[s] \in Nat /\ req'[d].now.picked[s] <= Recordable(s)
    <3>1. CASE d = c
      BY <1>1, <2>4, <3>1 DEF At
    <3>2. CASE d # c
      <4>1. req'[d] = req[d] /\ At(d, "write")
        BY <1>1, <2>4, <3>2 DEF At
      <4>2. req[d].now \in Loaded
        BY <4>1 DEF OrdersInv, ReqInv, At, After, Recording
      <4>3. req[d].now.picked[s] \in Nat
        BY <4>2 DEF Loaded
      <4>. QED
        BY <4>1, <4>3 DEF OrdersInv, CountInv
    <3>. QED
      BY <3>1, <3>2
  <2>. QED
    BY <2>1, <2>2, <2>3, <2>4
<1>. QED
  BY <1>4 DEF CountInv

(* A step of a request that only reads.                                    *)
LEMMA OnlyReads ==
    ASSUME OrdersInv, NEW c \in Clients, NEW r, Goes(c, r), reads,
           r.at \in Inserting =>
              \A d \in Clients \ {c} : req[d].at \in Inserting => r.task # req[d].task,
           r.at \in After => req[c].at \in After /\ r.task = req[c].task,
           r.at \in Recording => req[c].at \in Recording,
           r.at = "write" => \A s \in Skus : r.now.picked[s] \in Nat /\ r.now.picked[s] <= Recordable(s),
           ReqInv(c)'
    PROVE  OrdersInv'
<1>. USE DEF reads, orderVars
<1>1. Kept
  BY DEF Kept, Over, Exists
<1>2. \A d \in Clients \ {c} : req[d].at \in Inserting => task'[req[d].task].status = "none"
  BY DEF OrdersInv, ReqInv, Exists
<1>3. r.at \in After =>
          \A d \in Clients \ {c} : req[d].at \in After => r.task # req[d].task
  BY DEF OrdersInv, OneOfItsTask
<1>4. /\ req' = [d \in Clients |-> req'[d]]
      /\ \A d \in Clients : ReqInv(d)'
      /\ \A d, e \in Clients : d # e => OneOfItsTask(d, e)'
  BY <1>1, <1>2, <1>3, OthersKeep
<1>5. TypeOK'
  BY DEF OrdersInv, TypeOK
<1>6. CountInv'
  <2>1. \A s \in Skus : picked'[s] <= picked[s]
    BY DEF OrdersInv, TypeOK
  <2>2. r.at \in Recording => r.at \in After
    BY DEF After
  <2>3. shipped' = shipped
    OBVIOUS
  <2>. QED
    BY <1>5, <2>1, <2>2, <2>3, CountKeeps
<1>7. \A t \in Tasks : TaskInv(t)'
  BY DEF OrdersInv, TaskInv, Exists, Over, Backorder
<1>8. \A b \in pending' : Backorder(b)'
  BY DEF OrdersInv, Backorder, Exists
<1>9. KnownRow(order)'
  BY DEF OrdersInv, KnownRow, Exists
<1>. QED
  BY <1>4, <1>5, <1>6, <1>7, <1>8, <1>9 DEF OrdersInv

-----------------------------------------------------------------------------
(* The steps that only read.                                               *)

(* A client without a request owes nothing.                                *)
LEMMA IdleRequest ==
    ASSUME OrdersInv, NEW c \in Clients, Goes(c, Idle)
    PROVE  ReqInv(c)'
<1>1. req'[c] = Idle
  BY DEF OrdersInv, Goes
<1>. QED
  BY <1>1 DEF ReqInv, Idle, At, Inserting, After, Recording

(* A lost request leaves its task as recorded as it got.                   *)
LEMMA RequestLostStep ==
    ASSUME OrdersInv, NEW c \in Clients, RequestLost(c)
    PROVE  OrdersInv'
<1>1. Goes(c, Idle) /\ reads
  BY DEF RequestLost
<1>2. Idle.at \notin Inserting /\ Idle.at \notin After /\ Idle.at \notin Recording /\ Idle.at # "write"
  BY DEF Idle, Inserting, After, Recording
<1>. QED
  BY <1>1, <1>2, IdleRequest, OnlyReads

(* A request that begins has no task yet, or one nobody is about to insert. *)
LEMMA BeginStep ==
    ASSUME OrdersInv, NEW c \in Clients,
           OrderRequests(c) \/ \E b \in pending : BeginFulfill(c, b)
    PROVE  OrdersInv'
<1>1. CASE BeginUpdate(c)
  <2>1. PICK new \in Quantities : Goes(c, [at |-> "update", row |-> order, new |-> new])
    BY <1>1 DEF BeginUpdate
  <2>. DEFINE r == [at |-> "update", row |-> order, new |-> new]
  <2>2. req'[c] = r /\ order' = order /\ task' = task /\ reads
    BY <1>1, <2>1 DEF OrdersInv, Goes, BeginUpdate, reads, orderVars
  <2>3. ReqInv(c)'
    BY <2>2 DEF OrdersInv, ReqInv, At, Inserting, After, Recording, KnownRow, Exists
  <2>. QED
    BY <2>1, <2>2, <2>3, OnlyReads DEF Inserting, After, Recording
<1>2. CASE BeginDelete(c)
  <2>. DEFINE r == [at |-> "delete"]
  <2>1. Goes(c, r) /\ req'[c] = r /\ reads
    BY <1>2 DEF OrdersInv, Goes, BeginDelete
  <2>2. ReqInv(c)'
    BY <2>1 DEF ReqInv, At, Inserting, After, Recording
  <2>. QED
    BY <2>1, <2>2, OnlyReads DEF Inserting, After, Recording
<1>3. CASE BeginSubmit(c)
  <2>1. PICK t \in Unused, found \in AtMost(expected) :
           Goes(c, [at |-> "submit", task |-> t, items |-> found])
    BY <1>3 DEF BeginSubmit
  <2>. DEFINE r == [at |-> "submit", task |-> t, items |-> found]
  <2>2. req'[c] = r /\ task' = task /\ reads
    BY <1>3, <2>1 DEF OrdersInv, Goes, BeginSubmit, reads
  <2>3. ReqInv(c)'
    BY <2>1, <2>2 DEF ReqInv, At, Inserting, After, Recording, Unused, AtMost, Exists
  <2>4. \A d \in Clients \ {c} : req[d].at \in Inserting => r.task # req[d].task
    BY <2>1 DEF Unused, Inserting
  <2>. QED
    BY <2>1, <2>2, <2>3, <2>4, OnlyReads DEF Inserting, After, Recording
<1>4. CASE BeginCancel(c)
  <2>. DEFINE stops == order.task # None /\ task[order.task].status \notin Terminal
              r     == [at |-> "cancel", row |-> order, stops |-> stops]
  <2>0. Goes(c, r) /\ reads
    BY <1>4 DEF BeginCancel
  <2>1. Goes(c, r) /\ req'[c] = r /\ task' = task /\ reads
    <3>. HIDE DEF r
    <3>. QED
      BY <2>0 DEF OrdersInv, Goes, reads
  <2>2. req'[c].at = "cancel" /\ req'[c].row = order /\ (req'[c].stops => order.task # None)
    <3>1. stops => order.task # None
      OBVIOUS
    <3>. HIDE DEF stops
    <3>2. req'[c].at = "cancel" /\ req'[c].row = order /\ req'[c].stops = stops
      BY <2>1
    <3>. QED
      BY <3>1, <3>2
  <2>3. ReqInv(c)'
    BY <2>1, <2>2 DEF OrdersInv, ReqInv, At, Inserting, After, Recording, KnownRow, Exists
  <2>4. r.at = "cancel"
    OBVIOUS
  <2>. HIDE DEF r
  <2>. QED
    BY <2>1, <2>3, <2>4, OnlyReads DEF Inserting, After, Recording
<1>5. ASSUME NEW b \in pending, BeginFulfill(c, b) PROVE OrdersInv'
  <2>1. PICK t \in Unused, found \in 1 .. remaining[b[1]][b[2]] :
           Goes(c, [at |-> "fulfill", task |-> t, source |-> b, items |-> [Nothing EXCEPT ![b[2]] = found]])
    BY <1>5 DEF BeginFulfill
  <2>. DEFINE items == [Nothing EXCEPT ![b[2]] = found]
              r     == [at |-> "fulfill", task |-> t, source |-> b, items |-> items]
  <2>2. req'[c] = r /\ task' = task /\ reads /\ Goes(c, r)
    BY <1>5, <2>1 DEF OrdersInv, Goes, BeginFulfill, reads
  <2>3. Backorder(b)
    BY DEF OrdersInv
  <2>4. items \in Quantities
    <3>1. b[1] \in Tasks /\ b[2] \in Skus
      BY <2>3 DEF Backorder
    <3>2. remaining \in [Tasks -> [Skus -> 0 .. MaxQuantity]]
      BY DEF OrdersInv, TypeOK, Quantities
    <3>3. remaining[b[1]][b[2]] \in 0 .. MaxQuantity
      BY <3>1, <3>2
    <3>4. found \in 0 .. MaxQuantity
      BY <2>1, <3>3, OrdersAssumption
    <3>5. Nothing \in [Skus -> 0 .. MaxQuantity]
      BY OrdersAssumption DEF Nothing
    <3>. QED
      BY <3>1, <3>4, <3>5 DEF Quantities
  <2>. HIDE DEF items
  <2>5. ReqInv(c)'
    BY <2>1, <2>2, <2>3, <2>4 DEF ReqInv, At, Inserting, After, Recording, Unused, Exists, Backorder
  <2>6. \A d \in Clients \ {c} : req[d].at \in Inserting => r.task # req[d].task
    BY <2>1 DEF Unused, Inserting
  <2>. QED
    BY <2>2, <2>5, <2>6, OnlyReads DEF Inserting, After, Recording
<1>. QED
  BY <1>1, <1>2, <1>3, <1>4, <1>5 DEF OrderRequests

(* A request after its task that moves to another place.                   *)
LEMMA MovesOn ==
    ASSUME OrdersInv, NEW c \in Clients, req[c].at \in After, NEW place \in After,
           NEW r, Goes(c, r), task' = task, shipped' = shipped,
           r.at = place, r.task = req[c].task, r.qty = req[c].qty,
           r.loaded = req[c].loaded, r.now \in Loaded,
           place = "reduce" => Source(c) # None /\ r.left \in 0 .. MaxQuantity
    PROVE  ReqInv(c)'
<1>1. req'[c] = r
  BY DEF OrdersInv, Goes
<1>2. ReqInv(c)
  BY DEF OrdersInv
<1>. QED
  BY <1>1, <1>2 DEF ReqInv, At, Source, Over, After, Recording, Inserting

(* The lines read before they are written count no task that is still to   *)
(* be recorded.                                                            *)
LEMMA ReadPickedQtyStep ==
    ASSUME OrdersInv, NEW c \in Clients, ReadPickedQty(c)
    PROVE  OrdersInv'
<1>. DEFINE r == [req[c] EXCEPT !.at = "write", !.now = Items]
<1>1. At(c, "record") /\ Goes(c, r) /\ reads
  BY DEF ReadPickedQty
<1>2. req[c].at \in After /\ req[c].at \in Recording
  BY <1>1 DEF At, After, Recording
<1>. USE DEF reads
<1>3. r.at = "write" /\ r.task = req[c].task /\ r.qty = req[c].qty /\ r.loaded = req[c].loaded /\ r.now = Items
  OBVIOUS
<1>4. Items \in Loaded /\ \A s \in Skus : Items.picked[s] \in Nat /\ Items.picked[s] <= Recordable(s)
  BY DEF OrdersInv, TypeOK, Items, Loaded, CountInv
<1>. HIDE DEF r
<1>5. ReqInv(c)'
  BY <1>1, <1>2, <1>3, <1>4, MovesOn DEF After, Recording
<1>. QED
  BY <1>1, <1>2, <1>3, <1>4, <1>5, OnlyReads DEF Inserting, After, Recording

(* Reading the backorder changes no row.                                   *)
LEMMA ReadBackorderStep ==
    ASSUME OrdersInv, NEW c \in Clients, ReadBackorder(c)
    PROVE  OrdersInv'
<1>1. At(c, "settle") /\ reads
  BY DEF ReadBackorder
<1>2. req[c].at \in After /\ req[c].now \in Loaded /\ req[c].task \in Tasks
  BY <1>1 DEF At, After, Recording, OrdersInv, ReqInv
<1>3. CASE Source(c) = None
  <2>1. Goes(c, Idle)
    BY <1>3 DEF ReadBackorder
  <2>2. Idle.at \notin Inserting /\ Idle.at \notin After /\ Idle.at \notin Recording /\ Idle.at # "write"
    BY DEF Idle, Inserting, After, Recording
  <2>. QED
    BY <1>1, <2>1, <2>2, IdleRequest, OnlyReads
<1>4. CASE Source(c) # None
  <2>. DEFINE left == remaining[Source(c)[1]][Source(c)[2]]
              r    == [req[c] EXCEPT !.at = "reduce", !.left = left]
  <2>1. Goes(c, r)
    BY <1>4 DEF ReadBackorder
  <2>2. left \in 0 .. MaxQuantity
    BY <1>2, <1>4 DEF OrdersInv, TaskInv, Source, Backorder, TypeOK, Quantities
  <2>. HIDE DEF left
  <2>3. r.at = "reduce" /\ r.task = req[c].task /\ r.qty = req[c].qty /\ r.loaded = req[c].loaded
        /\ r.now = req[c].now
    OBVIOUS
  <2>4. r.left \in 0 .. MaxQuantity
    BY <2>2
  <2>. HIDE DEF r
  <2>5. ReqInv(c)'
    BY <1>1, <1>2, <1>4, <2>1, <2>3, <2>4, MovesOn DEF After, reads
  <2>. QED
    BY <1>1, <1>2, <2>1, <2>3, <2>5, OnlyReads DEF Inserting, After, Recording
<1>. QED
  BY <1>3, <1>4

(* A statement that fails is logged and the request goes on without it.    *)
LEMMA StepFailsStep ==
    ASSUME OrdersInv, NEW c \in Clients, StepFails(c)
    PROVE  OrdersInv'
<1>. DEFINE place == NextPlace[req[c].at]
            r     == [req[c] EXCEPT !.at = place]
<1>1. req[c].at \in {"record", "write", "note", "backorder"} /\ Goes(c, r) /\ reads
  BY DEF StepFails, Then, NextPlace
<1>2. req[c].at \in After /\ place \in {"note", "backorder", "settle"}
  BY <1>1 DEF After, Recording, NextPlace
<1>3. req[c].now \in Loaded
  BY <1>2 DEF OrdersInv, ReqInv
<1>. HIDE DEF place
<1>4. r.at = place /\ r.task = req[c].task /\ r.qty = req[c].qty /\ r.loaded = req[c].loaded
      /\ r.now = req[c].now
  OBVIOUS
<1>. HIDE DEF r
<1>5. ReqInv(c)'
  BY <1>1, <1>2, <1>3, <1>4, MovesOn DEF After, reads
<1>. QED
  BY <1>1, <1>2, <1>4, <1>5, OnlyReads DEF Inserting, After, Recording

-----------------------------------------------------------------------------
(* The steps that write.                                                   *)

(* A commit that ends its request and neither ships nor records.           *)
LEMMA EndsRequest ==
    ASSUME OrdersInv, NEW c \in Clients, Goes(c, Idle), TypeOK', KnownRow(order)', Kept,
           shipped' = shipped, \A s \in Skus : picked'[s] <= picked[s],
           \A d \in Clients \ {c} : req[d].at \in Inserting => task'[req[d].task].status = "none",
           \A t \in Tasks : TaskInv(t)', \A b \in pending' : Backorder(b)'
    PROVE  OrdersInv'
<1>1. ReqInv(c)'
  BY IdleRequest
<1>2. Idle.at \notin Inserting /\ Idle.at \notin After /\ Idle.at \notin Recording /\ Idle.at # "write"
  BY DEF Idle, Inserting, After, Recording
<1>3. /\ req' = [d \in Clients |-> req'[d]]
      /\ \A d \in Clients : ReqInv(d)'
      /\ \A d, e \in Clients : d # e => OneOfItsTask(d, e)'
  BY <1>1, <1>2, OthersKeep
<1>4. CountInv'
  BY <1>2, CountKeeps
<1>. QED
  BY <1>3, <1>4 DEF OrdersInv

(* An update that replaces the lines starts them with nothing picked.      *)
LEMMA CommitUpdateStep ==
    ASSUME OrdersInv, NEW c \in Clients, CommitUpdate(c)
    PROVE  OrdersInv'
<1>1. /\ At(c, "update") /\ Goes(c, Idle) /\ order' = req[c].row
      /\ task' = task /\ shipped' = shipped /\ notes' = notes
      /\ remaining' = remaining /\ pending' = pending
      /\ \/ expected' = expected /\ picked' = picked /\ edits' = edits
         \/ edits < MaxEdits /\ expected' = req[c].new /\ picked' = Nothing /\ edits' = edits + 1
  BY DEF CommitUpdate
<1>2. KnownRow(req[c].row) /\ req[c].new \in Quantities
  BY <1>1 DEF OrdersInv, ReqInv
<1>3. TypeOK /\ KnownRow(order)'
  BY <1>1, <1>2 DEF OrdersInv, KnownRow, Exists
<1>4. TypeOK'
  <2>1. Nothing \in [Skus -> Nat]
    BY DEF Nothing
  <2>2. edits' \in 0 .. MaxEdits
    BY <1>1, <1>3, OrdersAssumption DEF TypeOK
  <2>3. expected' \in Quantities /\ picked' \in [Skus -> Nat]
    BY <1>1, <1>2, <1>3, <2>1 DEF TypeOK
  <2>4. order' \in [status : Statuses, deleted : BOOLEAN, task : Tasks \cup {None}]
    BY <1>1, <1>2 DEF KnownRow, Row
  <2>. QED
    BY <1>1, <1>3, <2>2, <2>3, <2>4 DEF TypeOK
<1>5. \A s \in Skus : picked'[s] <= picked[s]
  BY <1>1, <1>3 DEF TypeOK, Nothing
<1>6. Kept
  BY <1>1 DEF Kept, Exists, Over
<1>7. \A d \in Clients \ {c} : req[d].at \in Inserting => task'[req[d].task].status = "none"
  BY <1>1 DEF OrdersInv, ReqInv, Exists
<1>8. \A t \in Tasks : TaskInv(t)'
  BY <1>1 DEF OrdersInv, TaskInv, Exists, Over, Backorder
<1>9. \A b \in pending' : Backorder(b)'
  BY <1>1 DEF OrdersInv, Backorder, Exists
<1>. QED
  BY <1>1, <1>3, <1>4, <1>5, <1>6, <1>7, <1>8, <1>9, EndsRequest

(* A deletion only marks the order.                                        *)
LEMMA CommitDeleteStep ==
    ASSUME OrdersInv, NEW c \in Clients, CommitDelete(c)
    PROVE  OrdersInv'
<1>1. /\ Goes(c, Idle) /\ order' = [order EXCEPT !.deleted = TRUE]
      /\ task' = task /\ shipped' = shipped /\ notes' = notes
      /\ remaining' = remaining /\ pending' = pending
      /\ expected' = expected /\ picked' = picked /\ edits' = edits
  BY DEF CommitDelete
<1>2. TypeOK' /\ KnownRow(order)'
  BY <1>1 DEF OrdersInv, TypeOK, KnownRow, Row, Exists
<1>3. \A s \in Skus : picked'[s] <= picked[s]
  BY <1>1 DEF OrdersInv, TypeOK
<1>4. Kept
  BY <1>1 DEF Kept, Exists, Over
<1>5. \A d \in Clients \ {c} : req[d].at \in Inserting => task'[req[d].task].status = "none"
  BY <1>1 DEF OrdersInv, ReqInv, Exists
<1>6. \A t \in Tasks : TaskInv(t)'
  BY <1>1 DEF OrdersInv, TaskInv, Exists, Over, Backorder
<1>7. \A b \in pending' : Backorder(b)'
  BY <1>1 DEF OrdersInv, Backorder, Exists
<1>. QED
  BY <1>1, <1>2, <1>3, <1>4, <1>5, <1>6, <1>7, EndsRequest

(* A task is inserted where there is none, by the only request that has    *)
(* its id.                                                                 *)
LEMMA InsertStep ==
    ASSUME OrdersInv, NEW c \in Clients, req[c].at \in Inserting, Goes(c, Idle),
           NEW source, source = None \/ Backorder(source),
           Insert(req[c].task, req[c].items, source),
           order' \in Row, order'.task \in {order.task, req[c].task},
           UNCHANGED <<expected, picked, edits, shipped, notes, remaining, pending>>
    PROVE  OrdersInv'
<1>. DEFINE t   == req[c].task
            row == [status |-> "open", items |-> req[c].items, source |-> source,
                    byLine |-> Nothing, byHand |-> 0]
<1>1. /\ TypeOK /\ t \in Tasks /\ ~Exists(t) /\ req[c].items \in Quantities
      /\ Nothing \in Quantities /\ 0 \in 0 .. MaxByHand
  BY OrdersAssumption DEF OrdersInv, ReqInv, Nothing, Quantities
<1>2. task' = [task EXCEPT ![t] = row]
  BY DEF Insert
<1>3. source \in {None} \cup (Tasks \X Skus)
  BY DEF Backorder
<1>4. TypeOK'
  BY <1>1, <1>2, <1>3 DEF TypeOK, Row
<1>5. \A u \in Tasks : task'[u] = IF u = t THEN row ELSE task[u]
  BY <1>1, <1>2 DEF TypeOK
<1>6. \A u \in Tasks : Exists(u) => u # t
  BY <1>1
<1>7. Kept
  BY <1>1, <1>5, <1>6 DEF Kept, Exists, Over, Terminal
<1>8. KnownRow(order)'
  BY <1>5, <1>6 DEF OrdersInv, KnownRow, Exists, Row
<1>9. \A b : Backorder(b) => Backorder(b)'
  BY <1>7 DEF Backorder, Kept, Exists
<1>10. \A u \in Tasks : TaskInv(u)'
  <2>1. ASSUME NEW u \in Tasks, u = t PROVE TaskInv(u)'
    <3>1. remaining'[u] = Nothing /\ shipped'[u] = Nothing
      BY <1>1, <2>1 DEF OrdersInv, TaskInv, Exists, Over, Terminal
    <3>2. task'[u].status = "open" /\ task'[u].source = source
      BY <1>5, <2>1
    <3>. QED
      BY <1>9, <3>1, <3>2 DEF TaskInv, Exists
  <2>2. ASSUME NEW u \in Tasks, u # t PROVE TaskInv(u)'
    <3>1. TaskInv(u) /\ task'[u] = task[u]
      BY <1>5, <2>2 DEF OrdersInv
    <3>. QED
      BY <1>9, <3>1 DEF TaskInv, Exists, Over
  <2>. QED
    BY <2>1, <2>2
<1>11. \A b \in pending' : Backorder(b)'
  BY <1>9 DEF OrdersInv
<1>12. \A d \in Clients \ {c} : req[d].at \in Inserting => task'[req[d].task].status = "none"
  BY <1>5 DEF OrdersInv, ReqInv, OneOfItsTask, Exists
<1>13. \A s \in Skus : picked'[s] <= picked[s]
  BY <1>1 DEF TypeOK
<1>. QED
  BY <1>4, <1>7, <1>8, <1>10, <1>11, <1>12, <1>13, EndsRequest

(* Submitting inserts a task for the order's own items.                    *)
LEMMA CommitSubmitStep ==
    ASSUME OrdersInv, NEW c \in Clients, CommitSubmit(c)
    PROVE  OrdersInv'
<1>1. /\ At(c, "submit") /\ Insert(req[c].task, req[c].items, None) /\ Goes(c, Idle)
      /\ order' = [order EXCEPT !.status = "submitted", !.task = req[c].task]
      /\ UNCHANGED <<expected, picked, edits, shipped, notes, remaining, pending>>
  BY DEF CommitSubmit
<1>2. req[c].at \in Inserting /\ req[c].task \in Tasks
  BY <1>1 DEF At, Inserting, OrdersInv, ReqInv
<1>3. order' \in Row /\ order'.task = req[c].task
  BY <1>1, <1>2 DEF OrdersInv, KnownRow, Row, Statuses
<1>. QED
  BY <1>1, <1>2, <1>3, InsertStep

(* Fulfilling a backorder inserts a task with the backorder as source.     *)
LEMMA CommitFulfillStep ==
    ASSUME OrdersInv, NEW c \in Clients, CommitFulfill(c)
    PROVE  OrdersInv'
<1>1. /\ At(c, "fulfill") /\ Insert(req[c].task, req[c].items, req[c].source) /\ Goes(c, Idle)
      /\ order' = order
      /\ UNCHANGED <<expected, picked, edits, shipped, notes, remaining, pending>>
  BY DEF CommitFulfill, orderVars
<1>2. req[c].at \in Inserting /\ Backorder(req[c].source)
  BY <1>1 DEF At, Inserting, OrdersInv, ReqInv
<1>3. order' \in Row
  BY <1>1 DEF OrdersInv, KnownRow
<1>. QED
  BY <1>1, <1>2, <1>3, InsertStep

(* A task there is changes its status or its lines: nothing else moves.    *)
LEMMA RowKeeps ==
    ASSUME OrdersInv, NEW t \in Tasks, Exists(t), NEW new \in TaskRow,
           new.status # "none", Over(t) => new.status \in Terminal, new.source = task[t].source,
           task' = [task EXCEPT ![t] = new],
           UNCHANGED <<shipped, remaining, pending>>
    PROVE  /\ task' \in [Tasks -> TaskRow]
           /\ Kept /\ \A u \in Tasks : TaskInv(u)'
           /\ \A b \in pending' : Backorder(b)'
           /\ \A d \in Clients : req[d].at \in Inserting => task'[req[d].task].status = "none"
           /\ \A row : KnownRow(row) => KnownRow(row)'
<1>1. TypeOK
  BY DEF OrdersInv
<1>2. task' \in [Tasks -> TaskRow]
  BY <1>1 DEF TypeOK, TaskRow
<1>3. /\ task'[t].status = new.status /\ task'[t].source = task[t].source
      /\ \A u \in Tasks \ {t} : task'[u] = task[u]
  BY <1>1 DEF TypeOK
<1>4. Kept
  BY <1>3 DEF Kept, Exists, Over, Terminal
<1>5. \A b : Backorder(b) => Backorder(b)'
  BY <1>4 DEF Backorder, Kept, Exists
<1>6. ASSUME NEW u \in Tasks PROVE TaskInv(u)'
  <2>1. TaskInv(u) /\ task'[u].source = task[u].source
    BY <1>3 DEF OrdersInv
  <2>2. Exists(u) => Exists(u)'
    BY <1>4 DEF Kept, Exists
  <2>3. Over(u) => Over(u)'
    BY <1>4 DEF Kept, Over
  <2>. QED
    BY <1>5, <2>1, <2>2, <2>3 DEF TaskInv
<1>7. \A b \in pending' : Backorder(b)'
  BY <1>5 DEF OrdersInv
<1>8. \A d \in Clients : req[d].at \in Inserting => task'[req[d].task].status = "none"
  BY <1>3 DEF OrdersInv, ReqInv, Exists
<1>9. \A row : KnownRow(row) => KnownRow(row)'
  BY <1>4 DEF KnownRow, Row, Kept, Exists
<1>. QED
  BY <1>2, <1>4, <1>6, <1>7, <1>8, <1>9

(* Setting the status leaves a row of picking_tasks.                       *)
LEMMA StatusRow ==
    ASSUME TypeOK, NEW t \in Tasks, NEW to \in {"in_progress"} \cup Terminal,
           task' = [task EXCEPT ![t].status = to]
    PROVE  \E row \in TaskRow :
              /\ row.status = to /\ row.source = task[t].source
              /\ task' = [task EXCEPT ![t] = row]
<1>. DEFINE row == [task[t] EXCEPT !.status = to]
<1>1. row \in TaskRow /\ row.status = to /\ row.source = task[t].source
  BY DEF TypeOK, TaskRow
<1>2. task' = [task EXCEPT ![t] = row]
  OBVIOUS
<1>. QED
  BY <1>1, <1>2

(* So does writing the lines.                                              *)
LEMMA LinesRow ==
    ASSUME TypeOK, NEW t \in Tasks, NEW items \in Quantities, NEW byLine \in Quantities,
           Rewrites(t, items, byLine)
    PROVE  \E row \in TaskRow :
              /\ row.status = task[t].status /\ row.source = task[t].source
              /\ task' = [task EXCEPT ![t] = row]
<1>. DEFINE row == [status |-> task[t].status, items |-> items, source |-> task[t].source,
                    byLine |-> byLine, byHand |-> task[t].byHand + 1]
<1>1. task[t].byHand + 1 \in 0 .. MaxByHand
  BY OrdersAssumption DEF Rewrites, TypeOK
<1>2. row \in TaskRow /\ row.status = task[t].status /\ row.source = task[t].source
  BY <1>1 DEF TypeOK, TaskRow
<1>3. task' = [task EXCEPT ![t] = row]
  BY DEF Rewrites
<1>. QED
  BY <1>2, <1>3

(* What anyone may do to a task besides completing it.                     *)
LEMMA TaskRequestsAre ==
    ASSUME TypeOK, NEW t \in Tasks, TaskRequests(t)
    PROVE  /\ Exists(t)
           /\ UNCHANGED <<orderVars, shipped, notes, remaining, pending, req>>
           /\ \E row \in TaskRow :
                /\ row.status # "none" /\ row.source = task[t].source
                /\ Over(t) => row.status \in Terminal
                /\ task' = [task EXCEPT ![t] = row]
<1>1. ASSUME NEW from, NEW to \in {"in_progress"} \cup Terminal,
             from \subseteq {"open", "in_progress"}, Moves(t, from, to)
      PROVE  /\ Exists(t) /\ ~Over(t)
             /\ UNCHANGED <<orderVars, shipped, notes, remaining, pending, req>>
             /\ to # "none" /\ task' = [task EXCEPT ![t].status = to]
  BY <1>1 DEF Moves, Exists, Over, Terminal
<1>2. CASE StartPickingTask(t) \/ CancelPickingTask(t) \/ AbandonStaleTask(t) \/ MarkPickingTask(t)
  <2>1. PICK from \in SUBSET {"open", "in_progress"}, to \in {"in_progress"} \cup Terminal :
           Moves(t, from, to)
    BY <1>2 DEF StartPickingTask, CancelPickingTask, AbandonStaleTask, MarkPickingTask, Terminal
  <2>. QED
    BY <1>1, <2>1, StatusRow
<1>3. ASSUME NEW items \in Quantities, NEW byLine \in Quantities, Rewrites(t, items, byLine)
      PROVE  /\ Exists(t)
             /\ UNCHANGED <<orderVars, shipped, notes, remaining, pending, req>>
             /\ \E row \in TaskRow :
                  /\ row.status # "none" /\ row.source = task[t].source
                  /\ Over(t) => row.status \in Terminal
                  /\ task' = [task EXCEPT ![t] = row]
  <2>1. /\ Exists(t)
        /\ UNCHANGED <<orderVars, shipped, notes, remaining, pending, req>>
    BY <1>3 DEF Rewrites, Exists
  <2>. QED
    BY <1>3, <2>1, LinesRow DEF Exists, Over
<1>4. ASSUME NEW new \in Quantities, UpdatePickingTask(t, new)
      PROVE  \E items \in Quantities, byLine \in Quantities : Rewrites(t, items, byLine)
  <2>1. task[t].byLine \in Quantities
    BY DEF TypeOK
  <2>. QED
    BY <1>4, <2>1 DEF UpdatePickingTask
<1>5. ASSUME NEW s \in Skus, NEW n \in 0 .. MaxQuantity, CompletePickingLine(t, s, n)
      PROVE  \E items \in Quantities, byLine \in Quantities : Rewrites(t, items, byLine)
  <2>1. task[t].items \in Quantities /\ task[t].byLine \in Quantities
    BY DEF TypeOK
  <2>2. task[t].byLine[s] + n \in 0 .. MaxQuantity
    BY <1>5, <2>1, OrdersAssumption DEF CompletePickingLine, Quantities
  <2>3. /\ [task[t].items EXCEPT ![s] = n] \in Quantities
        /\ [task[t].byLine EXCEPT ![s] = @ + n] \in Quantities
    BY <2>1, <2>2 DEF Quantities
  <2>. QED
    BY <1>5, <2>3 DEF CompletePickingLine
<1>. QED
  BY <1>2, <1>3, <1>4, <1>5 DEF TaskRequests

(* Cancelling ends the task, if it reads one, and touches no quantity.     *)
LEMMA CommitCancelStep ==
    ASSUME OrdersInv, NEW c \in Clients, CommitCancel(c)
    PROVE  OrdersInv'
<1>1. /\ At(c, "cancel") /\ Goes(c, Idle)
      /\ task' = IF req[c].stops THEN [task EXCEPT ![req[c].row.task].status = "cancelled"] ELSE task
      /\ order' = [order EXCEPT !.status = "cancelled"]
      /\ expected' = expected /\ picked' = picked /\ edits' = edits
      /\ shipped' = shipped /\ notes' = notes /\ remaining' = remaining /\ pending' = pending
  BY DEF CommitCancel
<1>2. /\ task' \in [Tasks -> TaskRow]
      /\ Kept /\ \A u \in Tasks : TaskInv(u)'
      /\ \A b \in pending' : Backorder(b)'
      /\ \A d \in Clients : req[d].at \in Inserting => task'[req[d].task].status = "none"
      /\ \A row : KnownRow(row) => KnownRow(row)'
  <2>1. CASE req[c].stops
    <3>1. req[c].row.task \in Tasks /\ Exists(req[c].row.task)
      BY <1>1, <2>1 DEF OrdersInv, ReqInv, KnownRow, Row
    <3>2. task' = [task EXCEPT ![req[c].row.task].status = "cancelled"]
      BY <1>1, <2>1
    <3>3. PICK new \in TaskRow :
             /\ new.status = "cancelled" /\ new.source = task[req[c].row.task].source
             /\ task' = [task EXCEPT ![req[c].row.task] = new]
      BY <3>1, <3>2, StatusRow DEF OrdersInv, Terminal
    <3>. QED
      BY <1>1, <3>1, <3>3, RowKeeps DEF Terminal
  <2>2. CASE ~req[c].stops
    <3>1. task' = task
      BY <1>1, <2>2
    <3>2. Kept
      BY <1>1, <3>1 DEF Kept, Exists, Over
    <3>3. \A u \in Tasks : TaskInv(u)'
      BY <1>1, <3>1 DEF OrdersInv, TaskInv, Exists, Over, Backorder
    <3>4. \A b \in pending' : Backorder(b)'
      BY <1>1, <3>1 DEF OrdersInv, Backorder, Exists
    <3>5. \A d \in Clients : req[d].at \in Inserting => task'[req[d].task].status = "none"
      BY <3>1 DEF OrdersInv, ReqInv, Exists
    <3>6. \A row : KnownRow(row) => KnownRow(row)'
      BY <3>1 DEF KnownRow, Exists
    <3>. QED
      BY <3>1, <3>2, <3>3, <3>4, <3>5, <3>6 DEF OrdersInv, TypeOK, TaskRow
  <2>. QED
    BY <2>1, <2>2
<1>3. order' \in Row /\ order'.task = order.task
  BY <1>1 DEF OrdersInv, KnownRow, Row, Statuses
<1>4. KnownRow(order)'
  BY <1>2, <1>3 DEF OrdersInv, KnownRow
<1>5. TypeOK'
  BY <1>1, <1>2, <1>3 DEF OrdersInv, TypeOK, Row, TaskRow
<1>6. \A s \in Skus : picked'[s] <= picked[s]
  BY <1>1 DEF OrdersInv, TypeOK
<1>. QED
  BY <1>1, <1>2, <1>4, <1>5, <1>6, EndsRequest

(* A task that starts, is over without being completed, or whose lines are *)
(* written by hand.                                                        *)
LEMMA TaskRequestsStep ==
    ASSUME OrdersInv, NEW t \in Tasks, TaskRequests(t)
    PROVE  OrdersInv'
<1>0. TypeOK
  BY DEF OrdersInv
<1>1. PICK new \in TaskRow :
         /\ new.status # "none" /\ new.source = task[t].source
         /\ Over(t) => new.status \in Terminal
         /\ task' = [task EXCEPT ![t] = new]
  BY <1>0, TaskRequestsAre
<1>2. Exists(t) /\ UNCHANGED <<orderVars, shipped, notes, remaining, pending, req>>
  BY <1>0, TaskRequestsAre
<1>3. /\ order' = order /\ expected' = expected /\ picked' = picked /\ edits' = edits
      /\ shipped' = shipped /\ notes' = notes /\ remaining' = remaining /\ pending' = pending
      /\ req' = req
  BY <1>2 DEF orderVars
<1>4. /\ task' \in [Tasks -> TaskRow]
      /\ Kept /\ \A u \in Tasks : TaskInv(u)'
      /\ \A b \in pending' : Backorder(b)'
      /\ \A d \in Clients : req[d].at \in Inserting => task'[req[d].task].status = "none"
      /\ \A row : KnownRow(row) => KnownRow(row)'
  BY <1>1, <1>2, <1>3, RowKeeps
<1>5. TypeOK'
  BY <1>3, <1>4 DEF OrdersInv, TypeOK, TaskRow
<1>6. ASSUME NEW c \in Clients PROVE ReqInv(c)' /\ \A d \in Clients : c # d => OneOfItsTask(c, d)'
  <2>1. Goes(c, req[c])
    BY <1>3 DEF Goes, OrdersInv
  <2>2. \A b : Backorder(b) => Backorder(b)'
    BY <1>4 DEF Backorder, Kept, Exists
  <2>3. req[c].at \in After => /\ Over(req[c].task)' /\ shipped'[req[c].task] = shipped[req[c].task]
                               /\ task'[req[c].task].source = task[req[c].task].source
    BY <1>3, <1>4 DEF OrdersInv, ReqInv, Kept, Over, Exists, Terminal
  <2>4. req[c].at \in Inserting => ~Exists(req[c].task)'
    BY <1>3, <1>4 DEF Exists
  <2>5. At(c, "reduce") => req[c].at \in After
    BY DEF At, After
  <2>6. ReqInv(c)'
    BY <1>3, <1>4, <2>2, <2>3, <2>4, <2>5 DEF OrdersInv, ReqInv, At, Source
  <2>. QED
    BY <1>3, <2>6 DEF OrdersInv, OneOfItsTask
<1>7. CountInv'
  <2>1. Unrecorded' = Unrecorded
    BY <1>3 DEF Unrecorded
  <2>2. \A s \in Skus : Recordable(s)' = Recordable(s)
    BY <1>3, <2>1 DEF Recordable
  <2>. QED
    BY <1>3, <2>2 DEF OrdersInv, CountInv, At
<1>8. KnownRow(order)'
  BY <1>3, <1>4 DEF OrdersInv
<1>9. req' = [c \in Clients |-> req'[c]]
  BY <1>3 DEF OrdersInv
<1>. QED
  BY <1>4, <1>5, <1>6, <1>7, <1>8, <1>9 DEF OrdersInv

(* What the task of a completed picking shipped counts only once recorded. *)
LEMMA CompleteStep ==
    ASSUME OrdersInv, NEW c \in Clients, NEW t \in Tasks, CompletePickingTask(c, t)
    PROVE  OrdersInv'
<1>1. PICK p : p = task[t].items
  OBVIOUS
<1>. DEFINE r == [at |-> "record", task |-> t, qty |-> p, status |-> "",
                  loaded |-> Items, now |-> Items, left |-> 0]
<1>0. shipped' = [shipped EXCEPT ![t] = p] /\ Goes(c, r)
  BY <1>1 DEF CompletePickingTask
<1>. HIDE DEF r
<1>2. /\ At(c, "idle") /\ task[t].status = "in_progress"
      /\ task' = [task EXCEPT ![t].status = "completed"]
      /\ order' = order /\ expected' = expected /\ picked' = picked /\ edits' = edits
      /\ notes' = notes /\ remaining' = remaining /\ pending' = pending
  BY DEF CompletePickingTask, orderVars
<1>3. TypeOK /\ p \in Quantities
  BY <1>1 DEF OrdersInv, TypeOK
<1>4. Exists(t) /\ ~Over(t) /\ shipped[t] = Nothing
  <2>1. Exists(t) /\ ~Over(t)
    BY <1>2 DEF Exists, Over, Terminal
  <2>. QED
    BY <2>1 DEF OrdersInv, TaskInv
<1>5. /\ \A u \in Tasks \ {t} : task'[u] = task[u] /\ shipped'[u] = shipped[u]
      /\ task'[t].status = "completed" /\ task'[t].source = task[t].source /\ shipped'[t] = p
  BY <1>0, <1>2, <1>3 DEF TypeOK
<1>6. TypeOK'
  BY <1>0, <1>2, <1>3 DEF TypeOK, Terminal
<1>7. Kept
  BY <1>4, <1>5 DEF Kept, Exists, Over, Terminal
<1>8. \A b : Backorder(b) => Backorder(b)'
  BY <1>7 DEF Backorder, Kept, Exists
<1>9. ASSUME NEW u \in Tasks PROVE TaskInv(u)'
  <2>1. TaskInv(u) /\ task'[u].source = task[u].source
    BY <1>5 DEF OrdersInv
  <2>2. Exists(u) => Exists(u)'
    BY <1>7 DEF Kept, Exists
  <2>3. ~Over(u)' => ~Over(u) /\ shipped'[u] = shipped[u]
    BY <1>5 DEF Over, Terminal
  <2>. QED
    BY <1>2, <1>8, <2>1, <2>2, <2>3 DEF TaskInv
<1>10. \A b \in pending' : Backorder(b)'
  BY <1>2, <1>8 DEF OrdersInv
<1>11. KnownRow(order)'
  BY <1>2, <1>7 DEF OrdersInv, KnownRow, Row, Kept, Exists
<1>12. \A d \in Clients \ {c} : req[d].at \in Inserting => task'[req[d].task].status = "none"
  BY <1>4, <1>5 DEF OrdersInv, ReqInv, Exists
<1>13. Items \in Loaded
  BY <1>3 DEF TypeOK, Items, Loaded
<1>14. /\ req'[c] = r /\ r.at = "record" /\ r.task = t /\ r.qty = p
       /\ r.loaded = Items /\ r.now = Items
  BY <1>0 DEF OrdersInv, Goes, r
<1>15. ReqInv(c)'
  BY <1>5, <1>13, <1>14 DEF ReqInv, At, Inserting, After, Recording, Over, Terminal
<1>16. \A d \in Clients \ {c} : req[d].at \in After => r.task # req[d].task
  BY <1>4, <1>14 DEF OrdersInv, ReqInv
<1>17. r.at \notin Inserting
  BY <1>14 DEF Inserting
<1>18. /\ req' = [d \in Clients |-> req'[d]]
       /\ req'[c] = r /\ \A d \in Clients \ {c} : req'[d] = req[d]
       /\ \A d \in Clients : ReqInv(d)'
       /\ \A d, e \in Clients : d # e => OneOfItsTask(d, e)'
  BY <1>0, <1>7, <1>12, <1>15, <1>16, <1>17, OthersKeep
<1>19. CountInv'
  <2>1. Unrecorded' \subseteq Unrecorded \cup {t}
    <3>1. \A d \in Clients : req'[d] = req[d] \/ req'[d].task = t
      BY <1>14, <1>18
    <3>. QED
      BY <3>1 DEF Unrecorded
  <2>2. ASSUME NEW s \in Skus PROVE Recordable(s) <= Recordable(s)'
    <3>1. \A u \in Tasks \ Unrecorded :
             shipped[u][s] # 0 => u \notin Unrecorded' /\ shipped'[u][s] = shipped[u][s]
      BY <1>4, <1>5, <2>1 DEF Nothing
    <3>. QED
      BY <1>3, <1>6, <3>1, RecordableGrows
  <2>3. ASSUME NEW s \in Skus PROVE Recordable(s) \in Nat /\ Recordable(s)' \in Nat
    <3>1. \A u \in Tasks : shipped[u][s] \in Nat /\ shipped'[u][s] \in Nat
      BY <1>3, <1>6 DEF TypeOK, Quantities
    <3>2. IsFiniteSet(Tasks \ Unrecorded) /\ IsFiniteSet(Tasks \ Unrecorded')
      BY FS_Subset, OrdersAssumption
    <3>. QED
      BY <3>1, <3>2, SumType DEF Recordable
  <2>4. ASSUME NEW s \in Skus PROVE picked'[s] <= Recordable(s)'
    <3>1. picked[s] \in Nat /\ picked[s] <= Recordable(s)
      BY <1>3 DEF TypeOK, OrdersInv, CountInv
    <3>. QED
      BY <1>2, <2>2, <2>3, <3>1
  <2>5. ASSUME NEW s \in Skus, NEW d \in Clients, At(d, "write")'
        PROVE  req'[d].now.picked[s] <= Recordable(s)'
    <3>1. d # c /\ req'[d] = req[d] /\ At(d, "write")
      BY <1>14, <1>18, <2>5 DEF At
    <3>2. req[d].now \in Loaded
      BY <3>1 DEF OrdersInv, ReqInv, At, After, Recording
    <3>3. req[d].now.picked[s] \in Nat /\ req[d].now.picked[s] <= Recordable(s)
      BY <3>1, <3>2 DEF OrdersInv, CountInv, Loaded
    <3>. QED
      BY <2>2, <2>3, <3>1, <3>3
  <2>. QED
    BY <2>4, <2>5 DEF CountInv
<1>. QED
  BY <1>6, <1>9, <1>10, <1>11, <1>18, <1>19 DEF OrdersInv

(* A step of a request after its task that writes neither the tasks nor    *)
(* what they shipped.                                                      *)
LEMMA AfterKeeps ==
    ASSUME OrdersInv, NEW c \in Clients, req[c].at \in After, NEW r, Goes(c, r),
           task' = task, shipped' = shipped,
           r.at \notin Inserting, r.at \in After => r.task = req[c].task, ReqInv(c)'
    PROVE  /\ req' = [d \in Clients |-> req'[d]]
           /\ req'[c] = r /\ \A d \in Clients \ {c} : req'[d] = req[d]
           /\ \A d \in Clients : ReqInv(d)'
           /\ \A d, e \in Clients : d # e => OneOfItsTask(d, e)'
<1>1. Kept
  BY DEF Kept, Exists, Over
<1>2. \A d \in Clients \ {c} : req[d].at \in Inserting => task'[req[d].task].status = "none"
  BY DEF OrdersInv, ReqInv, Exists
<1>3. r.at \in After => \A d \in Clients \ {c} : req[d].at \in After => r.task # req[d].task
  BY DEF OrdersInv, OneOfItsTask
<1>. QED
  BY <1>1, <1>2, <1>3, OthersKeep

(* What a request that records adds to what it has read is what its task   *)
(* shipped, and that task is recordable from then on.                      *)
LEMMA RecordableAdds ==
    ASSUME OrdersInv, NEW c \in Clients, At(c, "write"), NEW r, Goes(c, r),
           r.at \notin Recording, shipped' = shipped, NEW s \in Skus
    PROVE  /\ Recordable(s) \in Nat /\ shipped[req[c].task][s] \in Nat
           /\ Recordable(s)' = Recordable(s) + shipped[req[c].task][s]
<1>. DEFINE t == req[c].task
            S == Tasks \ Unrecorded'
<1>1. req' = [d \in Clients |-> IF d = c THEN r ELSE req[d]]
  BY DEF OrdersInv, Goes
<1>2. req[c].at \in Recording /\ req[c].at \in After
  BY DEF At, Recording, After
<1>3. t \in Tasks /\ t \in Unrecorded
  BY <1>2 DEF OrdersInv, ReqInv, Unrecorded
<1>4. Unrecorded' = Unrecorded \ {t}
  <2>1. \A d \in Clients \ {c} : req[d].at \in Recording => req[d].task # t
    BY <1>2 DEF OrdersInv, OneOfItsTask, After
  <2>2. Unrecorded' = {req[d].task : d \in {e \in Clients \ {c} : req[e].at \in Recording}}
    BY <1>1 DEF Unrecorded
  <2>3. Unrecorded = {t} \cup {req[d].task : d \in {e \in Clients \ {c} : req[e].at \in Recording}}
    BY <1>2 DEF Unrecorded
  <2>. QED
    BY <2>1, <2>2, <2>3
<1>5. t \in S /\ S \ {t} = Tasks \ Unrecorded
  BY <1>3, <1>4
<1>6. \A u \in Tasks : shipped[u][s] \in Nat
  BY DEF OrdersInv, TypeOK, Quantities
<1>7. IsFiniteSet(S) /\ IsFiniteSet(Tasks \ Unrecorded)
  BY FS_Subset, OrdersAssumption
<1>. HIDE DEF S, t
<1>8. S \subseteq Tasks
  BY DEF S
<1>9. SumOver(S, shipped, s) = SumOver(S \ {t}, shipped, s) + shipped[t][s]
  BY <1>5, <1>6, <1>7, <1>8, SumRemove
<1>10. SumOver(S \ {t}, shipped, s) = Recordable(s)
  BY <1>5 DEF Recordable
<1>11. Recordable(s)' = SumOver(S, shipped, s)
  BY DEF Recordable, S
<1>12. Recordable(s) \in Nat
  BY <1>6, <1>7, SumType DEF Recordable
<1>. QED
  BY <1>3, <1>6, <1>9, <1>10, <1>11, <1>12 DEF t

(* The lines become what was read plus what the task shipped, which is     *)
(* recordable from this step on.                                           *)
LEMMA UpdatePickedQtyStep ==
    ASSUME OrdersInv, NEW c \in Clients, UpdatePickedQty(c)
    PROVE  OrdersInv'
<1>. DEFINE q == req[c]
<1>1. /\ At(c, "write") /\ task' = task /\ shipped' = shipped /\ notes' = notes
      /\ remaining' = remaining /\ pending' = pending
      /\ expected' = expected /\ edits' = edits
  BY DEF UpdatePickedQty, orderVars
<1>2. PICK status : Goes(c, [q EXCEPT !.at = "note", !.status = status])
                    \/ Goes(c, [q EXCEPT !.at = "note"])
  BY DEF UpdatePickedQty, Then
<1>3. PICK r : /\ Goes(c, r) /\ r.at = "note" /\ r.task = q.task /\ r.qty = q.qty
               /\ r.loaded = q.loaded /\ r.now = q.now
  <2>1. CASE Goes(c, [q EXCEPT !.at = "note", !.status = status])
    <3>. DEFINE r == [q EXCEPT !.at = "note", !.status = status]
    <3>1. /\ Goes(c, r) /\ r.at = "note" /\ r.task = q.task /\ r.qty = q.qty
          /\ r.loaded = q.loaded /\ r.now = q.now
      BY <2>1
    <3>. HIDE DEF r
    <3>. QED
      BY <3>1
  <2>2. CASE Goes(c, [q EXCEPT !.at = "note"])
    <3>. DEFINE r == [q EXCEPT !.at = "note"]
    <3>1. /\ Goes(c, r) /\ r.at = "note" /\ r.task = q.task /\ r.qty = q.qty
          /\ r.loaded = q.loaded /\ r.now = q.now
      BY <2>2
    <3>. HIDE DEF r
    <3>. QED
      BY <3>1
  <2>. QED
    BY <1>2, <2>1, <2>2
<1>4. /\ order' = order \/ order' = [order EXCEPT !.status = NewStatus(q)]
      /\ \/ picked' = picked
         \/ picked' = [s \in Skus |-> IF s \in Recorded(q) THEN NewPicked(q)[s] ELSE picked[s]]
  BY DEF UpdatePickedQty, orderVars
<1>5. q.at \in After /\ q.now \in Loaded /\ q.qty = shipped[q.task] /\ q.task \in Tasks
  <2>1. q.at \in After
    BY <1>1 DEF At, After, Recording
  <2>. QED
    BY <2>1 DEF OrdersInv, ReqInv
<1>6. TypeOK
  BY DEF OrdersInv
<1>7. \A s \in Skus : /\ q.now.picked[s] \in Nat /\ q.qty[s] \in Nat /\ picked[s] \in Nat
                      /\ q.now.picked[s] <= Recordable(s) /\ picked[s] <= Recordable(s)
  <2>1. \A s \in Skus : q.now.picked[s] \in Nat
    BY <1>5 DEF Loaded
  <2>2. \A s \in Skus : q.qty[s] \in Nat
    BY <1>5, <1>6 DEF TypeOK, Quantities
  <2>3. \A s \in Skus : picked[s] \in Nat
    BY <1>6 DEF TypeOK
  <2>. QED
    BY <1>1, <2>1, <2>2, <2>3 DEF OrdersInv, CountInv
<1>8. ASSUME NEW s \in Skus
      PROVE  picked'[s] \in Nat
             /\ (picked'[s] = picked[s] \/ picked'[s] = q.now.picked[s] + q.qty[s])
  <2>1. NewPicked(q)[s] \in {q.now.picked[s] + q.qty[s], q.now.picked[s]}
    BY DEF NewPicked
  <2>2. s \in Recorded(q) => NewPicked(q)[s] = q.now.picked[s] + q.qty[s]
    BY DEF NewPicked
  <2>3. picked'[s] = picked[s] \/ picked'[s] = q.now.picked[s] + q.qty[s]
    BY <1>4, <2>2
  <2>. QED
    BY <1>7, <2>3
<1>9. picked' \in [Skus -> Nat]
  <2>1. picked' = [s \in Skus |-> picked'[s]]
    BY <1>4, <1>6 DEF TypeOK
  <2>. QED
    BY <1>8, <2>1
<1>10. order' \in Row /\ order'.task = order.task
  BY <1>4 DEF OrdersInv, KnownRow, Row, NewStatus, Statuses
<1>11. TypeOK' /\ KnownRow(order)'
  BY <1>1, <1>6, <1>9, <1>10 DEF TypeOK, OrdersInv, KnownRow, Row, Exists
<1>12. ReqInv(c)'
  BY <1>1, <1>3, <1>5, MovesOn DEF After
<1>13. r.at \notin Inserting /\ r.at \notin Recording
  BY <1>3 DEF Inserting, Recording
<1>14. /\ req' = [d \in Clients |-> req'[d]]
       /\ req'[c] = r /\ \A d \in Clients \ {c} : req'[d] = req[d]
       /\ \A d \in Clients : ReqInv(d)'
       /\ \A d, e \in Clients : d # e => OneOfItsTask(d, e)'
  BY <1>1, <1>3, <1>5, <1>12, <1>13, AfterKeeps
<1>15. ASSUME NEW s \in Skus
       PROVE  Recordable(s) \in Nat /\ Recordable(s)' = Recordable(s) + q.qty[s]
  BY <1>1, <1>3, <1>5, <1>13, RecordableAdds
<1>16. CountInv'
  <2>1. ASSUME NEW s \in Skus PROVE picked'[s] <= Recordable(s)'
    BY <1>7, <1>8, <1>15
  <2>2. ASSUME NEW s \in Skus, NEW d \in Clients, At(d, "write")'
        PROVE  req'[d].now.picked[s] <= Recordable(s)'
    <3>1. d # c /\ req'[d] = req[d] /\ At(d, "write")
      BY <1>3, <1>14, <2>2 DEF At
    <3>2. req[d].now \in Loaded
      BY <3>1 DEF OrdersInv, ReqInv, At, After, Recording
    <3>3. req[d].now.picked[s] \in Nat /\ req[d].now.picked[s] <= Recordable(s)
      BY <3>1, <3>2 DEF OrdersInv, CountInv, Loaded
    <3>. QED
      BY <1>7, <1>15, <3>1, <3>3
  <2>. QED
    BY <2>1, <2>2 DEF CountInv
<1>17. \A t \in Tasks : TaskInv(t)'
  BY <1>1 DEF OrdersInv, TaskInv, Exists, Over, Backorder
<1>18. \A b \in pending' : Backorder(b)'
  BY <1>1 DEF OrdersInv, Backorder, Exists
<1>. QED
  BY <1>11, <1>14, <1>16, <1>17, <1>18 DEF OrdersInv

(* The delivery note is written from what the request carries.             *)
LEMMA CreateDeliveryNoteStep ==
    ASSUME OrdersInv, NEW c \in Clients, CreateDeliveryNote(c)
    PROVE  OrdersInv'
<1>. DEFINE r == [req[c] EXCEPT !.at = "backorder"]
<1>1. /\ At(c, "note") /\ Goes(c, r) /\ task' = task /\ shipped' = shipped
      /\ order' = order /\ expected' = expected /\ picked' = picked /\ edits' = edits
      /\ remaining' = remaining /\ pending' = pending
      /\ notes' = notes \/ notes' = [notes EXCEPT ![req[c].task] = req[c].qty]
  BY DEF CreateDeliveryNote, Then, orderVars
<1>2. req[c].at \in After
  BY <1>1 DEF At, After
<1>3. req[c].now \in Loaded /\ req[c].qty = shipped[req[c].task] /\ req[c].task \in Tasks
  BY <1>2 DEF OrdersInv, ReqInv
<1>4. r.at = "backorder" /\ r.task = req[c].task /\ r.qty = req[c].qty
      /\ r.loaded = req[c].loaded /\ r.now = req[c].now
  OBVIOUS
<1>. HIDE DEF r
<1>5. ReqInv(c)'
  BY <1>1, <1>2, <1>3, <1>4, MovesOn DEF After
<1>6. r.at \notin Inserting /\ r.at \notin Recording
  BY <1>4 DEF Inserting, Recording
<1>7. /\ req' = [d \in Clients |-> req'[d]]
      /\ \A d \in Clients : ReqInv(d)'
      /\ \A d, e \in Clients : d # e => OneOfItsTask(d, e)'
  BY <1>1, <1>2, <1>4, <1>5, <1>6, AfterKeeps
<1>8. TypeOK'
  BY <1>1, <1>3 DEF OrdersInv, TypeOK
<1>9. CountInv'
  <2>1. \A s \in Skus : picked'[s] <= picked[s]
    BY <1>1 DEF OrdersInv, TypeOK
  <2>2. r.at # "write"
    BY <1>4
  <2>. QED
    BY <1>1, <1>6, <1>8, <2>1, <2>2, CountKeeps
<1>10. \A t \in Tasks : TaskInv(t)'
  BY <1>1 DEF OrdersInv, TaskInv, Exists, Over, Backorder
<1>11. \A b \in pending' : Backorder(b)'
  BY <1>1 DEF OrdersInv, Backorder, Exists
<1>12. KnownRow(order)'
  BY <1>1 DEF OrdersInv, KnownRow, Exists
<1>. QED
  BY <1>7, <1>8, <1>9, <1>10, <1>11, <1>12 DEF OrdersInv

(* A request that has only backorders to write left.                       *)
LEMMA BackordersKeep ==
    ASSUME OrdersInv, NEW c \in Clients, req[c].at \in After, NEW r, Goes(c, r), ReqInv(c)',
           r.at \notin Inserting, r.at \notin Recording, r.at \in After => r.task = req[c].task,
           UNCHANGED <<orderVars, task, shipped, notes>>,
           remaining' \in [Tasks -> Quantities],
           \A t \in Tasks : remaining'[t] # remaining[t] => Exists(t) /\ task[t].source = None,
           \A b \in pending' \ pending : Backorder(b)
    PROVE  OrdersInv'
<1>1. /\ order' = order /\ expected' = expected /\ picked' = picked /\ edits' = edits
      /\ task' = task /\ shipped' = shipped /\ notes' = notes
  BY DEF orderVars
<1>2. /\ req' = [d \in Clients |-> req'[d]]
      /\ \A d \in Clients : ReqInv(d)'
      /\ \A d, e \in Clients : d # e => OneOfItsTask(d, e)'
  BY <1>1, AfterKeeps
<1>3. \A b \in pending' : Backorder(b)'
  BY <1>1 DEF OrdersInv, Backorder, Exists
<1>4. TypeOK'
  <2>1. pending' \subseteq Tasks \X Skus
    BY <1>3 DEF Backorder
  <2>. QED
    BY <1>1, <2>1 DEF OrdersInv, TypeOK
<1>5. CountInv'
  <2>1. \A s \in Skus : picked'[s] <= picked[s]
    BY <1>1 DEF OrdersInv, TypeOK
  <2>2. r.at # "write"
    BY DEF Recording
  <2>. QED
    BY <1>1, <1>4, <2>1, <2>2, CountKeeps
<1>6. \A t \in Tasks : TaskInv(t)'
  BY <1>1 DEF OrdersInv, TaskInv, Exists, Over, Backorder
<1>7. KnownRow(order)'
  BY <1>1 DEF OrdersInv, KnownRow, Exists
<1>. QED
  BY <1>2, <1>3, <1>4, <1>5, <1>6, <1>7 DEF OrdersInv

(* Backorders are made of the task of the order only: a task that fulfils  *)
(* one has a source and leaves none.                                       *)
LEMMA CreateBackordersStep ==
    ASSUME OrdersInv, NEW c \in Clients, CreateBackorders(c)
    PROVE  OrdersInv'
<1>. DEFINE r == [req[c] EXCEPT !.at = "settle"]
            t == req[c].task
<1>1. /\ At(c, "backorder") /\ Goes(c, r) /\ UNCHANGED <<orderVars, task, shipped, notes>>
      /\ \/ remaining' = remaining /\ pending' = pending
         \/ /\ LeavesBackorders(req[c])
            /\ remaining' = [remaining EXCEPT ![t] = LeftOpen(req[c])]
            /\ pending' = pending \cup {<<t, s>> : s \in {x \in Skus : LeftOpen(req[c])[x] > 0}}
  BY DEF CreateBackorders, Then
<1>2. req[c].at \in After
  BY <1>1 DEF At, After
<1>3. /\ req[c].now \in Loaded /\ req[c].loaded \in Loaded /\ req[c].qty = shipped[t]
      /\ t \in Tasks /\ Over(t)
  BY <1>2 DEF OrdersInv, ReqInv
<1>4. r.at = "settle" /\ r.task = req[c].task /\ r.qty = req[c].qty
      /\ r.loaded = req[c].loaded /\ r.now = req[c].now
  OBVIOUS
<1>. HIDE DEF r
<1>5. ReqInv(c)'
  BY <1>1, <1>2, <1>3, <1>4, MovesOn DEF After
<1>6. r.at \notin Inserting /\ r.at \notin Recording
  BY <1>4 DEF Inserting, Recording
<1>7. Exists(t)
  BY <1>3 DEF Exists, Over, Terminal
<1>8. LeftOpen(req[c]) \in Quantities
  <2>1. \A s \in Skus : /\ req[c].loaded.expected[s] \in 0 .. MaxQuantity
                        /\ req[c].loaded.picked[s] \in Nat /\ req[c].qty[s] \in Nat
    BY <1>3 DEF Loaded, Quantities, OrdersInv, TypeOK
  <2>2. \A s \in Skus : LeftOpen(req[c])[s] \in 0 .. MaxQuantity
    BY <2>1, OrdersAssumption DEF LeftOpen
  <2>. QED
    BY <2>2 DEF LeftOpen, Quantities
<1>9. LeavesBackorders(req[c]) => task[t].source = None
  BY DEF LeavesBackorders
<1>10. /\ remaining' \in [Tasks -> Quantities]
       /\ \A u \in Tasks : remaining'[u] # remaining[u] => Exists(u) /\ task[u].source = None
  BY <1>1, <1>3, <1>7, <1>8, <1>9 DEF OrdersInv, TypeOK
<1>11. \A b \in pending' \ pending : Backorder(b)
  BY <1>1, <1>3, <1>7, <1>9 DEF Backorder
<1>. QED
  BY <1>1, <1>2, <1>4, <1>5, <1>6, <1>10, <1>11, BackordersKeep

(* Reducing the backorder writes what was left when it was read.           *)
LEMMA UpdateFulfilledBackorderStep ==
    ASSUME OrdersInv, NEW c \in Clients, UpdateFulfilledBackorder(c)
    PROVE  OrdersInv'
<1>. DEFINE b   == Source(c)
            new == Reduced(req[c].left, req[c].qty[b[2]])
<1>1. /\ At(c, "reduce") /\ Goes(c, Idle) /\ UNCHANGED <<orderVars, task, shipped, notes>>
      /\ remaining' = [remaining EXCEPT ![b[1]][b[2]] = new]
      /\ pending' \subseteq pending
  BY DEF UpdateFulfilledBackorder
<1>2. req[c].at \in After
  BY <1>1 DEF At, After
<1>3. /\ b # None /\ req[c].left \in 0 .. MaxQuantity /\ req[c].qty = shipped[req[c].task]
      /\ req[c].task \in Tasks
  BY <1>1, <1>2 DEF OrdersInv, ReqInv
<1>4. Backorder(b)
  BY <1>3 DEF OrdersInv, TaskInv, Source
<1>. HIDE DEF b
<1>5. b[1] \in Tasks /\ b[2] \in Skus /\ Exists(b[1]) /\ task[b[1]].source = None
  BY <1>4 DEF Backorder
<1>6. new \in 0 .. MaxQuantity
  <2>1. req[c].qty[b[2]] \in Nat
    BY <1>3, <1>5 DEF OrdersInv, TypeOK, Quantities
  <2>. QED
    BY <1>3, <2>1, OrdersAssumption DEF Reduced
<1>. HIDE DEF new
<1>7. remaining' \in [Tasks -> Quantities]
  BY <1>1, <1>5, <1>6 DEF OrdersInv, TypeOK, Quantities
<1>8. \A t \in Tasks : remaining'[t] # remaining[t] => Exists(t) /\ task[t].source = None
  BY <1>1, <1>5 DEF OrdersInv, TypeOK
<1>9. ReqInv(c)'
  BY <1>1, IdleRequest
<1>10. Idle.at \notin Inserting /\ Idle.at \notin After /\ Idle.at \notin Recording
  BY DEF Idle, Inserting, After, Recording
<1>. QED
  BY <1>1, <1>2, <1>7, <1>8, <1>9, <1>10, BackordersKeep

-----------------------------------------------------------------------------
(* Every step of every request keeps the invariant.                        *)
LEMMA NextOrdersInv == OrdersInv /\ [Next]_vars => OrdersInv'
<1>. SUFFICES ASSUME OrdersInv, [Next]_vars PROVE OrdersInv'
  OBVIOUS
<1>1. ASSUME NEW c \in Clients, Commits(c) PROVE OrdersInv'
  BY <1>1, CommitUpdateStep, CommitDeleteStep, CommitSubmitStep, CommitCancelStep, CommitFulfillStep
     DEF Commits
<1>2. ASSUME NEW c \in Clients, AfterPicking(c) PROVE OrdersInv'
  BY <1>2, ReadPickedQtyStep, UpdatePickedQtyStep, CreateDeliveryNoteStep, CreateBackordersStep,
     ReadBackorderStep, UpdateFulfilledBackorderStep DEF AfterPicking
<1>3. ASSUME NEW c \in Clients, OrderRequests(c) \/ \E b \in pending : BeginFulfill(c, b)
      PROVE  OrdersInv'
  BY <1>3, BeginStep
<1>4. ASSUME NEW c \in Clients, NEW t \in Tasks, CompletePickingTask(c, t) PROVE OrdersInv'
  BY <1>4, CompleteStep
<1>5. ASSUME NEW t \in Tasks, TaskRequests(t) PROVE OrdersInv'
  BY <1>5, TaskRequestsStep
<1>6. ASSUME NEW c \in Clients, StepFails(c) \/ RequestLost(c) PROVE OrdersInv'
  BY <1>6, StepFailsStep, RequestLostStep
<1>7. CASE UNCHANGED vars
  <2>1. /\ order' = order /\ expected' = expected /\ picked' = picked /\ edits' = edits
        /\ task' = task /\ shipped' = shipped /\ notes' = notes /\ remaining' = remaining
        /\ pending' = pending /\ req' = req
    BY <1>7 DEF vars, orderVars
  <2>2. TypeOK' /\ KnownRow(order)' /\ req' = [c \in Clients |-> req'[c]]
    BY <2>1 DEF OrdersInv, TypeOK, KnownRow, Exists
  <2>3. \A t \in Tasks : TaskInv(t)'
    BY <2>1 DEF OrdersInv, TaskInv, Exists, Over, Backorder
  <2>4. \A b \in pending' : Backorder(b)'
    BY <2>1 DEF OrdersInv, Backorder, Exists
  <2>5. \A c \in Clients : ReqInv(c)'
    BY <2>1 DEF OrdersInv, ReqInv, At, Source, KnownRow, Exists, Over, Backorder
  <2>6. \A c, d \in Clients : c # d => OneOfItsTask(c, d)'
    BY <2>1 DEF OrdersInv, OneOfItsTask
  <2>7. CountInv'
    BY <2>1 DEF OrdersInv, CountInv, At, Recordable, Unrecorded
  <2>. QED
    BY <2>2, <2>3, <2>4, <2>5, <2>6, <2>7 DEF OrdersInv
<1>. QED
  BY <1>1, <1>2, <1>3, <1>4, <1>5, <1>6, <1>7 DEF Next, Progress, Failures

(* Every reachable state satisfies the inductive invariant.                *)
THEOREM OrdersInvariant == Spec => []OrdersInv
<1>1. Init => OrdersInv
  BY InitOrdersInv
<1>2. OrdersInv /\ [Next]_vars => OrdersInv'
  BY NextOrdersInv
<1>. QED
  BY <1>1, <1>2, PTL DEF Spec

(* Orders, tasks, notes and backorders stay in their ranges: a backorder's *)
(* remaining quantity never turns negative.                                *)
THEOREM OrdersTypes == Spec => []TypeOK
<1>1. OrdersInv => TypeOK
  BY DEF OrdersInv
<1>. QED
  BY <1>1, OrdersInvariant, PTL

(* However requests race, fail and get lost: the order never records more  *)
(* than completed tasks shipped, since a request adds what its own task    *)
(* shipped to what it has read, once, and backorders have depth one.       *)
THEOREM NothingIsCountedTwice == Spec => []NothingCountsTwice
<1>1. OrdersInv => RecordedWithinShipped
  <2>. SUFFICES ASSUME OrdersInv, NEW s \in Skus PROVE picked[s] <= Shipped(s)
    BY DEF RecordedWithinShipped
  <2>1. \A t \in Tasks : shipped[t][s] \in Nat
    BY DEF OrdersInv, TypeOK, Quantities
  <2>2. Recordable(s) <= Shipped(s)
    BY <2>1, SumMonotonic, OrdersAssumption DEF Recordable, Shipped
  <2>3. IsFiniteSet(Tasks \ Unrecorded)
    BY FS_Subset, OrdersAssumption
  <2>4. Recordable(s) \in Nat /\ Shipped(s) \in Nat
    BY <2>1, <2>3, SumType, OrdersAssumption DEF Recordable, Shipped
  <2>5. picked[s] \in Nat /\ picked[s] <= Recordable(s)
    BY DEF OrdersInv, TypeOK, CountInv
  <2>. QED
    BY <2>2, <2>4, <2>5
<1>2. OrdersInv => BackordersDoNotNest
  BY DEF OrdersInv, TaskInv, BackordersDoNotNest
<1>. QED
  BY <1>1, <1>2, OrdersInvariant, PTL DEF NothingCountsTwice

-----------------------------------------------------------------------------
(* One request at a time and none failing.  What holds of the rows then,   *)
(* given the request under way: r is its record, Idle when there is none.  *)

Given(t) == Exists(t) /\ task[t].source = None
Telling == {"note", "backorder"}
Settling == {"settle", "reduce"}

(* The completion of f has been told to the order, down to its backorders. *)
Settled(f, r) == Over(f) /\ ~(r.at \in Recording \cup Telling /\ r.task = f)
Fulfillable(b, r) == picked # Nothing /\ Settled(b[1], r)

(* What the order records of q, and what a note lists of it.               *)
Got(q, s) == IF expected[s] > 0 THEN q[s] ELSE 0
NoteOf(q) == IF Counts(q) THEN q ELSE Nothing

(* What the request has recorded of s and not taken off its backorder yet. *)
Unsettled(r, s) ==
    IF r.at \in Telling \cup Settling /\ task[r.task].source # None THEN Got(r.qty, s) ELSE 0
Left(e, p) == IF e > p THEN e - p ELSE 0

Within(q) == \A s \in Skus : q[s] <= expected[s]

DraftInv(r) ==
    /\ order.status = "draft" => picked = Nothing /\ \A t \in Tasks : ~Exists(t)
    /\ r.at \in {"submit", "update", "delete"} => order.status = "draft"
    /\ r.at = "update" => r.row = order

SizeInv == \A t \in Tasks : Within(remaining[t])

NoteInv(r) == \A t \in Tasks :
    notes[t] = IF r.at \in Recording \cup {"note"} /\ r.task = t THEN Nothing
               ELSE NoteOf(shipped[t])

ToldInv(r) ==
    /\ r.at \in Recording => r.status = "" /\ r.loaded = Items
    /\ r.at = "write" => r.now = Items
    /\ r.at \in Telling =>
        /\ r.status = IF ~Counts(r.qty) THEN ""
                      ELSE IF \A s \in Skus : picked[s] >= expected[s] THEN "completed" ELSE "partial"
        /\ r.loaded.expected = expected
        /\ \A s \in Skus : r.loaded.picked[s] + Got(r.qty, s) = picked[s]
        /\ task[r.task].source = None => \A s \in Skus : picked[s] = Got(r.qty, s)
    /\ r.at = "reduce" => LET b == task[r.task].source IN r.left = remaining[b[1]][b[2]]

SumInv(r) == \A s \in Skus :
    (IF expected[s] > 0 THEN Shipped(s) ELSE 0)
        = picked[s] + (IF r.at \in Recording THEN Got(r.qty, s) ELSE 0)

OwedInv(r) ==
    /\ \A t, u \in Tasks : Given(t) /\ Given(u) => t = u
    /\ \A t \in Tasks : task[t].source # None => Fulfillable(task[t].source, r)
    /\ r.at = "fulfill" => Fulfillable(r.source, r)
    /\ \A f \in Tasks : Given(f) =>
        /\ ~Over(f) \/ (r.at \in Recording /\ r.task = f) => picked = Nothing
        /\ ~Settled(f, r) \/ picked = Nothing => remaining[f] = Nothing
        /\ Settled(f, r) /\ picked # Nothing =>
              \A s \in Skus : Straight(s) =>
                  remaining[f][s] = Left(expected[s], picked[s] - Unsettled(r, s))

Serial(r) ==
    DraftInv(r) /\ SizeInv /\ NoteInv(r) /\ ToldInv(r) /\ SumInv(r) /\ OwedInv(r)

Alone(c) == \A d \in Clients \ {c} : At(d, "idle")
SerialInv ==
    \/ Quiet /\ Serial(Idle)
    \/ \E c \in Clients : ~At(c, "idle") /\ Alone(c) /\ Serial(req[c])

(* At the start nothing is under way and nothing was asked for.            *)
LEMMA InitSerial == Init => SerialInv
<1>. SUFFICES ASSUME Init PROVE SerialInv
  OBVIOUS
<1>. USE DEF Init
<1>0. \A s \in Skus : Nothing[s] = 0
  BY DEF Nothing
<1>1. \A t \in Tasks : ~Exists(t) /\ ~Over(t) /\ task[t].source = None /\ ~Given(t)
  BY DEF Exists, Over, Given, Terminal
<1>2. Idle.at = "idle"
  BY DEF Idle
<1>3. \A s \in Skus : expected[s] \in Nat
  BY OrdersAssumption DEF Quantities
<1>4. DraftInv(Idle)
  BY <1>1, <1>2 DEF DraftInv
<1>5. SizeInv
  BY <1>0, <1>3 DEF SizeInv, Within
<1>6. NoteInv(Idle)
  BY <1>2 DEF NoteInv, NoteOf, Recording
<1>7. ToldInv(Idle)
  BY <1>2 DEF ToldInv, Recording, Telling
<1>8. SumInv(Idle)
  <2>. SUFFICES ASSUME NEW s \in Skus PROVE Shipped(s) = 0
    BY <1>0, <1>2 DEF SumInv, Recording
  <2>1. \A t \in Tasks : shipped[t][s] = 0
    BY <1>0
  <2>. QED
    BY <2>1, SumOfZeros DEF Shipped
<1>9. OwedInv(Idle)
  BY <1>1, <1>2 DEF OwedInv
<1>10. Quiet
  BY <1>2 DEF Quiet, At
<1>. QED
  BY <1>4, <1>5, <1>6, <1>7, <1>8, <1>9, <1>10 DEF SerialInv, Serial

(* A step that only reads is judged by the rows as they are.               *)
LEMMA SerialOfRows ==
    ASSUME reads, NEW r, Serial(r)
    PROVE  Serial(r)'
<1>1. /\ order' = order /\ expected' = expected /\ picked' = picked /\ edits' = edits
      /\ task' = task /\ shipped' = shipped /\ notes' = notes /\ remaining' = remaining
  BY DEF reads, orderVars
<1>2. \A t : Exists(t)' = Exists(t) /\ Over(t)' = Over(t) /\ Given(t)' = Given(t)
  BY <1>1 DEF Exists, Over, Given
<1>3. \A f : Settled(f, r)' = Settled(f, r)
  BY <1>2 DEF Settled
<1>4. \A q : /\ Within(q)' = Within(q) /\ Counts(q)' = Counts(q) /\ NoteOf(q)' = NoteOf(q)
             /\ \A s : Got(q, s)' = Got(q, s)
  BY <1>1 DEF Within, Counts, NoteOf, Got
<1>11. \A s : Straight(s)' = Straight(s) /\ Unsettled(r, s)' = Unsettled(r, s)
  BY <1>1, <1>4 DEF Straight, Unsettled
<1>5. DraftInv(r)'
  BY <1>1, <1>2 DEF Serial, DraftInv
<1>6. SizeInv'
  BY <1>1, <1>4 DEF Serial, SizeInv
<1>7. NoteInv(r)'
  BY <1>1, <1>4 DEF Serial, NoteInv
<1>8. ToldInv(r)'
  BY <1>1, <1>4 DEF Serial, ToldInv, Items
<1>9. SumInv(r)'
  BY <1>1, <1>4 DEF Serial, SumInv, Shipped
<1>10. OwedInv(r)'
  BY <1>1, <1>2, <1>3, <1>11 DEF Serial, OwedInv, Fulfillable
<1>. QED
  BY <1>5, <1>6, <1>7, <1>8, <1>9, <1>10 DEF Serial

(* Before its task is completed a request bears on the rows only by what   *)
(* it is about to write.                                                   *)
LEMMA SerialOfPlans ==
    ASSUME NEW q, Serial(q), q.at \notin After, NEW r, r.at \notin After,
           r.at \in {"submit", "update", "delete"} => order.status = "draft",
           r.at = "update" => r.row = order,
           r.at = "fulfill" => Fulfillable(r.source, q)
    PROVE  Serial(r)
<1>. USE DEF After, Recording, Telling, Settling
<1>1. \A f : Settled(f, r) = Settled(f, q)
  BY DEF Settled
<1>2. \A b : Fulfillable(b, r) = Fulfillable(b, q)
  BY <1>1 DEF Fulfillable
<1>3. \A s : Unsettled(r, s) = Unsettled(q, s)
  BY DEF Unsettled
<1>4. DraftInv(r)
  BY DEF Serial, DraftInv
<1>5. SizeInv
  BY DEF Serial
<1>6. NoteInv(r)
  BY DEF Serial, NoteInv
<1>7. ToldInv(r)
  BY DEF Serial, ToldInv
<1>8. SumInv(r)
  BY DEF Serial, SumInv
<1>9. OwedInv(r)
  BY <1>1, <1>2, <1>3 DEF Serial, OwedInv
<1>. QED
  BY <1>4, <1>5, <1>6, <1>7, <1>8, <1>9 DEF Serial

(* The one request under way goes on, or ends.                             *)
LEMMA SerialGoes ==
    ASSUME OrdersInv, NEW c \in Clients, Alone(c), NEW r, Goes(c, r), Serial(r)',
           r.at = "idle" => r = Idle
    PROVE  SerialInv'
<1>1. req' = [d \in Clients |-> IF d = c THEN r ELSE req[d]]
  BY DEF OrdersInv, Goes
<1>2. req'[c] = r /\ \A d \in Clients \ {c} : At(d, "idle")'
  BY <1>1 DEF Alone, At
<1>3. CASE r.at = "idle"
  <2>1. Quiet'
    BY <1>2, <1>3 DEF Quiet, At
  <2>2. r = Idle
    BY <1>3
  <2>3. Serial(Idle)'
    BY <2>2
  <2>. QED
    BY <2>1, <2>3 DEF SerialInv
<1>4. CASE r.at # "idle"
  <2>1. ~At(c, "idle")' /\ Alone(c)'
    BY <1>2, <1>4 DEF At, Alone
  <2>2. Serial(req[c])'
    BY <1>2
  <2>. QED
    BY <2>1, <2>2 DEF SerialInv
<1>. QED
  BY <1>3, <1>4

(* A request begins when there is none.                                    *)
LEMMA BeginSerial ==
    ASSUME OrdersInv, Serial(Idle), Quiet, NEW c \in Clients,
           OrderRequests(c) \/ \E b \in pending : BeginFulfill(c, b)
    PROVE  SerialInv'
<1>. USE DEF After, Recording, Inserting
<1>1. Alone(c)
  BY DEF Quiet, Alone
<1>2. Idle.at = "idle"
  BY DEF Idle
<1>3. CASE BeginUpdate(c)
  <2>1. PICK new \in Quantities : Goes(c, [at |-> "update", row |-> order, new |-> new])
    BY <1>3 DEF BeginUpdate
  <2>2. PICK r : r = [at |-> "update", row |-> order, new |-> new]
    OBVIOUS
  <2>3. Goes(c, r) /\ r.at = "update" /\ r.row = order
    BY <2>1, <2>2
  <2>4. reads /\ order.status = "draft"
    BY <1>3 DEF BeginUpdate, Drafts
  <2>5. Serial(r)
    BY <1>2, <2>3, <2>4, SerialOfPlans
  <2>. QED
    BY <1>1, <2>3, <2>4, <2>5, SerialOfRows, SerialGoes
<1>4. CASE BeginDelete(c)
  <2>1. PICK r : r = [at |-> "delete"]
    OBVIOUS
  <2>2. Goes(c, r) /\ r.at = "delete"
    BY <1>4, <2>1 DEF BeginDelete
  <2>3. reads /\ order.status = "draft"
    BY <1>4 DEF BeginDelete, Drafts
  <2>4. Serial(r)
    BY <1>2, <2>2, <2>3, SerialOfPlans
  <2>. QED
    BY <1>1, <2>2, <2>3, <2>4, SerialOfRows, SerialGoes
<1>5. CASE BeginSubmit(c)
  <2>1. PICK t \in Unused, found \in AtMost(expected) :
           Goes(c, [at |-> "submit", task |-> t, items |-> found])
    BY <1>5 DEF BeginSubmit
  <2>2. PICK r : r = [at |-> "submit", task |-> t, items |-> found]
    OBVIOUS
  <2>3. Goes(c, r) /\ r.at = "submit"
    BY <2>1, <2>2
  <2>4. reads /\ order.status = "draft"
    BY <1>5 DEF BeginSubmit, Drafts
  <2>5. Serial(r)
    BY <1>2, <2>3, <2>4, SerialOfPlans
  <2>. QED
    BY <1>1, <2>3, <2>4, <2>5, SerialOfRows, SerialGoes
<1>6. CASE BeginCancel(c)
  <2>1. PICK stops \in BOOLEAN :
           stops = (order.task # None /\ task[order.task].status \notin Terminal)
    OBVIOUS
  <2>2. PICK r : r = [at |-> "cancel", row |-> order, stops |-> stops]
    OBVIOUS
  <2>3. Goes(c, r)
    BY <1>6, <2>1, <2>2 DEF BeginCancel
  <2>4. r.at = "cancel"
    BY <2>2
  <2>5. reads
    BY <1>6 DEF BeginCancel
  <2>6. Serial(r)
    BY <1>2, <2>4, SerialOfPlans
  <2>. QED
    BY <1>1, <2>3, <2>4, <2>5, <2>6, SerialOfRows, SerialGoes
<1>7. ASSUME NEW b \in pending, BeginFulfill(c, b) PROVE SerialInv'
  <2>1. PICK t \in Unused, found \in 1 .. remaining[b[1]][b[2]] :
           Goes(c, [at |-> "fulfill", task |-> t, source |-> b,
                    items |-> [Nothing EXCEPT ![b[2]] = found]])
    BY <1>7 DEF BeginFulfill
  <2>2. PICK r : r = [at |-> "fulfill", task |-> t, source |-> b,
                      items |-> [Nothing EXCEPT ![b[2]] = found]]
    OBVIOUS
  <2>3. Goes(c, r) /\ r.at = "fulfill" /\ r.source = b
    BY <2>1, <2>2
  <2>4. reads
    BY <1>7 DEF BeginFulfill
  <2>5. b[1] \in Tasks /\ b[2] \in Skus /\ Given(b[1])
    BY DEF OrdersInv, Backorder, Given
  <2>6. remaining[b[1]][b[2]] \in Nat
    BY <2>5 DEF OrdersInv, TypeOK, Quantities
  <2>7. found \in Nat /\ found >= 1 /\ found <= remaining[b[1]][b[2]]
    BY <2>1, <2>6
  <2>8. remaining[b[1]] # Nothing
    BY <2>5, <2>7, <2>6 DEF Nothing
  <2>9. Fulfillable(b, Idle)
    BY <2>5, <2>8 DEF Serial, OwedInv, Fulfillable
  <2>10. Serial(r)
    BY <1>2, <2>3, <2>9, SerialOfPlans
  <2>. QED
    BY <1>1, <2>3, <2>4, <2>10, SerialOfRows, SerialGoes
<1>. QED
  BY <1>3, <1>4, <1>5, <1>6, <1>7 DEF OrderRequests

(* Tasks that move on, or end, and orders that do.                         *)
LEMMA SerialOfMoves ==
    ASSUME OrdersInv, NEW r, Serial(r),
           r.at \in {"submit", "update", "delete"} => order' = order,
           r.at = "fulfill" => r.source[1] \in Tasks,
           r.at \in After => r.task \in Tasks /\ Over(r.task),
           order'.status = "draft" => order.status = "draft",
           expected' = expected, picked' = picked, edits' = edits,
           shipped' = shipped, notes' = notes, remaining' = remaining,
           \A t \in Tasks : /\ task'[t].source = task[t].source
                            /\ Exists(t)' = Exists(t) /\ (Over(t) => Over(t)')
    PROVE  Serial(r)'
<1>1. \A t \in Tasks : Given(t)' = Given(t)
  BY DEF Given
<1>2. \A f \in Tasks : Settled(f, r) => Settled(f, r)'
  BY DEF Settled
<1>3. \A b : b[1] \in Tasks /\ Fulfillable(b, r) => Fulfillable(b, r)'
  BY <1>2 DEF Fulfillable
<1>4. \A q : /\ Within(q)' = Within(q) /\ Counts(q)' = Counts(q) /\ NoteOf(q)' = NoteOf(q)
             /\ \A s : Got(q, s)' = Got(q, s)
  BY DEF Within, Counts, NoteOf, Got
<1>11. \A s : Straight(s)' = Straight(s)
  BY DEF Straight
<1>5. DraftInv(r)'
  BY DEF Serial, DraftInv
<1>6. SizeInv'
  BY <1>4 DEF Serial, SizeInv
<1>7. NoteInv(r)'
  BY <1>4 DEF Serial, NoteInv
<1>8. ToldInv(r)'
  <2>1. r.at \in Recording \cup Telling \cup {"reduce"} => task'[r.task].source = task[r.task].source
    BY DEF After, Telling
  <2>. QED
    BY <1>4, <2>1 DEF Serial, ToldInv, Items
<1>9. SumInv(r)'
  BY <1>4 DEF Serial, SumInv, Shipped
<1>10. OwedInv(r)'
  <2>1. \A s : Unsettled(r, s)' = Unsettled(r, s)
    BY <1>4 DEF Unsettled, After, Telling, Settling
  <2>2. ASSUME NEW t \in Tasks, task'[t].source # None PROVE Fulfillable(task[t].source, r)'
    <3>1. task[t].source[1] \in Tasks
      BY <2>2 DEF OrdersInv, TaskInv, Backorder
    <3>. QED
      BY <1>3, <2>2, <3>1 DEF Serial, OwedInv
  <2>3. r.at = "fulfill" => Fulfillable(r.source, r)'
    BY <1>3 DEF Serial, OwedInv
  <2>4. ASSUME NEW f \in Tasks, Given(f)
        PROVE  /\ ~Over(f)' \/ (r.at \in Recording /\ r.task = f) => picked = Nothing
               /\ ~Settled(f, r)' \/ picked = Nothing => remaining[f] = Nothing
               /\ Settled(f, r)' /\ picked # Nothing =>
                     \A s \in Skus : Straight(s) =>
                         remaining[f][s] = Left(expected[s], picked[s] - Unsettled(r, s))
    <3>1. CASE Over(f)
      <4>1. Settled(f, r)' = Settled(f, r)
        BY <3>1 DEF Settled
      <4>. QED
        BY <2>4, <3>1, <4>1 DEF Serial, OwedInv
    <3>2. CASE ~Over(f)
      <4>1. picked = Nothing /\ ~Settled(f, r)
        BY <2>4, <3>2 DEF Serial, OwedInv, Settled
      <4>2. remaining[f] = Nothing
        BY <2>4, <4>1 DEF Serial, OwedInv
      <4>. QED
        BY <4>1, <4>2
    <3>. QED
      BY <3>1, <3>2
  <2>. QED
    BY <1>1, <1>11, <2>1, <2>2, <2>3, <2>4 DEF Serial, OwedInv
<1>. QED
  BY <1>5, <1>6, <1>7, <1>8, <1>9, <1>10 DEF Serial

(* A new task: the first of the order, or one for a backorder.             *)
LEMMA SerialOfInserts ==
    ASSUME OrdersInv, Serial(Idle), NEW t \in Tasks, ~Exists(t), NEW items \in Quantities, NEW source,
           Insert(t, items, source),
           \/ source = None /\ order.status = "draft"
           \/ /\ source # None /\ source[1] \in Tasks
              /\ Given(source[1]) /\ Fulfillable(source, Idle),
           order'.status # "draft",
           expected' = expected, picked' = picked, edits' = edits,
           shipped' = shipped, notes' = notes, remaining' = remaining
    PROVE  Serial(Idle)'
<1>0. Idle.at = "idle"
  BY DEF Idle
<1>1. /\ task'[t].status = "open" /\ task'[t].source = source
      /\ \A u \in Tasks \ {t} : task'[u] = task[u]
  BY DEF Insert, OrdersInv, TypeOK
<1>2. \A u \in Tasks \ {t} : /\ Exists(u)' = Exists(u) /\ Over(u)' = Over(u)
                             /\ Given(u)' = Given(u) /\ Settled(u, Idle)' = Settled(u, Idle)
  BY <1>1 DEF Exists, Over, Given, Settled
<1>3. Exists(t)' /\ ~Over(t)' /\ ~Settled(t, Idle)' /\ (Given(t)' <=> source = None)
  BY <1>1 DEF Exists, Over, Terminal, Given, Settled
<1>4. ~Over(t) /\ shipped[t] = Nothing /\ remaining[t] = Nothing
  BY DEF Exists, Over, Terminal, OrdersInv, TaskInv
<1>5. DraftInv(Idle)'
  BY <1>0 DEF DraftInv
<1>11. \A q : /\ Within(q)' = Within(q) /\ Counts(q)' = Counts(q) /\ NoteOf(q)' = NoteOf(q)
              /\ \A s : Got(q, s)' = Got(q, s)
  BY DEF Within, Counts, NoteOf, Got
<1>12. \A s \in Skus : Straight(s)' => Straight(s)
  <2>1. \A s \in Skus : shipped[t][s] = 0
    BY <1>4 DEF Nothing
  <2>. QED
    BY <1>1, <2>1 DEF Straight
<1>6. SizeInv'
  BY <1>11 DEF Serial, SizeInv
<1>7. NoteInv(Idle)'
  BY <1>0, <1>11 DEF Serial, NoteInv, Recording
<1>8. ToldInv(Idle)'
  BY <1>0 DEF ToldInv, Recording, Telling
<1>9. SumInv(Idle)'
  BY <1>0, <1>11 DEF Serial, SumInv, Shipped, Recording
<1>10. OwedInv(Idle)'
  <2>1. \A s : Unsettled(Idle, s)' = 0 /\ Unsettled(Idle, s) = 0
    BY <1>0 DEF Unsettled, Telling, Settling
  <2>2. \A u, v \in Tasks : Given(u)' /\ Given(v)' => u = v
    <3>1. CASE source = None
      <4>1. \A u \in Tasks : ~Given(u)
        BY <3>1 DEF Serial, DraftInv, Given
      <4>. QED
        BY <1>2, <1>3, <4>1
    <3>2. CASE source # None
      BY <1>2, <1>3, <3>2 DEF Serial, OwedInv
    <3>. QED
      BY <3>1, <3>2
  <2>3. \A b : b[1] \in Tasks /\ Fulfillable(b, Idle) => Fulfillable(b, Idle)'
    BY <1>2, <1>4 DEF Fulfillable, Settled
  <2>4. ASSUME NEW u \in Tasks, task'[u].source # None, NEW b, b = task'[u].source
        PROVE  Fulfillable(b, Idle)'
    <3>2. b[1] \in Tasks /\ Fulfillable(b, Idle)
      <4>1. CASE u = t
        BY <1>1, <2>4, <4>1
      <4>2. CASE u # t
        BY <1>1, <2>4, <4>2 DEF OrdersInv, TaskInv, Backorder, Serial, OwedInv
      <4>. QED
        BY <4>1, <4>2
    <3>. QED
      BY <2>3, <3>2
  <2>5. ASSUME NEW f \in Tasks, Given(f)'
        PROVE  /\ ~Over(f)' => picked = Nothing
               /\ ~Settled(f, Idle)' \/ picked = Nothing => remaining[f] = Nothing
               /\ Settled(f, Idle)' /\ picked # Nothing =>
                     \A s \in Skus : Straight(s)' =>
                         remaining[f][s] = Left(expected[s], picked[s] - 0)
    <3>1. CASE f = t
      <4>1. picked = Nothing
        BY <1>3, <2>5, <3>1 DEF Serial, DraftInv
      <4>. QED
        BY <1>4, <3>1, <4>1
    <3>2. CASE f # t
      BY <1>2, <1>12, <2>1, <2>5, <3>2 DEF Serial, OwedInv
    <3>. QED
      BY <3>1, <3>2
  <2>. QED
    <3>1. \A u \in Tasks : (task[u].source # None => Fulfillable(task[u].source, Idle))'
      BY <2>4
    <3>. QED
      BY <1>0, <2>1, <2>2, <2>5, <3>1 DEF OwedInv, Recording
<1>. QED
  BY <1>5, <1>6, <1>7, <1>8, <1>9, <1>10 DEF Serial

(* A planned request is forgotten once it has committed.                   *)
LEMMA SerialOfIdle ==
    ASSUME NEW q, Serial(q), q.at \notin After
    PROVE  Serial(Idle)
<1>1. Idle.at \notin After /\ Idle.at \notin {"submit", "update", "delete", "fulfill"}
  BY DEF Idle, After, Recording
<1>. QED
  BY <1>1, SerialOfPlans

(* New lines are asked for before there is a task.                         *)
LEMMA CommitUpdateSerial ==
    ASSUME OrdersInv, NEW c \in Clients, Serial(req[c]), CommitUpdate(c)
    PROVE  Serial(Idle)'
<1>. USE DEF After, Recording, Telling, Settling
<1>0. Idle.at = "idle"
  BY DEF Idle
<1>1. At(c, "update") /\ req[c].new \in Quantities
  BY DEF CommitUpdate, OrdersInv, ReqInv
<1>2. Serial(Idle)
  BY <1>1, SerialOfIdle DEF At
<1>3. order' = order /\ order.status = "draft"
  BY <1>1 DEF CommitUpdate, At, Serial, DraftInv
<1>4. /\ task' = task /\ shipped' = shipped /\ notes' = notes /\ remaining' = remaining
      /\ \/ expected' = expected /\ picked' = picked /\ edits' = edits
         \/ expected' = req[c].new /\ picked' = Nothing
  BY DEF CommitUpdate
<1>5. CASE expected' = expected /\ picked' = picked /\ edits' = edits
  <2>1. \A t \in Tasks : Exists(t)' = Exists(t) /\ Over(t)' = Over(t)
    BY <1>4 DEF Exists, Over
  <2>. QED
    BY <1>0, <1>2, <1>3, <1>4, <1>5, <2>1, SerialOfMoves
<1>6. CASE expected' = req[c].new /\ picked' = Nothing
  <2>1. picked = Nothing /\ \A t \in Tasks : /\ ~Exists(t) /\ ~Given(t)
                                             /\ task[t].source = None /\ remaining[t] = Nothing
    BY <1>2, <1>3 DEF Serial, DraftInv, OrdersInv, TaskInv, Given
  <2>2. \A t \in Tasks : ~Exists(t)' /\ ~Given(t)'
    BY <1>4, <2>1 DEF Exists, Given
  <2>3. DraftInv(Idle)'
    BY <1>0, <1>6, <2>2 DEF DraftInv
  <2>4. SizeInv'
    <3>1. \A s \in Skus : Nothing[s] = 0 /\ expected'[s] \in Nat
      BY <1>1, <1>6, OrdersAssumption DEF Nothing, Quantities
    <3>. QED
      BY <1>4, <2>1, <3>1 DEF SizeInv, Within
  <2>9. \A t \in Tasks : shipped[t] = Nothing
    BY <2>1 DEF OrdersInv, TaskInv, Exists, Over, Terminal
  <2>5. NoteInv(Idle)'
    BY <1>0, <1>2, <1>4, <2>9 DEF Serial, NoteInv, NoteOf
  <2>6. ToldInv(Idle)'
    BY <1>0 DEF ToldInv
  <2>7. SumInv(Idle)'
    <3>1. \A s \in Skus : picked'[s] = 0 /\ \A t \in Tasks : shipped'[t][s] = 0
      BY <1>4, <1>6, <2>9 DEF Nothing
    <3>2. \A s \in Skus : Shipped(s)' = 0
      BY <3>1, SumOfZeros DEF Shipped
    <3>. QED
      BY <1>0, <3>1, <3>2 DEF SumInv
  <2>8. OwedInv(Idle)'
    BY <1>0, <1>4, <2>1, <2>2 DEF OwedInv
  <2>. QED
    BY <2>3, <2>4, <2>5, <2>6, <2>7, <2>8 DEF Serial
<1>. QED
  BY <1>4, <1>5, <1>6

(* The order is deleted before it has a task.                              *)
LEMMA CommitDeleteSerial ==
    ASSUME OrdersInv, NEW c \in Clients, Serial(req[c]), CommitDelete(c)
    PROVE  Serial(Idle)'
<1>0. Idle.at = "idle"
  BY DEF Idle
<1>1. At(c, "delete") /\ order' = [order EXCEPT !.deleted = TRUE]
      /\ expected' = expected /\ picked' = picked /\ edits' = edits /\ task' = task
      /\ shipped' = shipped /\ notes' = notes /\ remaining' = remaining
  BY DEF CommitDelete
<1>2. Serial(Idle)
  BY <1>1, SerialOfIdle DEF At, After, Recording
<1>3. order'.status = order.status
  BY <1>1 DEF OrdersInv, KnownRow, Row
<1>4. \A t \in Tasks : Exists(t)' = Exists(t) /\ Over(t)' = Over(t)
  BY <1>1 DEF Exists, Over
<1>. QED
  BY <1>0, <1>1, <1>2, <1>3, <1>4, SerialOfMoves DEF After, Recording

(* The first task of the order.                                            *)
LEMMA CommitSubmitSerial ==
    ASSUME OrdersInv, NEW c \in Clients, Serial(req[c]), CommitSubmit(c)
    PROVE  Serial(Idle)'
<1>1. At(c, "submit") /\ Insert(req[c].task, req[c].items, None)
      /\ order' = [order EXCEPT !.status = "submitted", !.task = req[c].task]
      /\ expected' = expected /\ picked' = picked /\ edits' = edits
      /\ shipped' = shipped /\ notes' = notes /\ remaining' = remaining
  BY DEF CommitSubmit
<1>2. Serial(Idle)
  BY <1>1, SerialOfIdle DEF At, After, Recording
<1>3. /\ req[c].task \in Tasks /\ ~Exists(req[c].task) /\ req[c].items \in Quantities
      /\ order.status = "draft"
  BY <1>1 DEF OrdersInv, ReqInv, At, Inserting, Serial, DraftInv
<1>4. order'.status = "submitted"
  BY <1>1 DEF OrdersInv, KnownRow, Row
<1>. QED
  BY <1>1, <1>2, <1>3, <1>4, SerialOfInserts

(* The order is cancelled, and its task if that was not over.              *)
LEMMA CommitCancelSerial ==
    ASSUME OrdersInv, NEW c \in Clients, Serial(req[c]), CommitCancel(c)
    PROVE  Serial(Idle)'
<1>0. Idle.at = "idle"
  BY DEF Idle
<1>1. /\ At(c, "cancel") /\ order' = [order EXCEPT !.status = "cancelled"]
      /\ expected' = expected /\ picked' = picked /\ edits' = edits
      /\ shipped' = shipped /\ notes' = notes /\ remaining' = remaining
      /\ task' = IF req[c].stops THEN [task EXCEPT ![req[c].row.task].status = "cancelled"] ELSE task
  BY DEF CommitCancel
<1>2. Serial(Idle)
  BY <1>1, SerialOfIdle DEF At, After, Recording
<1>3. order'.status # "draft"
  BY <1>1 DEF OrdersInv, KnownRow, Row
<1>4. req[c].stops => Exists(req[c].row.task)
  BY <1>1 DEF OrdersInv, ReqInv, KnownRow
<1>5. \A t \in Tasks : /\ task'[t].source = task[t].source
                       /\ Exists(t)' = Exists(t) /\ (Over(t) => Over(t)')
  <2>1. CASE req[c].stops
    <3>1. task' = [task EXCEPT ![req[c].row.task].status = "cancelled"]
      BY <1>1, <2>1
    <3>. QED
      BY <1>4, <2>1, <3>1 DEF OrdersInv, TypeOK, Exists, Over, Terminal
  <2>2. CASE ~req[c].stops
    BY <1>1, <2>2 DEF Exists, Over
  <2>. QED
    BY <2>1, <2>2
<1>. QED
  BY <1>0, <1>1, <1>2, <1>3, <1>5, SerialOfMoves DEF After, Recording

(* A task for a backorder.                                                 *)
LEMMA CommitFulfillSerial ==
    ASSUME OrdersInv, NEW c \in Clients, Serial(req[c]), CommitFulfill(c)
    PROVE  Serial(Idle)'
<1>1. At(c, "fulfill") /\ Insert(req[c].task, req[c].items, req[c].source)
      /\ order' = order /\ expected' = expected /\ picked' = picked /\ edits' = edits
      /\ shipped' = shipped /\ notes' = notes /\ remaining' = remaining
  BY DEF CommitFulfill, orderVars
<1>2. Serial(Idle)
  BY <1>1, SerialOfIdle DEF At, After, Recording
<1>3. req[c].task \in Tasks /\ ~Exists(req[c].task) /\ req[c].items \in Quantities
  BY <1>1 DEF OrdersInv, ReqInv, At, Inserting
<1>4. /\ req[c].source # None /\ req[c].source[1] \in Tasks /\ Given(req[c].source[1])
  BY <1>1 DEF OrdersInv, ReqInv, Backorder, Given, None
<1>5. Fulfillable(req[c].source, Idle)
  <2>1. Fulfillable(req[c].source, req[c])
    BY <1>1 DEF Serial, OwedInv, At
  <2>. QED
    BY <2>1 DEF Fulfillable, Settled, Idle, Recording, Telling
<1>6. order.status # "draft"
  BY <1>2, <1>4 DEF Serial, DraftInv, Given
<1>. QED
  BY <1>1, <1>2, <1>3, <1>4, <1>5, <1>6, SerialOfInserts

(* What is done to a task besides completing it bears neither on what was  *)
(* shipped for the order nor on where the task came from.                  *)
LEMMA TaskRequestsSerial ==
    ASSUME OrdersInv, SerialInv, NEW t \in Tasks, TaskRequests(t)
    PROVE  SerialInv'
<1>0. TypeOK
  BY DEF OrdersInv
<1>1. /\ order' = order /\ expected' = expected /\ picked' = picked /\ edits' = edits
      /\ shipped' = shipped /\ notes' = notes /\ remaining' = remaining /\ req' = req
  BY <1>0, TaskRequestsAre DEF orderVars
<1>2. \A u \in Tasks : /\ task'[u].source = task[u].source
                       /\ Exists(u)' = Exists(u) /\ (Over(u) => Over(u)')
  <2>1. PICK row \in TaskRow :
           /\ row.status # "none" /\ row.source = task[t].source
           /\ Over(t) => row.status \in Terminal
           /\ task' = [task EXCEPT ![t] = row]
    BY <1>0, TaskRequestsAre
  <2>2. Exists(t)
    BY <1>0, TaskRequestsAre
  <2>. QED
    BY <1>0, <2>1, <2>2 DEF TypeOK, Exists, Over, Terminal
<1>3. CASE Quiet /\ Serial(Idle)
  <2>1. Idle.at = "idle"
    BY DEF Idle
  <2>2. Serial(Idle)'
    BY <1>1, <1>2, <1>3, <2>1, SerialOfMoves DEF After, Recording
  <2>. QED
    BY <1>1, <1>3, <2>2 DEF SerialInv, Quiet, At
<1>4. ASSUME NEW c \in Clients, ~At(c, "idle"), Alone(c), Serial(req[c])
      PROVE  SerialInv'
  <2>1. PICK r : r = req[c]
    OBVIOUS
  <2>2. /\ r.at = "fulfill" => r.source[1] \in Tasks
        /\ r.at \in After => r.task \in Tasks /\ Over(r.task)
    BY <2>1 DEF OrdersInv, ReqInv, Backorder, At
  <2>3. Serial(r)'
    BY <1>1, <1>2, <1>4, <2>1, <2>2, SerialOfMoves
  <2>4. r = req'[c] /\ ~At(c, "idle")' /\ Alone(c)'
    BY <1>1, <1>4, <2>1 DEF At, Alone
  <2>5. Serial(req[c])'
    BY <2>3, <2>4
  <2>. QED
    BY <2>4, <2>5 DEF SerialInv
<1>. QED
  BY <1>3, <1>4 DEF SerialInv

(* What the request of a completed task stands on.                         *)
LEMMA SerialAfter ==
    ASSUME OrdersInv, NEW c \in Clients, NEW q, q = req[c], q.at \in After, Serial(q)
    PROVE  /\ q.task \in Tasks /\ Over(q.task) /\ Exists(q.task)
           /\ q.qty = shipped[q.task] /\ q.qty \in Quantities
           /\ order.status # "draft"
           /\ \A s \in Skus : q.qty[s] \in Nat /\ picked[s] \in Nat /\ expected[s] \in Nat
           /\ task[q.task].source # None =>
                /\ task[q.task].source[1] \in Tasks /\ task[q.task].source[2] \in Skus
                /\ Given(task[q.task].source[1])
                /\ Fulfillable(task[q.task].source, q)
           /\ \A f \in Tasks : Given(f) /\ f # q.task =>
                /\ task[q.task].source # None /\ f = task[q.task].source[1]
<1>1. q.task \in Tasks /\ Over(q.task) /\ q.qty = shipped[q.task]
  BY DEF OrdersInv, ReqInv
<1>2. Exists(q.task)
  BY <1>1 DEF Exists, Over, Terminal
<1>3. q.qty \in Quantities
  BY <1>1 DEF OrdersInv, TypeOK
<1>4. order.status # "draft"
  BY <1>1, <1>2 DEF Serial, DraftInv
<1>5. \A s \in Skus : q.qty[s] \in Nat /\ picked[s] \in Nat /\ expected[s] \in Nat
  BY <1>1, <1>3, OrdersAssumption DEF OrdersInv, TypeOK, Quantities
<1>8. ASSUME task[q.task].source # None
      PROVE  /\ task[q.task].source[1] \in Tasks /\ task[q.task].source[2] \in Skus
             /\ Given(task[q.task].source[1])
             /\ Fulfillable(task[q.task].source, q)
  <2>1. Backorder(task[q.task].source)
    BY <1>1, <1>8 DEF OrdersInv, TaskInv
  <2>. QED
    BY <1>1, <1>8, <2>1 DEF Serial, OwedInv, Backorder, Given
<1>9. \A f \in Tasks : Given(f) /\ f # q.task =>
         task[q.task].source # None /\ f = task[q.task].source[1]
  BY <1>1, <1>2, <1>8 DEF Serial, OwedInv, Given
<1>. QED
  BY <1>1, <1>2, <1>3, <1>4, <1>5, <1>8, <1>9

(* The task is completed: what it shipped is under way to the order.       *)
LEMMA CompleteSerial ==
    ASSUME OrdersInv, Serial(Idle), Quiet, NEW c \in Clients, NEW t \in Tasks,
           CompletePickingTask(c, t)
    PROVE  SerialInv'
<1>0. Idle.at = "idle"
  BY DEF Idle
<1>a. PICK p : p = task[t].items
  OBVIOUS
<1>b. PICK r : r = [at |-> "record", task |-> t, qty |-> p, status |-> "",
                    loaded |-> Items, now |-> Items, left |-> 0]
  OBVIOUS
<1>1. shipped' = [shipped EXCEPT ![t] = p] /\ Goes(c, r)
  BY <1>a, <1>b DEF CompletePickingTask
<1>2. /\ r.at = "record" /\ r.task = t /\ r.qty = p /\ r.status = "" /\ r.loaded = Items
  BY <1>b
<1>3. /\ task[t].status = "in_progress" /\ task' = [task EXCEPT ![t].status = "completed"]
      /\ order' = order /\ expected' = expected /\ picked' = picked /\ edits' = edits
      /\ notes' = notes /\ remaining' = remaining
  BY DEF CompletePickingTask, orderVars
<1>4. p \in Quantities
  BY <1>a DEF OrdersInv, TypeOK
<1>5. /\ \A u \in Tasks : task'[u].source = task[u].source
      /\ \A u \in Tasks : Exists(u)' = Exists(u) /\ Given(u)' = Given(u)
      /\ \A u \in Tasks \ {t} : Over(u)' = Over(u)
      /\ Exists(t) /\ ~Over(t) /\ Over(t)'
  BY <1>3 DEF OrdersInv, TypeOK, Exists, Over, Given, Terminal
<1>6. shipped[t] = Nothing /\ shipped'[t] = p /\ \A u \in Tasks \ {t} : shipped'[u] = shipped[u]
  BY <1>1, <1>5 DEF OrdersInv, TypeOK, TaskInv
<1>7. order.status # "draft"
  BY <1>5 DEF Serial, DraftInv
<1>8. DraftInv(r)'
  BY <1>2, <1>3, <1>7 DEF DraftInv
<1>16. \A q : /\ Within(q)' = Within(q) /\ Counts(q)' = Counts(q) /\ NoteOf(q)' = NoteOf(q)
              /\ \A s : Got(q, s)' = Got(q, s)
  BY <1>3 DEF Within, Counts, NoteOf, Got
<1>17. \A s \in Skus : Straight(s)' => Straight(s)
  <2>1. \A s \in Skus : shipped[t][s] = 0
    BY <1>6 DEF Nothing
  <2>. QED
    BY <1>5, <1>6, <2>1 DEF Straight
<1>9. SizeInv'
  BY <1>3, <1>16 DEF Serial, SizeInv
<1>10. NoteInv(r)'
  <2>1. ASSUME NEW u \in Tasks
        PROVE  notes'[u] = IF u = t THEN Nothing ELSE NoteOf(shipped'[u])
    <3>1. notes[u] = NoteOf(shipped[u])
      BY <1>0 DEF Serial, NoteInv, Recording
    <3>. QED
      BY <1>3, <1>6, <3>1 DEF NoteOf
  <2>. QED
    BY <1>2, <1>16, <2>1 DEF NoteInv, Recording
<1>11. ToldInv(r)'
  BY <1>2, <1>3 DEF ToldInv, Recording, Telling, Items
<1>12. SumInv(r)'
  <2>. SUFFICES ASSUME NEW s \in Skus
                PROVE  (IF expected[s] > 0 THEN Shipped(s)' ELSE 0) = picked[s] + Got(p, s)
    BY <1>2, <1>3, <1>16 DEF SumInv, Recording
  <2>0. \A u \in Tasks : shipped[u][s] \in Nat
    BY DEF OrdersInv, TypeOK, Quantities
  <2>1. \A u \in Tasks : shipped[u][s] \in Nat /\ shipped'[u][s] \in Nat
    <3>1. p[s] \in Nat
      BY <1>4 DEF Quantities
    <3>. QED
      BY <1>6, <2>0, <3>1
  <2>2. \A u \in Tasks \ {t} : shipped'[u][s] = shipped[u][s]
    BY <1>6
  <2>3. SumOver(Tasks, shipped', s) = SumOver(Tasks, shipped, s) - shipped[t][s] + shipped'[t][s]
    BY <2>1, <2>2, SumChange, OrdersAssumption
  <2>4. shipped[t][s] = 0 /\ shipped'[t][s] = p[s] /\ p[s] \in Nat
    BY <1>4, <1>6 DEF Nothing, Quantities
  <2>5. (IF expected[s] > 0 THEN SumOver(Tasks, shipped, s) ELSE 0) = picked[s] /\ picked[s] \in Nat
    BY <1>0 DEF Serial, SumInv, Shipped, Recording, OrdersInv, TypeOK
  <2>. QED
    BY <2>3, <2>4, <2>5 DEF Shipped, Got
<1>13. OwedInv(r)'
  <2>1. \A f \in Tasks \ {t} : Settled(f, r)' = Settled(f, Idle)
    BY <1>0, <1>2, <1>5 DEF Settled, Recording, Telling
  <2>2. ~Settled(t, r)' /\ ~Settled(t, Idle)
    BY <1>2, <1>5 DEF Settled, Recording
  <2>3. \A b : b[1] \in Tasks /\ Fulfillable(b, Idle) => Fulfillable(b, r)'
    BY <1>3, <2>1, <2>2 DEF Fulfillable
  <2>4. \A u \in Tasks : (task[u].source # None => Fulfillable(task[u].source, r))'
    <3>. SUFFICES ASSUME NEW u \in Tasks, NEW b, b = task[u].source, b # None
                  PROVE  Fulfillable(b, r)'
      BY <1>5
    <3>1. b[1] \in Tasks /\ Fulfillable(b, Idle)
      BY DEF OrdersInv, TaskInv, Backorder, Serial, OwedInv
    <3>. QED
      BY <2>3, <3>1
  <2>5. \A s : Unsettled(r, s)' = 0 /\ Unsettled(Idle, s) = 0
    BY <1>0, <1>2 DEF Unsettled, Telling, Settling
  <2>6. ASSUME NEW f \in Tasks, Given(f)
        PROVE  /\ ~Over(f)' \/ (r.at \in Recording /\ r.task = f) => picked = Nothing
               /\ ~Settled(f, r)' \/ picked = Nothing => remaining[f] = Nothing
               /\ Settled(f, r)' /\ picked # Nothing =>
                     \A s \in Skus : Straight(s)' =>
                         remaining[f][s] = Left(expected[s], picked[s] - 0)
    <3>1. CASE f = t
      BY <1>5, <2>2, <2>6, <3>1 DEF Serial, OwedInv
    <3>2. CASE f # t
      <4>1. /\ ~Over(f) => picked = Nothing
            /\ ~Settled(f, Idle) \/ picked = Nothing => remaining[f] = Nothing
            /\ Settled(f, Idle) /\ picked # Nothing =>
                  \A s \in Skus : Straight(s) =>
                      remaining[f][s] = Left(expected[s], picked[s] - Unsettled(Idle, s))
        BY <2>6 DEF Serial, OwedInv
      <4>. QED
        BY <1>2, <1>5, <1>17, <2>1, <2>5, <3>2, <4>1
    <3>. QED
      BY <3>1, <3>2
  <2>7. \A u, v \in Tasks : Given(u)' /\ Given(v)' => u = v
    BY <1>5 DEF Serial, OwedInv
  <2>. QED
    <3>1. r.at # "fulfill"
      BY <1>2
    <3>2. \A f \in Tasks : (Given(f) =>
             /\ ~Over(f) \/ (r.at \in Recording /\ r.task = f) => picked = Nothing
             /\ ~Settled(f, r) \/ picked = Nothing => remaining[f] = Nothing
             /\ Settled(f, r) /\ picked # Nothing =>
                  \A s \in Skus : Straight(s) => remaining[f][s] = Left(expected[s], picked[s] - Unsettled(r, s)))'
      BY <1>3, <1>5, <2>5, <2>6
    <3>. QED
      BY <2>4, <2>7, <3>1, <3>2 DEF OwedInv
<1>14. Alone(c)
  BY DEF Quiet, Alone
<1>15. Serial(r)'
  BY <1>8, <1>9, <1>10, <1>11, <1>12, <1>13 DEF Serial
<1>. QED
  BY <1>1, <1>2, <1>14, <1>15, SerialGoes

(* The items are as they were when the task was completed.                 *)
LEMMA ReadPickedQtySerial ==
    ASSUME OrdersInv, NEW c \in Clients, Serial(req[c]), Alone(c), ReadPickedQty(c)
    PROVE  SerialInv'
<1>1. PICK q : q = req[c]
  OBVIOUS
<1>2. PICK r : r = [q EXCEPT !.at = "write", !.now = Items]
  OBVIOUS
<1>3. q.at = "record" /\ Goes(c, r) /\ reads /\ Serial(q)
  BY <1>1, <1>2 DEF ReadPickedQty, At
<1>4. /\ r.at = "write" /\ r.task = q.task /\ r.qty = q.qty /\ r.status = q.status
      /\ r.loaded = q.loaded /\ r.now = Items
  BY <1>2
<1>5. \A f : Settled(f, r) = Settled(f, q)
  BY <1>3, <1>4 DEF Settled, Recording
<1>6. \A s : Unsettled(r, s) = Unsettled(q, s)
  BY <1>3, <1>4 DEF Unsettled, Telling, Settling
<1>7. DraftInv(r) /\ SizeInv /\ NoteInv(r) /\ SumInv(r)
  BY <1>3, <1>4 DEF Serial, DraftInv, NoteInv, SumInv, Recording
<1>8. ToldInv(r)
  BY <1>3, <1>4 DEF Serial, ToldInv, Recording, Telling
<1>9. OwedInv(r)
  BY <1>3, <1>4, <1>5, <1>6 DEF Serial, OwedInv, Fulfillable, Recording
<1>10. Serial(r)
  BY <1>7, <1>8, <1>9 DEF Serial
<1>. QED
  BY <1>3, <1>4, <1>10, SerialOfRows, SerialGoes

(* The backorder, if the task came from one.                               *)
LEMMA ReadBackorderSerial ==
    ASSUME OrdersInv, NEW c \in Clients, Serial(req[c]), Alone(c), ReadBackorder(c)
    PROVE  SerialInv'
<1>1. PICK q : q = req[c]
  OBVIOUS
<1>2. q.at = "settle" /\ reads /\ Serial(q)
  BY <1>1 DEF ReadBackorder, At
<1>3. PICK r : /\ Goes(c, r) /\ (r.at = "idle" => r = Idle)
               /\ \/ r.at = "idle" /\ task[q.task].source = None
                  \/ /\ r.at = "reduce" /\ r.task = q.task /\ r.qty = q.qty
                     /\ r.left = remaining[task[q.task].source[1]][task[q.task].source[2]]
  <2>1. CASE Source(c) = None
    <3>1. Goes(c, Idle) /\ Idle.at = "idle" /\ task[q.task].source = None
      BY <1>1, <2>1 DEF ReadBackorder, Idle, Source
    <3>. QED
      BY <3>1
  <2>2. CASE Source(c) # None
    <3>1. PICK left : left = remaining[Source(c)[1]][Source(c)[2]]
      OBVIOUS
    <3>2. PICK r : r = [q EXCEPT !.at = "reduce", !.left = left]
      OBVIOUS
    <3>3. r.at = "reduce" /\ r.task = q.task /\ r.qty = q.qty /\ r.left = left
      BY <3>2
    <3>4. Goes(c, r)
      BY <1>1, <2>2, <3>1, <3>2 DEF ReadBackorder
    <3>. QED
      BY <1>1, <3>1, <3>3, <3>4 DEF Source
  <2>. QED
    BY <2>1, <2>2
<1>4. \A f : Settled(f, r) = Settled(f, q)
  BY <1>2, <1>3 DEF Settled, Recording, Telling
<1>5. \A s : Unsettled(r, s) = Unsettled(q, s)
  BY <1>2, <1>3 DEF Unsettled, Telling, Settling
<1>6. DraftInv(r) /\ SizeInv /\ NoteInv(r) /\ SumInv(r)
  BY <1>2, <1>3 DEF Serial, DraftInv, NoteInv, SumInv, Recording
<1>7. ToldInv(r)
  BY <1>2, <1>3 DEF ToldInv, Recording, Telling
<1>8. OwedInv(r)
  BY <1>2, <1>3, <1>4, <1>5 DEF Serial, OwedInv, Fulfillable, Recording
<1>9. Serial(r)
  BY <1>6, <1>7, <1>8 DEF Serial
<1>. QED
  BY <1>2, <1>3, <1>9, SerialOfRows, SerialGoes

(* The order records exactly what was shipped of what it asked for.        *)
LEMMA UpdatePickedQtySerial ==
    ASSUME OrdersInv, NEW c \in Clients, Serial(req[c]), Alone(c), UpdatePickedQty(c)
    PROVE  SerialInv'
<1>1. PICK q : q = req[c]
  OBVIOUS
<1>2. /\ q.at = "write" /\ q.at \in After /\ Serial(q)
      /\ expected' = expected /\ edits' = edits /\ task' = task
      /\ shipped' = shipped /\ notes' = notes /\ remaining' = remaining
  BY <1>1 DEF UpdatePickedQty, At, After, Recording, orderVars
<1>3. /\ q.task \in Tasks /\ q.qty \in Quantities /\ q.qty = shipped[q.task]
      /\ order.status # "draft" /\ Over(q.task)
      /\ \A s \in Skus : q.qty[s] \in Nat /\ picked[s] \in Nat /\ expected[s] \in Nat
      /\ \A s \in Skus : Got(q.qty, s) \in Nat
      /\ task[q.task].source # None => Fulfillable(task[q.task].source, q)
      /\ \A f \in Tasks : Given(f) /\ f # q.task =>
           task[q.task].source # None /\ f = task[q.task].source[1]
  BY <1>1, <1>2, SerialAfter DEF Got
<1>4. q.status = "" /\ q.loaded = Items /\ q.now = Items
  BY <1>2 DEF Serial, ToldInv, Recording
<1>5. /\ q.now.expected = expected /\ q.now.picked = picked /\ q.now.edits = edits
      /\ q.loaded.expected = expected /\ q.loaded.picked = picked
  <2>1. Items.expected = expected /\ Items.picked = picked /\ Items.edits = edits
    BY DEF Items
  <2>. QED
    BY <1>4, <2>1
<1>6. Recorded(q) = {s \in Skus : Got(q.qty, s) > 0}
  BY <1>3, <1>5 DEF Recorded, Got
<1>7. \A s \in Skus : NewPicked(q)[s] = picked[s] + Got(q.qty, s)
  BY <1>3, <1>5 DEF NewPicked, Recorded, Got
<1>8. ~Counts(q.qty) <=> Recorded(q) = {}
  BY <1>5 DEF Counts, Recorded
<1>9. \A s \in Skus : picked'[s] = picked[s] + Got(q.qty, s)
  <2>1. CASE Recorded(q) = {}
    <3>1. picked' = picked
      BY <1>1, <2>1 DEF UpdatePickedQty, orderVars
    <3>2. \A s \in Skus : Got(q.qty, s) = 0
      BY <1>3, <1>6, <2>1
    <3>. QED
      BY <1>3, <3>1, <3>2
  <2>2. CASE Recorded(q) # {}
    <3>1. picked' = [s \in Skus |-> IF s \in Recorded(q) THEN NewPicked(q)[s] ELSE picked[s]]
      BY <1>1, <1>5, <2>2 DEF UpdatePickedQty
    <3>. QED
      BY <1>3, <1>6, <1>7, <3>1
  <2>. QED
    BY <2>1, <2>2
<1>10. picked' \in [Skus -> Nat]
  BY NextOrdersInv DEF Next, Progress, AfterPicking, OrdersInv, TypeOK
<1>11. PICK r : /\ Goes(c, r) /\ r.at = "note" /\ r.task = q.task /\ r.qty = q.qty
                /\ r.loaded = q.loaded
                /\ r.status = IF ~Counts(q.qty) THEN "" ELSE NewStatus(q)
  <2>1. CASE Recorded(q) = {}
    <3>1. PICK r : r = [q EXCEPT !.at = "note"]
      OBVIOUS
    <3>2. Goes(c, r)
      BY <1>1, <2>1, <3>1 DEF UpdatePickedQty, Then
    <3>3. /\ r.at = "note" /\ r.task = q.task /\ r.qty = q.qty
          /\ r.loaded = q.loaded /\ r.status = q.status
      BY <3>1
    <3>. QED
      BY <1>4, <1>8, <2>1, <3>2, <3>3
  <2>2. CASE Recorded(q) # {}
    <3>1. PICK r : r = [q EXCEPT !.at = "note", !.status = NewStatus(q)]
      OBVIOUS
    <3>2. Goes(c, r)
      BY <1>1, <2>2, <3>1 DEF UpdatePickedQty
    <3>3. /\ r.at = "note" /\ r.task = q.task /\ r.qty = q.qty
          /\ r.loaded = q.loaded /\ r.status = NewStatus(q)
      BY <3>1
    <3>. QED
      BY <1>8, <2>2, <3>2, <3>3
  <2>. QED
    BY <2>1, <2>2
<1>12. order'.status # "draft"
  <2>1. order' = order \/ order' = [order EXCEPT !.status = NewStatus(q)]
    BY <1>1 DEF UpdatePickedQty, orderVars
  <2>. QED
    BY <1>3, <2>1 DEF OrdersInv, KnownRow, Row, NewStatus
<1>13. \A t : Given(t)' = Given(t) /\ Over(t)' = Over(t) /\ Exists(t)' = Exists(t)
  BY <1>2 DEF Given, Over, Exists
<1>24. /\ \A x : /\ Within(x)' = Within(x) /\ Counts(x)' = Counts(x) /\ NoteOf(x)' = NoteOf(x)
                 /\ \A s : Got(x, s)' = Got(x, s)
       /\ \A s : Straight(s)' = Straight(s)
  BY <1>2 DEF Within, Counts, NoteOf, Got, Straight
<1>14. \A f : Settled(f, r)' = Settled(f, q)
  BY <1>2, <1>11, <1>13 DEF Settled, Recording, Telling
<1>15. picked # Nothing => picked' # Nothing
  <2>1. picked = [s \in Skus |-> picked[s]]
    BY DEF OrdersInv, TypeOK
  <2>2. ASSUME NEW s \in Skus, picked[s] # 0 PROVE picked'[s] # 0
    BY <1>3, <1>9, <2>2
  <2>. QED
    BY <2>1, <2>2 DEF Nothing
<1>16. task[q.task].source = None => picked = Nothing
  BY <1>2, <1>3 DEF Serial, OwedInv, Given, Recording, Exists, Over, Terminal
<1>17. DraftInv(r)'
  BY <1>11, <1>12 DEF DraftInv
<1>18. SizeInv'
  BY <1>2, <1>24 DEF Serial, SizeInv
<1>19. NoteInv(r)'
  BY <1>2, <1>11, <1>24 DEF Serial, NoteInv, Recording
<1>20. ToldInv(r)'
  <2>1. r.status = IF ~Counts(r.qty) THEN ""
                   ELSE IF \A s \in Skus : picked'[s] >= expected[s] THEN "completed" ELSE "partial"
    BY <1>5, <1>7, <1>9, <1>11 DEF NewStatus
  <2>2. r.loaded.expected = expected
        /\ \A s \in Skus : r.loaded.picked[s] + Got(r.qty, s) = picked'[s]
    BY <1>5, <1>9, <1>11
  <2>3. ASSUME task[r.task].source = None PROVE \A s \in Skus : picked'[s] = Got(r.qty, s)
    <3>1. picked = Nothing
      BY <1>2, <1>11, <1>16, <2>3
    <3>2. \A s \in Skus : picked[s] = 0
      BY <3>1 DEF Nothing
    <3>3. \A s \in Skus : picked'[s] = Got(q.qty, s)
      BY <1>3, <1>9, <3>2
    <3>. QED
      BY <1>11, <3>3
  <2>. QED
    BY <1>2, <1>11, <1>24, <2>1, <2>2, <2>3 DEF ToldInv, Recording
<1>21. SumInv(r)'
  <2>1. \A s \in Skus : (IF expected[s] > 0 THEN Shipped(s) ELSE 0) = picked[s] + Got(q.qty, s)
    BY <1>2 DEF Serial, SumInv, Recording
  <2>2. \A s \in Skus : (IF expected[s] > 0 THEN Shipped(s)' ELSE 0) = picked'[s]
    BY <1>2, <1>9, <2>1 DEF Shipped
  <2>. QED
    <3>1. \A s \in Skus : picked'[s] \in Nat
      BY <1>10
    <3>. QED
      <4>1. r.at \notin Recording
        BY <1>11 DEF Recording
      <4>2. ASSUME NEW s \in Skus
            PROVE  (IF expected[s] > 0 THEN Shipped(s)' ELSE 0) = picked'[s] + 0
        BY <2>2, <3>1
      <4>. QED
        BY <1>2, <4>1, <4>2 DEF SumInv
<1>22. OwedInv(r)'
  <2>1. \A b : Fulfillable(b, q) => Fulfillable(b, r)'
    BY <1>14, <1>15 DEF Fulfillable
  <2>2. \A t \in Tasks : (task[t].source # None => Fulfillable(task[t].source, r))'
    BY <1>2, <2>1 DEF Serial, OwedInv
  <2>3. \A t, u \in Tasks : (Given(t) /\ Given(u) => t = u)'
    BY <1>2, <1>13 DEF Serial, OwedInv
  <2>4. ASSUME NEW f \in Tasks, Given(f)
        PROVE  /\ ~Over(f) => picked' = Nothing
               /\ ~Settled(f, q) \/ picked' = Nothing => remaining[f] = Nothing
               /\ Settled(f, q) /\ picked' # Nothing =>
                    \A s \in Skus : Straight(s) => remaining[f][s] = Left(expected[s], picked'[s] - Unsettled(r, s)')
    <3>1. CASE f = q.task
      <4>1. Over(f) /\ ~Settled(f, q) /\ remaining[f] = Nothing
        BY <1>2, <1>3, <2>4, <3>1 DEF Settled, Recording, Serial, OwedInv
      <4>. QED
        BY <4>1
    <3>2. CASE f # q.task
      <4>1. task[q.task].source # None /\ f = task[q.task].source[1]
        BY <1>3, <2>4, <3>2
      <4>2. picked # Nothing /\ Settled(f, q) /\ Over(f)
        BY <1>3, <4>1 DEF Fulfillable, Settled
      <4>3. \A s \in Skus : Straight(s) =>
               remaining[f][s] = Left(expected[s], picked[s] - Unsettled(q, s))
        BY <1>2, <2>4, <4>2 DEF Serial, OwedInv
      <4>4. \A s \in Skus : Unsettled(q, s) = 0 /\ Unsettled(r, s)' = Got(q.qty, s)
        BY <1>2, <1>11, <1>24, <4>1 DEF Unsettled, Telling, Settling
      <4>5. \A s \in Skus : picked'[s] - Unsettled(r, s)' = picked[s] - Unsettled(q, s)
        BY <1>3, <1>9, <4>4
      <4>. QED
        BY <1>15, <4>2, <4>3, <4>5
    <3>. QED
      BY <3>1, <3>2
  <2>5. \A f \in Tasks : (Given(f) =>
             /\ ~Over(f) \/ (r.at \in Recording /\ r.task = f) => picked = Nothing
             /\ ~Settled(f, r) \/ picked = Nothing => remaining[f] = Nothing
             /\ Settled(f, r) /\ picked # Nothing =>
                  \A s \in Skus : Straight(s) =>
                      remaining[f][s] = Left(expected[s], picked[s] - Unsettled(r, s)))'
    BY <1>2, <1>11, <1>13, <1>14, <1>24, <2>4 DEF Recording
  <2>6. r.at # "fulfill"
    BY <1>11
  <2>. QED
    BY <2>2, <2>3, <2>5, <2>6 DEF OwedInv
<1>23. Serial(r)'
  BY <1>17, <1>18, <1>19, <1>20, <1>21, <1>22 DEF Serial
<1>. QED
  BY <1>11, <1>23, SerialGoes

(* The delivery note lists what was shipped, if some of it was ordered.    *)
LEMMA CreateDeliveryNoteSerial ==
    ASSUME OrdersInv, NEW c \in Clients, Serial(req[c]), Alone(c), CreateDeliveryNote(c)
    PROVE  SerialInv'
<1>1. PICK q : q = req[c]
  OBVIOUS
<1>2. /\ q.at = "note" /\ q.at \in After /\ Serial(q)
      /\ order' = order /\ expected' = expected /\ picked' = picked /\ edits' = edits
      /\ task' = task /\ shipped' = shipped /\ remaining' = remaining
  BY <1>1 DEF CreateDeliveryNote, At, After, orderVars
<1>3. q.task \in Tasks /\ q.qty = shipped[q.task]
  BY <1>1, <1>2, SerialAfter
<1>4. PICK r : r = [q EXCEPT !.at = "backorder"]
  OBVIOUS
<1>5. /\ Goes(c, r) /\ r.at = "backorder" /\ r.task = q.task /\ r.qty = q.qty
      /\ r.status = q.status /\ r.loaded = q.loaded
  BY <1>1, <1>4 DEF CreateDeliveryNote, Then
<1>6. notes' = [notes EXCEPT ![q.task] = NoteOf(q.qty)]
  <2>1. CASE q.status \in Noted
    <3>1. NoteOf(q.qty) = q.qty
      BY <1>2, <2>1 DEF Serial, ToldInv, Telling, Noted, NoteOf
    <3>. QED
      BY <1>1, <2>1, <3>1 DEF CreateDeliveryNote
  <2>2. CASE q.status \notin Noted
    <3>1. NoteOf(q.qty) = Nothing
      BY <1>2, <2>2 DEF Serial, ToldInv, Telling, Noted, NoteOf
    <3>2. notes[q.task] = Nothing
      BY <1>2, <1>3 DEF Serial, NoteInv
    <3>3. notes = [notes EXCEPT ![q.task] = notes[q.task]]
      BY DEF OrdersInv, TypeOK
    <3>4. notes' = notes
      BY <1>1, <2>2 DEF CreateDeliveryNote
    <3>. QED
      BY <3>1, <3>2, <3>3, <3>4
  <2>. QED
    BY <2>1, <2>2
<1>17. /\ \A x : /\ Within(x)' = Within(x) /\ Counts(x)' = Counts(x) /\ NoteOf(x)' = NoteOf(x)
                 /\ \A s : Got(x, s)' = Got(x, s)
       /\ \A s : Straight(s)' = Straight(s)
  BY <1>2 DEF Within, Counts, NoteOf, Got, Straight
<1>7. NoteInv(r)'
  <2>1. \A t \in Tasks : notes'[t] = NoteOf(shipped[t])
    BY <1>2, <1>3, <1>6 DEF Serial, NoteInv, OrdersInv, TypeOK, Recording
  <2>. QED
    BY <1>2, <1>5, <1>17, <2>1 DEF NoteInv, Recording
<1>8. \A f : Exists(f)' = Exists(f) /\ Over(f)' = Over(f) /\ Given(f)' = Given(f)
  BY <1>2 DEF Exists, Over, Given
<1>9. \A f : Settled(f, r)' = Settled(f, q)
  BY <1>2, <1>5, <1>8 DEF Settled, Recording, Telling
<1>10. \A s : Unsettled(r, s)' = Unsettled(q, s)
  BY <1>2, <1>5, <1>17 DEF Unsettled, Telling
<1>11. DraftInv(r)'
  BY <1>2, <1>5, <1>8 DEF Serial, DraftInv
<1>12. SizeInv'
  BY <1>2, <1>17 DEF Serial, SizeInv
<1>13. ToldInv(r)'
  BY <1>2, <1>5, <1>17 DEF Serial, ToldInv, Recording, Telling
<1>14. SumInv(r)'
  BY <1>2, <1>5 DEF Serial, SumInv, Shipped, Recording
<1>15. OwedInv(r)'
  BY <1>2, <1>5, <1>8, <1>9, <1>10, <1>17 DEF Serial, OwedInv, Fulfillable, Recording
<1>16. Serial(r)'
  BY <1>7, <1>11, <1>12, <1>13, <1>14, <1>15 DEF Serial
<1>. QED
  BY <1>5, <1>16, SerialGoes

(* What the order has not got is owed, once: by its first task.            *)
LEMMA CreateBackordersSerial ==
    ASSUME OrdersInv, NEW c \in Clients, Serial(req[c]), Alone(c), CreateBackorders(c)
    PROVE  SerialInv'
<1>1. PICK q : q = req[c]
  OBVIOUS
<1>2. /\ q.at = "backorder" /\ q.at \in After /\ Serial(q)
      /\ order' = order /\ expected' = expected /\ picked' = picked /\ edits' = edits
      /\ task' = task /\ shipped' = shipped /\ notes' = notes
  BY <1>1 DEF CreateBackorders, At, After, orderVars
<1>3. /\ q.task \in Tasks /\ q.qty \in Quantities /\ q.qty = shipped[q.task]
      /\ order.status # "draft" /\ Over(q.task) /\ Exists(q.task)
      /\ \A s \in Skus : /\ q.qty[s] \in Nat /\ picked[s] \in Nat /\ expected[s] \in Nat
      /\ \A f \in Tasks : Given(f) /\ f # q.task =>
           task[q.task].source # None /\ f = task[q.task].source[1]
  BY <1>1, <1>2, SerialAfter
<1>4. PICK r : r = [q EXCEPT !.at = "settle"]
  OBVIOUS
<1>5. /\ Goes(c, r) /\ r.at = "settle" /\ r.task = q.task /\ r.qty = q.qty
      /\ r.status = q.status /\ r.loaded = q.loaded
  BY <1>1, <1>4 DEF CreateBackorders, Then
<1>6. LeftOpen(q) = [s \in Skus |-> Left(expected[s], picked[s])]
  <2>1. /\ q.loaded.expected = expected
        /\ \A s \in Skus : q.loaded.picked[s] + Got(q.qty, s) = picked[s]
    BY <1>2 DEF Serial, ToldInv, Telling
  <2>3. q.loaded.picked \in [Skus -> Nat]
    BY <1>1, <1>2 DEF OrdersInv, ReqInv, Loaded
  <2>2. \A s \in Skus : LET left == q.loaded.expected[s] - (q.loaded.picked[s] + q.qty[s])
                        IN  (IF left > 0 THEN left ELSE 0) = Left(expected[s], picked[s])
    BY <1>3, <2>1, <2>3 DEF Left, Got
  <2>. QED
    BY <2>2 DEF LeftOpen
<1>7. q.status = IF ~Counts(q.qty) THEN ""
                 ELSE IF \A s \in Skus : picked[s] >= expected[s] THEN "completed" ELSE "partial"
  BY <1>2 DEF Serial, ToldInv, Telling
<1>8. \A t \in Tasks : t # q.task \/ ~Given(t) => remaining'[t] = remaining[t]
  <2>1. LeavesBackorders(q) => /\ remaining' = [remaining EXCEPT ![q.task] = LeftOpen(q)]
                               /\ task[q.task].source = None
    BY <1>1 DEF CreateBackorders, LeavesBackorders
  <2>2. ~LeavesBackorders(q) => remaining' = remaining
    BY <1>1 DEF CreateBackorders
  <2>. QED
    BY <1>3, <2>1, <2>2 DEF OrdersInv, TypeOK, Given
<1>9. ASSUME Given(q.task)
      PROVE  /\ picked = Nothing => remaining'[q.task] = Nothing
             /\ picked # Nothing =>
                  \A s \in Skus : remaining'[q.task][s] = Left(expected[s], picked[s])
  <2>1. /\ Counts(q.qty) <=> picked # Nothing
        /\ remaining[q.task] = Nothing /\ task[q.task].source = None
    <3>1. task[q.task].source = None /\ ~Settled(q.task, q)
      BY <1>2, <1>9 DEF Given, Settled, Telling
    <3>2. \A s \in Skus : picked[s] = Got(q.qty, s)
      BY <1>2, <3>1 DEF Serial, ToldInv, Telling
    <3>3. picked = [s \in Skus |-> picked[s]]
      BY DEF OrdersInv, TypeOK
    <3>4. Counts(q.qty) <=> picked # Nothing
      BY <1>3, <3>2, <3>3 DEF Counts, Got, Nothing
    <3>. QED
      BY <1>2, <1>3, <1>9, <3>1, <3>4 DEF Serial, OwedInv
  <2>2. CASE q.status = "partial"
    <3>1. LeavesBackorders(q) /\ picked # Nothing
      BY <1>7, <2>1, <2>2 DEF LeavesBackorders
    <3>2. remaining' = [remaining EXCEPT ![q.task] = LeftOpen(q)]
      BY <1>1, <3>1 DEF CreateBackorders
    <3>3. remaining'[q.task] = LeftOpen(q)
      BY <1>3, <3>2 DEF OrdersInv, TypeOK
    <3>. QED
      BY <1>6, <3>1, <3>3
  <2>3. CASE q.status # "partial"
    <3>1. remaining' = remaining
      BY <1>1, <2>3 DEF CreateBackorders, LeavesBackorders
    <3>2. picked # Nothing => \A s \in Skus : picked[s] >= expected[s]
      BY <1>7, <2>1, <2>3
    <3>3. picked # Nothing => \A s \in Skus : Left(expected[s], picked[s]) = 0
      BY <1>3, <3>2 DEF Left
    <3>. QED
      BY <2>1, <3>1, <3>3 DEF Nothing
  <2>. QED
    BY <2>2, <2>3
<1>10. \A f : Exists(f)' = Exists(f) /\ Over(f)' = Over(f) /\ Given(f)' = Given(f)
  BY <1>2 DEF Exists, Over, Given
<1>11. \A f : f # q.task => Settled(f, r)' = Settled(f, q)
  BY <1>2, <1>5, <1>10 DEF Settled
<1>12. Settled(q.task, r)'
  BY <1>3, <1>5, <1>10 DEF Settled, Recording, Telling
<1>21. /\ \A x : /\ Within(x)' = Within(x) /\ NoteOf(x)' = NoteOf(x)
                 /\ \A s : Got(x, s)' = Got(x, s)
       /\ \A s : Straight(s)' = Straight(s)
  BY <1>2 DEF Within, Counts, NoteOf, Got, Straight
<1>13. \A s : Unsettled(r, s)' = Unsettled(q, s)
  BY <1>2, <1>5, <1>21 DEF Unsettled, Telling, Settling
<1>14. DraftInv(r)'
  BY <1>2, <1>5, <1>10 DEF Serial, DraftInv
<1>15. SizeInv'
  <2>2. ASSUME NEW t \in Tasks PROVE Within(remaining'[t])
    <3>1. CASE t = q.task /\ Given(t)
      <4>1. \A s \in Skus : Left(expected[s], picked[s]) <= expected[s]
                            /\ Nothing[s] <= expected[s]
        BY <1>3 DEF Left, Nothing
      <4>. QED
        BY <1>9, <3>1, <4>1 DEF Within
    <3>2. CASE t # q.task \/ ~Given(t)
      BY <1>2, <1>8, <3>2 DEF Serial, SizeInv
    <3>. QED
      BY <3>1, <3>2
  <2>. QED
    BY <1>21, <2>2 DEF SizeInv
<1>16. NoteInv(r)'
  BY <1>2, <1>5, <1>21 DEF Serial, NoteInv, Recording
<1>17. ToldInv(r)'
  BY <1>5 DEF ToldInv, Recording, Telling
<1>18. SumInv(r)'
  BY <1>2, <1>5 DEF Serial, SumInv, Shipped, Recording
<1>19. OwedInv(r)'
  <2>1. \A b : Fulfillable(b, q) => Fulfillable(b, r)'
    BY <1>2, <1>11, <1>12 DEF Fulfillable
  <2>2. \A t \in Tasks : (task[t].source # None => Fulfillable(task[t].source, r))'
    BY <1>2, <2>1 DEF Serial, OwedInv
  <2>3. \A t, u \in Tasks : (Given(t) /\ Given(u) => t = u)'
    BY <1>2, <1>10 DEF Serial, OwedInv
  <2>4. ASSUME NEW f \in Tasks, Given(f)
        PROVE  /\ ~Over(f) => picked = Nothing
               /\ ~Settled(f, r)' \/ picked = Nothing => remaining'[f] = Nothing
               /\ Settled(f, r)' /\ picked # Nothing =>
                    \A s \in Skus : Straight(s) =>
                        remaining'[f][s] = Left(expected[s], picked[s] - Unsettled(q, s))
    <3>1. CASE f = q.task
      <4>1. \A s \in Skus : picked[s] - Unsettled(q, s) = picked[s]
        BY <1>3, <2>4, <3>1 DEF Unsettled, Given
      <4>. QED
        BY <1>3, <1>9, <1>12, <2>4, <3>1, <4>1
    <3>2. CASE f # q.task
      <4>1. remaining'[f] = remaining[f] /\ Settled(f, r)' = Settled(f, q)
        BY <1>8, <1>11, <3>2
      <4>. QED
        BY <1>2, <2>4, <4>1 DEF Serial, OwedInv
    <3>. QED
      BY <3>1, <3>2
  <2>5. \A f \in Tasks : (Given(f) =>
             /\ ~Over(f) \/ (r.at \in Recording /\ r.task = f) => picked = Nothing
             /\ ~Settled(f, r) \/ picked = Nothing => remaining[f] = Nothing
             /\ Settled(f, r) /\ picked # Nothing =>
                  \A s \in Skus : Straight(s) =>
                      remaining[f][s] = Left(expected[s], picked[s] - Unsettled(r, s)))'
    BY <1>2, <1>5, <1>10, <1>13, <1>21, <2>4 DEF Recording
  <2>6. r.at # "fulfill"
    BY <1>5
  <2>. QED
    BY <2>2, <2>3, <2>5, <2>6 DEF OwedInv
<1>20. Serial(r)'
  BY <1>14, <1>15, <1>16, <1>17, <1>18, <1>19 DEF Serial
<1>. QED
  BY <1>5, <1>20, SerialGoes

(* What the task shipped is owed no more.                                  *)
LEMMA UpdateFulfilledBackorderSerial ==
    ASSUME OrdersInv, NEW c \in Clients, Serial(req[c]), Alone(c), UpdateFulfilledBackorder(c)
    PROVE  SerialInv'
<1>0. Idle.at = "idle"
  BY DEF Idle
<1>1. PICK q : q = req[c]
  OBVIOUS
<1>2. /\ q.at = "reduce" /\ q.at \in After /\ Serial(q) /\ Goes(c, Idle)
      /\ order' = order /\ expected' = expected /\ picked' = picked /\ edits' = edits
      /\ task' = task /\ shipped' = shipped /\ notes' = notes
  BY <1>1 DEF UpdateFulfilledBackorder, At, After, orderVars
<1>3. PICK b : b = task[q.task].source
  OBVIOUS
<1>4. PICK new : new = Reduced(q.left, q.qty[b[2]])
  OBVIOUS
<1>5. remaining' = [remaining EXCEPT ![b[1]][b[2]] = new]
  BY <1>1, <1>3, <1>4 DEF UpdateFulfilledBackorder, Source
<1>6. b # None
  BY <1>1, <1>2, <1>3 DEF OrdersInv, ReqInv, At, Source
<1>7. /\ q.task \in Tasks /\ order.status # "draft"
      /\ \A s \in Skus : /\ q.qty[s] \in Nat /\ picked[s] \in Nat /\ expected[s] \in Nat
      /\ b[1] \in Tasks /\ b[2] \in Skus /\ Given(b[1]) /\ Fulfillable(b, q)
      /\ q.qty = shipped[q.task]
  BY <1>1, <1>2, <1>3, <1>6, SerialAfter
<1>8. /\ picked # Nothing /\ Settled(b[1], q)
      /\ \A s \in Skus : Straight(s) =>
           remaining[b[1]][s] = Left(expected[s], picked[s] - Got(q.qty, s))
  <2>1. picked # Nothing /\ Settled(b[1], q)
    BY <1>7 DEF Fulfillable
  <2>2. \A s \in Skus : Unsettled(q, s) = Got(q.qty, s)
    BY <1>2, <1>3, <1>6 DEF Unsettled, Settling
  <2>3. \A s \in Skus : Straight(s) =>
           remaining[b[1]][s] = Left(expected[s], picked[s] - Unsettled(q, s))
    BY <1>2, <1>7, <2>1 DEF Serial, OwedInv
  <2>. QED
    BY <2>1, <2>2, <2>3
<1>9. /\ \A t \in Tasks \ {b[1]} : remaining'[t] = remaining[t]
      /\ \A s \in Skus : remaining'[b[1]][s] = IF s = b[2] THEN new ELSE remaining[b[1]][s]
  BY <1>5, <1>7 DEF OrdersInv, TypeOK, Quantities
<1>10. /\ new \in Nat /\ new <= remaining[b[1]][b[2]]
       /\ Straight(b[2]) => new = Left(expected[b[2]], picked[b[2]])
  <2>1. q.left = remaining[b[1]][b[2]]
    BY <1>2, <1>3 DEF Serial, ToldInv
  <2>2. q.left \in Nat
    BY <1>7, <2>1 DEF OrdersInv, TypeOK, Quantities
  <2>3. new \in Nat /\ new <= remaining[b[1]][b[2]]
    BY <1>4, <1>7, <2>1, <2>2 DEF Reduced
  <2>4. ASSUME Straight(b[2]) PROVE new = Left(expected[b[2]], picked[b[2]])
    <3>1. q.left = Left(expected[b[2]], picked[b[2]] - Got(q.qty, b[2]))
      BY <1>7, <1>8, <2>1, <2>4
    <3>. QED
      BY <1>4, <1>7, <3>1 DEF Reduced, Left, Got
  <2>. QED
    BY <2>3, <2>4
<1>11. \A s \in Skus : Straight(s) => remaining'[b[1]][s] = Left(expected[s], picked[s])
  <2>. SUFFICES ASSUME NEW s \in Skus, Straight(s)
                PROVE  remaining'[b[1]][s] = Left(expected[s], picked[s])
    OBVIOUS
  <2>1. CASE s = b[2]
    BY <1>9, <1>10, <2>1
  <2>2. CASE s # b[2]
    <3>1. Got(q.qty, s) = 0 /\ picked[s] - Got(q.qty, s) = picked[s]
      BY <1>3, <1>6, <1>7, <2>2 DEF Straight, Got
    <3>. QED
      BY <1>8, <1>9, <2>2, <3>1
  <2>. QED
    BY <2>1, <2>2
<1>12. \A f : Exists(f)' = Exists(f) /\ Over(f)' = Over(f) /\ Given(f)' = Given(f)
  BY <1>2 DEF Exists, Over, Given
<1>13. \A f : Settled(f, Idle)' = Settled(f, q)
  BY <1>0, <1>2, <1>12 DEF Settled, Recording, Telling
<1>14. \A s : Unsettled(Idle, s)' = 0
  BY <1>0 DEF Unsettled, Telling, Settling
<1>15. DraftInv(Idle)'
  BY <1>0, <1>2, <1>12 DEF Serial, DraftInv
<1>22. /\ \A x : /\ Within(x)' = Within(x) /\ NoteOf(x)' = NoteOf(x)
       /\ \A s : Straight(s)' = Straight(s)
  BY <1>2 DEF Within, Counts, NoteOf, Straight
<1>16. SizeInv'
  <2>2. ASSUME NEW t \in Tasks PROVE Within(remaining'[t])
    <3>1. CASE t = b[1]
      <4>1. \A s \in Skus : remaining[t][s] \in Nat /\ remaining[t][s] <= expected[s]
        BY <1>2 DEF OrdersInv, TypeOK, Quantities, Serial, SizeInv, Within
      <4>. QED
        BY <1>7, <1>9, <1>10, <3>1, <4>1 DEF Within
    <3>2. CASE t # b[1]
      BY <1>2, <1>9, <3>2 DEF Serial, SizeInv
    <3>. QED
      BY <3>1, <3>2
  <2>. QED
    BY <1>22, <2>2 DEF SizeInv
<1>17. NoteInv(Idle)'
  BY <1>0, <1>2, <1>22 DEF Serial, NoteInv, Recording
<1>18. ToldInv(Idle)'
  BY <1>0 DEF ToldInv, Recording, Telling
<1>19. SumInv(Idle)'
  BY <1>0, <1>2 DEF Serial, SumInv, Shipped, Recording
<1>20. OwedInv(Idle)'
  <2>1. \A x : Fulfillable(x, q) => Fulfillable(x, Idle)'
    BY <1>2, <1>13 DEF Fulfillable
  <2>2. \A t \in Tasks : (task[t].source # None => Fulfillable(task[t].source, Idle))'
    BY <1>2, <2>1 DEF Serial, OwedInv
  <2>3. \A t, u \in Tasks : (Given(t) /\ Given(u) => t = u)'
    BY <1>2, <1>12 DEF Serial, OwedInv
  <2>4. \A f \in Tasks : Given(f) => f = b[1] /\ Over(f) /\ Settled(f, q)
    BY <1>2, <1>7, <1>8 DEF Serial, OwedInv, Settled
  <2>5. \A s \in Skus : picked[s] - 0 = picked[s]
    BY <1>7
  <2>6. \A f \in Tasks : (Given(f) =>
             /\ ~Over(f) \/ (Idle.at \in Recording /\ Idle.task = f) => picked = Nothing
             /\ ~Settled(f, Idle) \/ picked = Nothing => remaining[f] = Nothing
             /\ Settled(f, Idle) /\ picked # Nothing =>
                  \A s \in Skus : Straight(s) =>
                      remaining[f][s] = Left(expected[s], picked[s] - Unsettled(Idle, s)))'
    BY <1>0, <1>2, <1>8, <1>11, <1>12, <1>13, <1>14, <1>22, <2>4, <2>5 DEF Recording
  <2>. QED
    BY <1>0, <2>2, <2>3, <2>6 DEF OwedInv
<1>21. Serial(Idle)'
  BY <1>15, <1>16, <1>17, <1>18, <1>19, <1>20 DEF Serial
<1>. QED
  BY <1>0, <1>2, <1>21, SerialGoes

(* Requests that come one at a time and do not fail keep it.               *)
LEMMA NextSerial == OrdersInv /\ SerialInv /\ SerialNext => SerialInv'
<1>. SUFFICES ASSUME OrdersInv, SerialInv, SerialNext PROVE SerialInv'
  OBVIOUS
<1>1. ASSUME NEW c \in Clients, ~At(c, "idle") PROVE Alone(c) /\ Serial(req[c])
  BY <1>1 DEF SerialInv, Quiet, Alone
<1>2. Quiet => Serial(Idle)
  BY DEF SerialInv, Quiet
<1>3. Idle.at = "idle"
  BY DEF Idle
<1>4. ASSUME NEW c \in Clients, Commits(c) PROVE SerialInv'
  <2>1. ~At(c, "idle")
    BY <1>4 DEF Commits, CommitUpdate, CommitDelete, CommitSubmit, CommitCancel, CommitFulfill, At
  <2>2. Serial(Idle)'
    BY <1>1, <1>4, <2>1, CommitUpdateSerial, CommitDeleteSerial, CommitSubmitSerial,
       CommitCancelSerial, CommitFulfillSerial DEF Commits
  <2>3. Goes(c, Idle)
    BY <1>4 DEF Commits, CommitUpdate, CommitDelete, CommitSubmit, CommitCancel, CommitFulfill
  <2>. QED
    BY <1>1, <1>3, <2>1, <2>2, <2>3, SerialGoes
<1>5. ASSUME NEW c \in Clients, AfterPicking(c) PROVE SerialInv'
  <2>1. ~At(c, "idle")
    BY <1>5 DEF AfterPicking, ReadPickedQty, UpdatePickedQty, CreateDeliveryNote, CreateBackorders,
                ReadBackorder, UpdateFulfilledBackorder, At
  <2>. QED
    BY <1>1, <1>5, <2>1, ReadPickedQtySerial, UpdatePickedQtySerial, CreateDeliveryNoteSerial,
       CreateBackordersSerial, ReadBackorderSerial, UpdateFulfilledBackorderSerial DEF AfterPicking
<1>6. ASSUME NEW t \in Tasks, TaskRequests(t) PROVE SerialInv'
  BY <1>6, TaskRequestsSerial
<1>7. ASSUME Quiet, NEW c \in Clients, OrderRequests(c) \/ \E b \in pending : BeginFulfill(c, b)
      PROVE  SerialInv'
  BY <1>2, <1>7, BeginSerial
<1>8. ASSUME Quiet, NEW c \in Clients, NEW t \in Tasks, CompletePickingTask(c, t) PROVE SerialInv'
  BY <1>2, <1>8, CompleteSerial
<1>. QED
  BY <1>4, <1>5, <1>6, <1>7, <1>8 DEF SerialNext

(* A step that changes nothing.                                            *)
LEMMA SerialStutters ==
    ASSUME SerialInv, UNCHANGED vars
    PROVE  SerialInv'
<1>1. reads /\ req' = req
  BY DEF vars, orderVars, reads
<1>2. CASE Quiet /\ Serial(Idle)
  <2>1. Serial(Idle)'
    BY <1>1, <1>2, SerialOfRows
  <2>. QED
    BY <1>1, <1>2, <2>1 DEF SerialInv, Quiet, At
<1>3. ASSUME NEW c \in Clients, ~At(c, "idle"), Alone(c), Serial(req[c]) PROVE SerialInv'
  <2>1. PICK r : r = req[c]
    OBVIOUS
  <2>2. Serial(r)'
    BY <1>1, <1>3, <2>1, SerialOfRows
  <2>3. r = req'[c] /\ ~At(c, "idle")' /\ Alone(c)'
    BY <1>1, <1>3, <2>1 DEF At, Alone
  <2>4. Serial(req[c])'
    BY <2>2, <2>3
  <2>. QED
    BY <2>3, <2>4 DEF SerialInv
<1>. QED
  BY <1>2, <1>3 DEF SerialInv

(* Once the request has ended everything has been told.                    *)
LEMMA SerialAddsUp ==
    ASSUME OrdersInv, SerialInv
    PROVE  DeliveryAgrees /\ OwedExactly
<1>. SUFFICES ASSUME Quiet
              PROVE  /\ \A t \in Tasks : notes[t] = NoteOf(shipped[t])
                     /\ \A s \in Skus : picked[s] = IF expected[s] > 0 THEN Shipped(s) ELSE 0
                     /\ picked # Nothing =>
                          \A s \in Skus : Straight(s) => Owed(s) = Left(expected[s], picked[s])
  BY DEF DeliveryAgrees, OwedExactly, Left, NoteOf
<1>1. Serial(Idle) /\ Idle.at = "idle"
  BY DEF SerialInv, Quiet, Idle
<1>2. \A s \in Skus : /\ picked[s] \in Nat /\ expected[s] \in Nat
                      /\ picked[s] = IF expected[s] > 0 THEN Shipped(s) ELSE 0
  BY <1>1, OrdersAssumption DEF OrdersInv, TypeOK, Quantities, Serial, SumInv, Recording
<1>3. \A t \in Tasks : notes[t] = NoteOf(shipped[t])
  BY <1>1 DEF Serial, NoteInv, Recording
<1>4. ASSUME picked # Nothing, NEW s \in Skus, Straight(s)
      PROVE  Owed(s) = Left(expected[s], picked[s])
  <2>1. PICK t \in Tasks : Over(t)
    <3>1. SUFFICES ASSUME \A t \in Tasks : ~Over(t) PROVE FALSE
      OBVIOUS
    <3>2. \A t \in Tasks, u \in Skus : shipped[t][u] = 0
      BY <3>1 DEF OrdersInv, TaskInv, Nothing
    <3>3. \A u \in Skus : picked[u] = 0
      BY <1>2, <3>2, SumOfZeros DEF Shipped
    <3>4. picked = Nothing
      BY <3>3 DEF OrdersInv, TypeOK, Nothing
    <3>. QED
      BY <1>4, <3>4
  <2>2. PICK f \in Tasks : Given(f)
    BY <2>1 DEF OrdersInv, TaskInv, Backorder, Given, Over, Exists, Terminal
  <2>3. Settled(f, Idle)
    BY <1>1, <1>4, <2>2 DEF Serial, OwedInv, Settled, Recording, Telling
  <2>4. remaining[f][s] = Left(expected[s], picked[s])
    <3>1. remaining[f][s] = Left(expected[s], picked[s] - Unsettled(Idle, s))
      BY <1>1, <1>4, <2>2, <2>3 DEF Serial, OwedInv
    <3>2. picked[s] - Unsettled(Idle, s) = picked[s]
      BY <1>1, <1>2 DEF Unsettled, Telling, Settling
    <3>. QED
      BY <3>1, <3>2
  <2>5. \A u \in Tasks \ {f} : remaining[u][s] = 0
    <3>1. \A u \in Tasks \ {f} : ~Given(u)
      BY <1>1, <2>2 DEF Serial, OwedInv
    <3>2. \A u \in Tasks \ {f} : remaining[u] = Nothing
      BY <3>1 DEF OrdersInv, TaskInv, Given
    <3>. QED
      BY <3>2 DEF Nothing
  <2>6. \A u \in Tasks : remaining[u][s] \in Nat
    BY OrdersAssumption DEF OrdersInv, TypeOK, Quantities
  <2>7. SumOver(Tasks, remaining, s) = SumOver(Tasks \ {f}, remaining, s) + remaining[f][s]
    BY <2>6, SumRemove, OrdersAssumption
  <2>8. SumOver(Tasks \ {f}, remaining, s) = 0
    BY <2>5, SumOfZeros
  <2>. QED
    BY <2>4, <2>6, <2>7, <2>8 DEF Owed
<1>. QED
  BY <1>2, <1>3, <1>4

(* One request at a time and none failing, lines completed one by one and  *)
(* lines written by hand included: the inductive invariant.                *)
THEOREM SerialInvariant == SerialSpec => [](OrdersInv /\ SerialInv)
<1>1. Init => OrdersInv /\ SerialInv
  BY InitOrdersInv, InitSerial
<1>2. (OrdersInv /\ SerialInv) /\ [SerialNext]_vars => (OrdersInv /\ SerialInv)'
  <2>. SUFFICES ASSUME OrdersInv, SerialInv, [SerialNext]_vars PROVE OrdersInv' /\ SerialInv'
    OBVIOUS
  <2>1. SerialNext => Next
    BY DEF SerialNext, Next, Progress
  <2>2. OrdersInv'
    BY <2>1, NextOrdersInv
  <2>3. SerialInv'
    BY NextSerial, SerialStutters
  <2>. QED
    BY <2>2, <2>3
<1>. QED
  BY <1>1, <1>2, PTL DEF SerialSpec

(* One request at a time and none failing: whenever none is under way the  *)
(* note of each task lists what its completion shipped, if any of it was   *)
(* ordered, and the order has recorded all that was ordered of what        *)
(* completions shipped.  What left line by line is recorded nowhere.       *)
THEOREM NotesAndOrderAgree == SerialSpec => []DeliveryAgrees
<1>1. OrdersInv /\ SerialInv => DeliveryAgrees
  BY SerialAddsUp
<1>. QED
  BY <1>1, SerialInvariant, PTL

(* ... and what backorders still owe of an article is exactly what the     *)
(* order lacks of it, whatever the tasks' lines were made to say, unless a *)
(* task made for another article's backorder shipped some.                 *)
THEOREM BackordersOweTheRest == SerialSpec => []OwedExactly
<1>1. OrdersInv /\ SerialInv => OwedExactly
  BY SerialAddsUp
<1>. QED
  BY <1>1, SerialInvariant, PTL

(* The same of the model TLC checks, where requests also race: what is     *)
(* promised of orders nobody races for is kept while nobody does.          *)
THEOREM SerialOrdersDoAddUp == MCSpec => []SerialOrdersAddUp
<1>. DEFINE MCInv == OrdersInv /\ (serial => SerialInv)
<1>1. MCInit => MCInv
  BY InitOrdersInv, InitSerial DEF MCInit
<1>2. MCInv /\ [MCNext]_<<vars, serial>> => MCInv'
  <2>. SUFFICES ASSUME OrdersInv, serial => SerialInv, [MCNext]_<<vars, serial>>
                PROVE  OrdersInv' /\ (serial' => SerialInv')
    OBVIOUS
  <2>1. SerialNext => Next
    BY DEF SerialNext, Next, Progress
  <2>2. [Next]_vars /\ serial' = serial
    BY <2>1 DEF MCNext
  <2>3. OrdersInv'
    BY <2>2, NextOrdersInv
  <2>4. serial' => SerialInv'
    BY <2>2, NextSerial, SerialStutters DEF MCNext
  <2>. QED
    BY <2>3, <2>4
<1>3. MCInv => SerialOrdersAddUp
  BY SerialAddsUp DEF SerialOrdersAddUp
<1>. QED
  BY <1>1, <1>2, <1>3, PTL DEF MCSpec
=============================================================================

-------------------------- MODULE PickingRacesProofs --------------------------
(***************************************************************************)
(* However the transactions of the picking handlers interleave, for any    *)
(* number of them, of tasks and of inventory rows and any lists of items:  *)
(* no UPDATE of inventory is lost, and no reservation exceeds the stock it *)
(* was made from.  Where transactions about one task exclude each other,   *)
(* what they commit is what the handlers of PickingTasks do one at a time. *)
(***************************************************************************)
EXTENDS MCPickingRaces, StockSumsProofs, SequenceTheorems

-----------------------------------------------------------------------------
(* The inductive invariant.  Whoever has written a row has it locked, so   *)
(* its committed values are still those the UPDATE saw: what is written    *)
(* differs from them by what the transaction shipped, and reserves more    *)
(* than they do only within the stock.                                     *)

Ops == {"start", "cancel", "edit", "complete", "cleanup"}
Stmt == [kind : {"reserve", "release", "ship"}, row : Rows, n : Nat]
Written(c) == DOMAIN tx[c].rows

(* The values w a transaction has given row r.                             *)
WriteOK(c, r, w) ==
    /\ r \in Rows /\ w \in [quantity : Int, reserved : Nat]
    /\ w.quantity <= quantity[r]
    /\ tx[c].op # "complete" => w.quantity = quantity[r]
    /\ tx[c].op = "complete" => w.reserved <= reserved[r]
    /\ w.reserved > reserved[r] => w.reserved <= w.quantity

(* A completion ships, and nothing else does.                              *)
TodoOK(op, todo) ==
    /\ todo \in Seq(Stmt)
    /\ \A i \in 1 .. Len(todo) : todo[i].kind = "ship" <=> op = "complete"

Fields == {"op", "tasks", "plan", "todo", "rows"}

TxInv(c) ==
    /\ tx[c] = [f \in Fields |-> tx[c][f]]
    /\ tx[c].op \in Ops \cup {"none"} /\ tx[c].tasks \subseteq Tasks
    /\ tx[c].plan \in Plans \cup {<<>>}
    /\ TodoOK(tx[c].op, tx[c].todo)
    /\ \A r \in Written(c) : WriteOK(c, r, tx[c].rows[r])

RacesInv ==
    /\ TypeOK /\ tx = [c \in Clients |-> tx[c]]
    /\ \A c \in Clients : TxInv(c)
    /\ \A c, d \in Clients : c # d => Written(c) \cap Written(d) = {}
    /\ NoLostUpdate

(* Statements are of the rows and quantities of the items.                 *)
LEMMA PlansAreLists ==
    ASSUME NEW plan \in Plans \cup {<<>>}
    PROVE  /\ plan \in Seq(Item) /\ Len(plan) \in Nat /\ DOMAIN plan = 1 .. Len(plan)
           /\ \A i \in DOMAIN plan : plan[i].row \in Rows /\ plan[i].n \in Nat
<1>1. plan \in Seq(Item)
  BY RacesAssumption, EmptySeq
<1>2. Len(plan) \in Nat /\ DOMAIN plan = 1 .. Len(plan) /\ \A i \in 1 .. Len(plan) : plan[i] \in Item
  BY <1>1, LenProperties, ElementOfSeq
<1>3. \A x \in Item : x.row \in Rows /\ x.n \in Nat
  BY RacesAssumption DEF Item
<1>. QED
  BY <1>1, <1>2, <1>3

LEMMA StatementsOfItems ==
    ASSUME NEW plan \in Plans \cup {<<>>}, NEW kind \in {"reserve", "release", "ship"}
    PROVE  /\ Statements(kind, plan) \in Seq(Stmt)
           /\ Len(Statements(kind, plan)) = Len(plan)
           /\ \A i \in 1 .. Len(plan) : /\ Statements(kind, plan)[i].kind = kind
                                        /\ Statements(kind, plan)[i].row = plan[i].row
                                        /\ Statements(kind, plan)[i].n = plan[i].n
<1>1. Len(plan) \in Nat /\ DOMAIN plan = 1 .. Len(plan)
  BY PlansAreLists
<1>2. \A i \in 1 .. Len(plan) : [kind |-> kind, row |-> plan[i].row, n |-> plan[i].n] \in Stmt
  BY PlansAreLists, <1>1 DEF Stmt
<1>3. Statements(kind, plan) = [i \in 1 .. Len(plan) |->
          [kind |-> kind, row |-> plan[i].row, n |-> plan[i].n]]
  BY <1>1 DEF Statements
<1>4. Statements(kind, plan) \in [1 .. Len(plan) -> Stmt]
  BY <1>2, <1>3
<1>5. Statements(kind, plan) \in Seq(Stmt)
  BY <1>1, <1>4, SeqDef
<1>6. Len(Statements(kind, plan)) = Len(plan)
  BY <1>1, <1>4, <1>5, LenProperties
<1>7. ASSUME NEW i \in 1 .. Len(plan)
      PROVE  /\ Statements(kind, plan)[i].kind = kind
             /\ Statements(kind, plan)[i].row = plan[i].row
             /\ Statements(kind, plan)[i].n = plan[i].n
  <2>1. PICK x : x = [kind |-> kind, row |-> plan[i].row, n |-> plan[i].n]
    OBVIOUS
  <2>2. x.kind = kind /\ x.row = plan[i].row /\ x.n = plan[i].n /\ Statements(kind, plan)[i] = x
    BY <1>3, <2>1
  <2>. QED
    BY <2>2
<1>. QED
  BY <1>5, <1>6, <1>7

(* What a list allocates on a row is a quantity.                           *)
LEMMA AllocationType ==
    ASSUME NEW plan \in Plans \cup {<<>>}, NEW S \in SUBSET DOMAIN plan
    PROVE  /\ IsFiniteSet(S) /\ SumOver(S, plan, "n") \in Nat
           /\ AllocationOf(plan) \in [Rows -> Nat]
<1>0. \A x : x["n"] = x.n
  OBVIOUS
<1>1. IsFiniteSet(DOMAIN plan)
  BY PlansAreLists, FS_Interval
<1>2. \A T \in SUBSET DOMAIN plan : IsFiniteSet(T) /\ SumOver(T, plan, "n") \in Nat
  <2>. SUFFICES ASSUME NEW T \in SUBSET DOMAIN plan
                PROVE  IsFiniteSet(T) /\ SumOver(T, plan, "n") \in Nat
    OBVIOUS
  <2>1. IsFiniteSet(T)
    BY <1>1, FS_Subset
  <2>2. \A i \in T : plan[i]["n"] \in Nat
    BY <1>0, PlansAreLists
  <2>. QED
    BY <2>1, <2>2, SumType
<1>. QED
  BY <1>2 DEF AllocationOf

-----------------------------------------------------------------------------
(* A step that changes one transaction and commits nothing.                *)
LEMMA OneTransaction ==
    ASSUME RacesInv, NEW c \in Clients, NEW x, tx' = [tx EXCEPT ![c] = x], UNCHANGED committed,
           TxInv(c)', \A d \in Clients \ {c} : DOMAIN x.rows \cap Written(d) = {}
    PROVE  RacesInv'
<1>1. /\ tx' = [e \in Clients |-> tx'[e]] /\ tx'[c] = x
      /\ \A d \in Clients \ {c} : tx'[d] = tx[d]
  BY DEF RacesInv
<1>2. UNCHANGED <<quantity, reserved, status, items, age, shipped>>
  BY DEF committed
<1>3. \A d \in Clients : TxInv(d)'
  <2>1. ASSUME NEW d \in Clients \ {c} PROVE TxInv(d)'
    <3>1. TxInv(d) /\ tx'[d] = tx[d]
      BY <1>1 DEF RacesInv
    <3>2. quantity' = quantity /\ reserved' = reserved
      BY <1>2
    <3>3. \A r \in DOMAIN tx[d].rows : WriteOK(d, r, tx[d].rows[r])
      BY <3>1 DEF TxInv, Written
    <3>4. \A r \in DOMAIN tx[d].rows : WriteOK(d, r, tx[d].rows[r])'
      BY <3>1, <3>2, <3>3 DEF WriteOK
    <3>. QED
      BY <3>1, <3>4 DEF TxInv, Written, TodoOK
  <2>. QED
    BY <2>1
<1>4. TypeOK'
  <2>1. \A d \in Clients : /\ tx'[d].op \in {"none", "start", "cancel", "edit", "complete", "cleanup"}
                           /\ tx'[d].tasks \subseteq Tasks
                           /\ \A r \in DOMAIN tx'[d].rows : r \in Rows /\ tx'[d].rows[r].reserved \in Nat
    BY <1>3 DEF TxInv, Written, WriteOK, Ops
  <2>. QED
    BY <1>2, <2>1 DEF RacesInv, TypeOK
<1>5. NoLostUpdate'
  BY <1>2 DEF RacesInv, NoLostUpdate
<1>6. \A d, e \in Clients : d # e => (Written(d) \cap Written(e))' = {}
  BY <1>1 DEF RacesInv, Written
<1>. QED
  BY <1>1, <1>3, <1>4, <1>5, <1>6 DEF RacesInv

LEMMA BeginKeeps ==
    ASSUME RacesInv, NEW c \in Clients, NEW op \in Ops, NEW tasks \in SUBSET Tasks,
           NEW plan \in Plans \cup {<<>>}, NEW todo, TodoOK(op, todo), Begin(c, op, tasks, plan, todo)
    PROVE  RacesInv'
<1>1. PICK x : x = [op |-> op, tasks |-> tasks, plan |-> plan, todo |-> todo, rows |-> <<>>]
  OBVIOUS
<1>2. /\ x.op = op /\ x.tasks = tasks /\ x.plan = plan /\ x.todo = todo /\ x.rows = <<>>
      /\ DOMAIN x.rows = {}
  BY <1>1
<1>3. tx' = [tx EXCEPT ![c] = x] /\ UNCHANGED committed
  BY <1>1, Zenon DEF Begin
<1>4. tx'[c] = x
  BY <1>3 DEF RacesInv
<1>5. TxInv(c)'
  <2>1. TodoOK(tx'[c].op, tx'[c].todo)
    BY <1>2, <1>4
  <2>2. x = [f \in Fields |-> x[f]]
    BY <1>1 DEF Fields
  <2>. QED
    BY <1>2, <1>4, <2>1, <2>2 DEF TxInv, Written, TodoOK
<1>6. \A d \in Clients \ {c} : DOMAIN x.rows \cap Written(d) = {}
  BY <1>2
<1>. QED
  BY <1>3, <1>5, <1>6, OneTransaction

LEMMA InitRaces == ASSUME Init PROVE RacesInv
<1>1. \A c \in Clients : tx[c] = NoTx
  BY DEF Init
<1>2. /\ NoTx.op = "none" /\ NoTx.tasks = {} /\ NoTx.plan = <<>> /\ NoTx.todo = <<>>
      /\ DOMAIN NoTx.rows = {}
  BY DEF NoTx
<1>3. TodoOK("none", <<>>)
  BY EmptySeq DEF TodoOK
<1>4. \A c \in Clients : TxInv(c)
  <2>1. NoTx = [f \in Fields |-> NoTx[f]]
    BY DEF NoTx, Fields
  <2>. QED
    BY <1>1, <1>2, <1>3, <2>1 DEF TxInv, Written
<1>5. NoLostUpdate
  <2>1. ASSUME NEW r \in Rows PROVE SumOver(Tasks, shipped, r) = 0
    <3>1. \A t \in Tasks : shipped[t][r] = 0
      BY DEF Init
    <3>. QED
      BY <3>1, SumOfZeros
  <2>2. \A r \in Rows : quantity[r] \in Nat /\ quantity[r] = InitialStock[r]
    BY RacesAssumption DEF Init
  <2>. QED
    BY <2>1, <2>2 DEF NoLostUpdate
<1>6. TypeOK
  <2>1. \A c \in Clients : /\ tx[c].op = "none" /\ tx[c].tasks = {} /\ DOMAIN tx[c].rows = {}
    BY <1>1, <1>2
  <2>. QED
    BY <2>1, RacesAssumption DEF Init, TypeOK
<1>7. \A c, d \in Clients : Written(c) \cap Written(d) = {}
  BY <1>1, <1>2 DEF Written
<1>8. tx = [c \in Clients |-> tx[c]]
  BY DEF Init
<1>. QED
  BY <1>4, <1>5, <1>6, <1>7, <1>8 DEF RacesInv

-----------------------------------------------------------------------------
(* What a transaction begins with.                                         *)
LEMMA PlainStatements ==
    ASSUME NEW plan \in Plans \cup {<<>>}, NEW kind \in {"reserve", "release", "ship"},
           NEW op, kind = "ship" <=> op = "complete"
    PROVE  TodoOK(op, Statements(kind, plan))
<1>1. Len(plan) \in Nat
  BY PlansAreLists
<1>2. \A i \in 1 .. Len(plan) : Statements(kind, plan)[i].kind = kind
  BY StatementsOfItems
<1>3. Statements(kind, plan) \in Seq(Stmt) /\ Len(Statements(kind, plan)) = Len(plan)
  BY StatementsOfItems
<1>4. \A i \in 1 .. Len(Statements(kind, plan)) :
          Statements(kind, plan)[i].kind = "ship" <=> op = "complete"
  BY <1>2, <1>3
<1>. QED
  BY <1>3, <1>4, Zenon DEF TodoOK

LEMMA NoStatements == ASSUME NEW op PROVE TodoOK(op, <<>>)
BY EmptySeq DEF TodoOK

LEMMA MoreStatements ==
    ASSUME NEW op, NEW s, NEW t, TodoOK(op, s), TodoOK(op, t)
    PROVE  TodoOK(op, s \o t)
<1>1. s \in Seq(Stmt) /\ t \in Seq(Stmt)
  BY DEF TodoOK
<1>2. Len(s) \in Nat /\ Len(t) \in Nat
  BY <1>1, LenProperties
<1>3. /\ s \o t \in Seq(Stmt) /\ Len(s \o t) = Len(s) + Len(t)
      /\ \A i \in 1 .. Len(s) + Len(t) : (s \o t)[i] = IF i <= Len(s) THEN s[i] ELSE t[i - Len(s)]
  BY <1>1, ConcatProperties
<1>4. ASSUME NEW i \in 1 .. Len(s) + Len(t) PROVE (s \o t)[i].kind = "ship" <=> op = "complete"
  <2>1. CASE i <= Len(s)
    BY <1>2, <1>3, <2>1 DEF TodoOK
  <2>2. CASE ~ i <= Len(s)
    <3>1. i - Len(s) \in 1 .. Len(t) /\ (s \o t)[i] = t[i - Len(s)]
      BY <1>2, <1>3, <2>2
    <3>. QED
      BY <3>1 DEF TodoOK
  <2>. QED
    BY <2>1, <2>2
<1>. QED
  BY <1>3, <1>4 DEF TodoOK

(* The sums of the clean-up are quantities, and it releases each once.     *)
CleanupSums == [r \in Rows |-> SumOver(StaleInProgress, Allocations, r)]

LEMMA SumsOfCleanup ==
    ASSUME TypeOK
    PROVE  CleanupSums \in [Rows -> Nat]
<1>1. IsFiniteSet(StaleInProgress)
  BY RacesAssumption, FS_Subset DEF StaleInProgress, InProgress
<1>2. ASSUME NEW r \in Rows PROVE SumOver(StaleInProgress, Allocations, r) \in Nat
  <2>1. ASSUME NEW t \in StaleInProgress PROVE Allocations[t][r] \in Nat
    <3>1. t \in Tasks /\ items[t] \in Plans \cup {<<>>}
      BY DEF StaleInProgress, InProgress, TypeOK
    <3>2. AllocationOf(items[t]) \in [Rows -> Nat]
      BY <3>1, AllocationType
    <3>. QED
      BY <3>1, <3>2 DEF Allocations
  <2>. QED
    BY <1>1, <2>1, SumType
<1>. QED
  BY <1>2 DEF CleanupSums

LEMMA CleanupStatements ==
    ASSUME TypeOK, NEW order \in SetToSeqs({r \in Rows : CleanupSums[r] > 0})
    PROVE  TodoOK("cleanup", [i \in DOMAIN order |->
               [kind |-> "release", row |-> order[i], n |-> CleanupSums[order[i]]]])
<1>. DEFINE Sum == CleanupSums
            St(i) == [kind |-> "release", row |-> order[i], n |-> Sum[order[i]]]
            todo == [i \in DOMAIN order |-> St(i)]
            S == {r \in Rows : Sum[r] > 0}
<1>2. Sum \in [Rows -> Nat]
  BY SumsOfCleanup
<1>3. IsFiniteSet(S) /\ Cardinality(S) \in Nat
  BY RacesAssumption, FS_Subset, FS_CardinalityType
<1>4. order \in [1 .. Cardinality(S) -> S] /\ DOMAIN order = 1 .. Cardinality(S)
  BY DEF SetToSeqs
<1>5. \A i \in DOMAIN order : order[i] \in Rows /\ Sum[order[i]] \in Nat
  BY <1>2, <1>4
<1>6. \A i \in DOMAIN order : St(i) \in Stmt /\ St(i).kind = "release"
  <2>. HIDE DEF Sum
  <2>. QED
    BY <1>5 DEF Stmt
<1>7. todo \in [1 .. Cardinality(S) -> Stmt] /\ \A i \in 1 .. Cardinality(S) : todo[i].kind = "release"
  <2>. HIDE DEF St
  <2>. QED
    BY <1>4, <1>6
<1>8. todo \in Seq(Stmt)
  <2>. HIDE DEF todo, S
  <2>. QED
    BY <1>3, <1>7, SeqDef
<1>9. DOMAIN todo = 1 .. Len(todo) /\ DOMAIN todo = 1 .. Cardinality(S)
  <2>1. DOMAIN todo = 1 .. Cardinality(S)
    BY <1>4
  <2>. HIDE DEF todo, S
  <2>. QED
    BY <1>8, <2>1, LenProperties
<1>10. TodoOK("cleanup", todo)
  <2>. HIDE DEF todo, S
  <2>. QED
    BY <1>7, <1>8, <1>9 DEF TodoOK
<1>. QED
  BY <1>10

(* The requests that begin.                                                *)
LEMMA BeginOnKeeps ==
    ASSUME RacesInv, NEW c \in Clients, NEW t \in Tasks, BeginOn(c, t)
    PROVE  RacesInv'
<1>1. items[t] \in Plans \cup {<<>>} /\ {t} \in SUBSET Tasks /\ <<>> \in Plans \cup {<<>>}
  BY DEF RacesInv, TypeOK
<1>2. CASE BeginStart(c, t)
  <2>1. TodoOK("start", Statements("reserve", items[t]))
    BY <1>1, PlainStatements
  <2>2. Begin(c, "start", {t}, <<>>, Statements("reserve", items[t]))
    BY <1>2 DEF BeginStart
  <2>3. PICK todo : todo = Statements("reserve", items[t])
    OBVIOUS
  <2>. QED
    BY <1>1, <2>1, <2>2, BeginKeeps, Zenon DEF Ops
<1>3. CASE BeginCancel(c, t)
  <2>1. PICK todo : todo = IF status[t] = "in_progress" THEN Statements("release", items[t]) ELSE <<>>
    OBVIOUS
  <2>2. TodoOK("cancel", Statements("release", items[t])) /\ TodoOK("cancel", <<>>)
    BY <1>1, PlainStatements, NoStatements
  <2>3. TodoOK("cancel", todo)
    BY <2>1, <2>2
  <2>4. Begin(c, "cancel", {t}, <<>>, todo)
    BY <1>3, <2>1 DEF BeginCancel
  <2>. QED
    BY <1>1, <2>3, <2>4, BeginKeeps DEF Ops
<1>4. ASSUME NEW plan \in Plans, BeginEdit(c, t, plan) PROVE RacesInv'
  <2>1. PICK todo : todo = IF status[t] = "in_progress"
                           THEN Statements("release", items[t]) \o Statements("reserve", plan)
                           ELSE <<>>
    OBVIOUS
  <2>2. TodoOK("edit", Statements("release", items[t])) /\ TodoOK("edit", Statements("reserve", plan))
    BY <1>1, PlainStatements
  <2>3. TodoOK("edit", Statements("release", items[t]) \o Statements("reserve", plan))
    BY <2>2, MoreStatements
  <2>4. TodoOK("edit", todo)
    BY <2>1, <2>3, NoStatements
  <2>5. Begin(c, "edit", {t}, plan, todo)
    BY <1>4, <2>1 DEF BeginEdit
  <2>. QED
    BY <1>1, <2>4, <2>5, BeginKeeps DEF Ops
<1>5. CASE BeginComplete(c, t)
  <2>1. TodoOK("complete", Statements("ship", items[t]))
    BY <1>1, PlainStatements
  <2>2. Begin(c, "complete", {t}, <<>>, Statements("ship", items[t]))
    BY <1>5 DEF BeginComplete
  <2>. QED
    BY <1>1, <2>1, <2>2, BeginKeeps, Zenon DEF Ops
<1>. QED
  BY <1>2, <1>3, <1>4, <1>5 DEF BeginOn

LEMMA CleanupBegins ==
    ASSUME RacesInv, NEW c \in Clients, BeginCleanup(c)
    PROVE  RacesInv'
<1>1. PICK order \in SetToSeqs({r \in Rows : CleanupSums[r] > 0}) :
          Begin(c, "cleanup", Stale, <<>>, [i \in DOMAIN order |->
               [kind |-> "release", row |-> order[i], n |-> CleanupSums[order[i]]]])
  BY DEF BeginCleanup, CleanupSums
<1>2. PICK todo : todo = [i \in DOMAIN order |->
               [kind |-> "release", row |-> order[i], n |-> CleanupSums[order[i]]]]
  OBVIOUS
<1>3. TodoOK("cleanup", todo)
  BY <1>2, CleanupStatements DEF RacesInv
<1>4. Begin(c, "cleanup", Stale, <<>>, todo)
  BY <1>1, <1>2
<1>5. Stale \in SUBSET Tasks /\ <<>> \in Plans \cup {<<>>} /\ "cleanup" \in Ops
  BY DEF Stale, StaleInProgress, StaleWaiting, InProgress, Ops
<1>. QED
  BY <1>3, <1>4, <1>5, BeginKeeps

-----------------------------------------------------------------------------
(* An UPDATE of inventory.  The row it sees is the committed one or the    *)
(* transaction's own, and no other transaction has written it.             *)
LEMMA RowIsWritten ==
    ASSUME RacesInv, NEW c \in Clients, NEW r \in Rows
    PROVE  WriteOK(c, r, Row(c, r))
<1>1. CASE r \in Written(c)
  BY <1>1 DEF RacesInv, TxInv, Written, Row
<1>2. CASE r \notin Written(c)
  <2>1. PICK w : w = [quantity |-> quantity[r], reserved |-> reserved[r]]
    OBVIOUS
  <2>2. w.quantity = quantity[r] /\ w.reserved = reserved[r]
    BY <2>1
  <2>3. Row(c, r) = w
    BY <1>2, <2>1 DEF Row, Written
  <2>4. quantity[r] \in Int /\ reserved[r] \in Nat
    BY DEF RacesInv, TypeOK
  <2>5. WriteOK(c, r, w)
    <3>1. w \in [quantity : Int, reserved : Nat]
      BY <2>1, <2>4
    <3>. QED
      BY <2>2, <2>4, <3>1 DEF WriteOK
  <2>. QED
    BY <2>3, <2>5
<1>. QED
  BY <1>1, <1>2

LEMMA UpdateKeeps ==
    ASSUME NEW c, NEW r, NEW w, WriteOK(c, r, w), quantity[r] \in Int, reserved[r] \in Nat,
           NEW s \in Stmt, s.kind = "ship" <=> tx[c].op = "complete", HasStock(w, s)
    PROVE  WriteOK(c, r, Updated(w, s))
<1>1. s.n \in Nat /\ s.kind \in {"reserve", "release", "ship"}
  BY DEF Stmt
<1>2. w \in [quantity : Int, reserved : Nat] /\ w.quantity \in Int /\ w.reserved \in Nat
  BY DEF WriteOK
<1>3. Released(w, s.n) \in Nat /\ Released(w, s.n) <= w.reserved
  BY <1>1, <1>2 DEF Released
<1>4. CASE s.kind = "reserve"
  <2>1. PICK u : u = [w EXCEPT !.reserved = @ + s.n]
    OBVIOUS
  <2>2. Updated(w, s) = u
    BY <1>4, <2>1 DEF Updated
  <2>3. /\ u.reserved = w.reserved + s.n /\ u.quantity = w.quantity
        /\ u \in [quantity : Int, reserved : Nat]
    BY <1>1, <1>2, <2>1
  <2>4. w.quantity - w.reserved >= s.n /\ tx[c].op # "complete"
    BY <1>4 DEF HasStock
  <2>. QED
    BY <1>1, <1>2, <1>4, <2>2, <2>3, <2>4 DEF WriteOK
<1>5. CASE s.kind = "release"
  <2>1. PICK u : u = [w EXCEPT !.reserved = Released(w, s.n)]
    OBVIOUS
  <2>2. Updated(w, s) = u
    BY <1>5, <2>1 DEF Updated
  <2>3. /\ u.reserved = Released(w, s.n) /\ u.quantity = w.quantity
        /\ u \in [quantity : Int, reserved : Nat]
    BY <1>2, <1>3, <2>1
  <2>. QED
    BY <1>2, <1>3, <1>5, <2>2, <2>3 DEF WriteOK
<1>6. CASE s.kind = "ship"
  <2>1. PICK u : u = [quantity |-> w.quantity - s.n, reserved |-> Released(w, s.n)]
    OBVIOUS
  <2>2. Updated(w, s) = u
    BY <1>6, <2>1 DEF Updated
  <2>3. /\ u.reserved = Released(w, s.n) /\ u.quantity = w.quantity - s.n
        /\ u \in [quantity : Int, reserved : Nat]
    BY <1>1, <1>2, <1>3, <2>1
  <2>. QED
    BY <1>1, <1>2, <1>3, <1>6, <2>2, <2>3 DEF WriteOK
<1>. QED
  BY <1>1, <1>4, <1>5, <1>6

LEMMA StatementKeeps ==
    ASSUME RacesInv, NEW c \in Clients, Statement(c)
    PROVE  RacesInv'
<1>1. PICK s : s = Head(tx[c].todo)
  OBVIOUS
<1>2. /\ tx[c].todo # <<>> /\ CanLock(c, s.row) /\ HasStock(Row(c, s.row), s) /\ UNCHANGED committed
      /\ tx' = [tx EXCEPT ![c] = [tx[c] EXCEPT
             !.todo = Tail(@), !.rows = With(@, s.row, Updated(Row(c, s.row), s))]]
  BY <1>1, Zenon DEF Statement
<1>3. PICK w : w = Updated(Row(c, s.row), s)
  OBVIOUS
<1>4. PICK x : x = [tx[c] EXCEPT !.todo = Tail(tx[c].todo), !.rows = With(tx[c].rows, s.row, w)]
  OBVIOUS
<1>5. /\ TxInv(c) /\ tx[c] = [f \in Fields |-> tx[c][f]]
      /\ \A r \in DOMAIN tx[c].rows : WriteOK(c, r, tx[c].rows[r])
  BY DEF RacesInv, TxInv, Written
<1>6. /\ x.op = tx[c].op /\ x.tasks = tx[c].tasks /\ x.plan = tx[c].plan
      /\ x.todo = Tail(tx[c].todo) /\ x.rows = With(tx[c].rows, s.row, w)
      /\ x = [f \in Fields |-> x[f]]
  BY <1>4, <1>5 DEF Fields
<1>7. /\ DOMAIN x.rows = Written(c) \cup {s.row} /\ x.rows[s.row] = w
      /\ \A r \in Written(c) \ {s.row} : x.rows[r] = tx[c].rows[r]
  BY <1>6 DEF With, Written
<1>8. tx' = [tx EXCEPT ![c] = x]
  BY <1>2, <1>3, <1>4
<1>9. tx'[c] = x
  BY <1>8 DEF RacesInv
<1>10. s \in Stmt /\ (s.kind = "ship" <=> tx[c].op = "complete") /\ TodoOK(x.op, x.todo)
  <2>1. PICK todo : todo = tx[c].todo
    OBVIOUS
  <2>2. todo \in Seq(Stmt) /\ todo # <<>>
    BY <1>2, <1>5, <2>1 DEF TxInv, TodoOK
  <2>3. /\ Head(todo) \in Stmt /\ Tail(todo) \in Seq(Stmt) /\ Len(Tail(todo)) = Len(todo) - 1
        /\ \A i \in 1 .. Len(Tail(todo)) : Tail(todo)[i] = todo[i + 1]
    BY <2>2, HeadTailProperties
  <2>4. Len(todo) \in Nat \ {0}
    BY <2>2, EmptySeq
  <2>5. Head(todo) = todo[1]
    BY <2>2
  <2>6. \A i \in 1 .. Len(todo) : todo[i].kind = "ship" <=> tx[c].op = "complete"
    BY <1>5, <2>1 DEF TxInv, TodoOK
  <2>7. 1 \in 1 .. Len(todo) /\ \A i \in 1 .. Len(Tail(todo)) : i + 1 \in 1 .. Len(todo)
    BY <2>3, <2>4
  <2>8. x.todo = Tail(todo) /\ s = Head(todo) /\ x.op = tx[c].op
    BY <1>1, <1>6, <2>1
  <2>. QED
    BY <2>3, <2>5, <2>6, <2>7, <2>8 DEF TodoOK
<1>11. s.row \in Rows /\ quantity[s.row] \in Int /\ reserved[s.row] \in Nat
  BY <1>10 DEF RacesInv, TypeOK, Stmt
<1>12. WriteOK(c, s.row, w)
  <2>1. WriteOK(c, s.row, Row(c, s.row))
    BY <1>11, RowIsWritten
  <2>. QED
    BY <1>2, <1>3, <1>10, <1>11, <2>1, UpdateKeeps
<1>13. TxInv(c)'
  <2>1. \A r \in DOMAIN x.rows : WriteOK(c, r, x.rows[r])
    BY <1>5, <1>7, <1>12 DEF Written
  <2>2. quantity' = quantity /\ reserved' = reserved
    BY <1>2 DEF committed
  <2>3. \A r \in DOMAIN x.rows : WriteOK(c, r, x.rows[r])'
    <3>1. ASSUME NEW r \in DOMAIN x.rows PROVE WriteOK(c, r, x.rows[r])'
      <4>1. WriteOK(c, r, x.rows[r]) /\ tx'[c].op = tx[c].op
        BY <1>6, <1>9, <2>1
      <4>. QED
        BY <2>2, <4>1 DEF WriteOK
    <3>. QED
      BY <3>1
  <2>4. TodoOK(x.op, x.todo) /\ x.tasks \subseteq Tasks /\ x.plan \in Plans \cup {<<>>}
        /\ x.op \in Ops \cup {"none"}
    BY <1>5, <1>6, <1>10 DEF TxInv
  <2>. QED
    BY <1>6, <1>9, <2>3, <2>4 DEF TxInv, Written, TodoOK
<1>14. \A d \in Clients \ {c} : DOMAIN x.rows \cap Written(d) = {}
  BY <1>2, <1>7 DEF RacesInv, CanLock, Written
<1>. QED
  BY <1>2, <1>8, <1>13, <1>14, OneTransaction

LEMMA RollbackKeeps ==
    ASSUME RacesInv, NEW c \in Clients, Rollback(c)
    PROVE  RacesInv'
<1>1. tx' = [tx EXCEPT ![c] = NoTx] /\ UNCHANGED committed
  BY DEF Rollback
<1>2. tx'[c] = NoTx
  BY <1>1 DEF RacesInv
<1>3. /\ NoTx.op = "none" /\ NoTx.tasks = {} /\ NoTx.plan = <<>> /\ NoTx.todo = <<>>
      /\ DOMAIN NoTx.rows = {} /\ NoTx = [f \in Fields |-> NoTx[f]]
  BY DEF NoTx, Fields
<1>4. TxInv(c)'
  <2>1. TodoOK("none", <<>>)
    BY NoStatements
  <2>. QED
    BY <1>2, <1>3, <2>1 DEF TxInv, Written, TodoOK
<1>. QED
  BY <1>1, <1>3, <1>4, OneTransaction

-----------------------------------------------------------------------------
(* A COMMIT.  The rows others have locked stay as they are; the rows       *)
(* written become what WriteOK says of them.                               *)
LEMMA CommittedRows ==
    ASSUME RacesInv, NEW c \in Clients, CommitRows(c)
    PROVE  /\ quantity' \in [Rows -> Int] /\ reserved' \in [Rows -> Nat]
           /\ tx' = [d \in Clients |-> tx'[d]] /\ tx'[c] = NoTx
           /\ \A d \in Clients \ {c} : tx'[d] = tx[d]
           /\ \A r \in Rows : /\ quantity'[r] = Row(c, r).quantity /\ quantity'[r] <= quantity[r]
                              /\ tx[c].op # "complete" => quantity'[r] = quantity[r]
                              /\ reserved'[r] > reserved[r] => reserved'[r] <= quantity'[r]
           /\ \A r \in Rows \ Written(c) : quantity'[r] = quantity[r] /\ reserved'[r] = reserved[r]
<1>1. /\ quantity' = [r \in Rows |-> Row(c, r).quantity]
      /\ reserved' = [r \in Rows |-> Row(c, r).reserved]
      /\ tx' = [tx EXCEPT ![c] = NoTx]
  BY DEF CommitRows
<1>2. ASSUME NEW r \in Rows
      PROVE  /\ Row(c, r).quantity \in Int /\ Row(c, r).reserved \in Nat
             /\ Row(c, r).quantity <= quantity[r]
             /\ tx[c].op # "complete" => Row(c, r).quantity = quantity[r]
             /\ Row(c, r).reserved > reserved[r] => Row(c, r).reserved <= Row(c, r).quantity
  <2>1. WriteOK(c, r, Row(c, r))
    BY RowIsWritten
  <2>. QED
    BY <2>1 DEF WriteOK
<1>3. ASSUME NEW r \in Rows \ Written(c)
      PROVE  Row(c, r).quantity = quantity[r] /\ Row(c, r).reserved = reserved[r]
  BY DEF Row, Written
<1>4. /\ quantity' \in [Rows -> Int] /\ reserved' \in [Rows -> Nat]
      /\ \A r \in Rows : quantity'[r] = Row(c, r).quantity /\ reserved'[r] = Row(c, r).reserved
  BY <1>1, <1>2
<1>5. /\ tx' = [d \in Clients |-> tx'[d]] /\ tx'[c] = NoTx
      /\ \A d \in Clients \ {c} : tx'[d] = tx[d]
  BY <1>1 DEF RacesInv
<1>. QED
  BY <1>2, <1>3, <1>4, <1>5

LEMMA CommitKeepsTx ==
    ASSUME RacesInv, NEW c \in Clients, CommitRows(c)
    PROVE  /\ \A d \in Clients : TxInv(d)'
           /\ \A d, e \in Clients : d # e => (Written(d) \cap Written(e))' = {}
<1>1. /\ tx'[c] = NoTx /\ \A d \in Clients \ {c} : tx'[d] = tx[d]
      /\ \A r \in Rows \ Written(c) : quantity'[r] = quantity[r] /\ reserved'[r] = reserved[r]
  BY CommittedRows
<1>2. /\ NoTx.op = "none" /\ NoTx.tasks = {} /\ NoTx.plan = <<>> /\ NoTx.todo = <<>>
      /\ DOMAIN NoTx.rows = {} /\ NoTx = [f \in Fields |-> NoTx[f]]
  BY DEF NoTx, Fields
<1>3. TxInv(c)'
  <2>1. TodoOK("none", <<>>)
    BY NoStatements
  <2>. QED
    BY <1>1, <1>2, <2>1 DEF TxInv, Written, TodoOK
<1>4. ASSUME NEW d \in Clients \ {c} PROVE TxInv(d)'
  <2>1. TxInv(d) /\ tx'[d] = tx[d] /\ Written(d) \cap Written(c) = {}
    BY <1>1 DEF RacesInv
  <2>2. ASSUME NEW r \in DOMAIN tx[d].rows PROVE WriteOK(d, r, tx[d].rows[r])'
    <3>1. WriteOK(d, r, tx[d].rows[r]) /\ r \in Rows \ Written(c)
      BY <2>1 DEF TxInv, Written, WriteOK
    <3>2. quantity'[r] = quantity[r] /\ reserved'[r] = reserved[r] /\ tx'[d] = tx[d]
      BY <1>1, <3>1
    <3>. QED
      BY <3>1, <3>2 DEF WriteOK
  <2>. QED
    BY <2>1, <2>2 DEF TxInv, Written, TodoOK
<1>5. \A d, e \in Clients : d # e => (Written(d) \cap Written(e))' = {}
  BY <1>1, <1>2 DEF RacesInv, Written
<1>. QED
  BY <1>3, <1>4, <1>5

(* A completion adds to the movements what it takes from the rows.         *)
LEMMA CompletionMoves ==
    ASSUME RacesInv, NEW c \in Clients, CommitRows(c), NEW t \in Tasks,
           shipped' = [shipped EXCEPT ![t] = [r \in Rows |-> @[r] + quantity[r] - Row(c, r).quantity]]
    PROVE  shipped' \in [Tasks -> [Rows -> Nat]] /\ NoLostUpdate'
<1>1. PICK f : f = [r \in Rows |-> shipped[t][r] + quantity[r] - Row(c, r).quantity]
  OBVIOUS
<1>2. shipped' = [shipped EXCEPT ![t] = f]
  BY <1>1
<1>3. shipped \in [Tasks -> [Rows -> Nat]] /\ quantity \in [Rows -> Int]
  BY DEF RacesInv, TypeOK
<1>4. \A r \in Rows : /\ quantity'[r] = Row(c, r).quantity /\ quantity'[r] <= quantity[r]
                      /\ quantity'[r] \in Int
  BY CommittedRows
<1>5. f \in [Rows -> Nat]
  <2>1. \A r \in Rows : shipped[t][r] \in Nat /\ quantity[r] \in Int
    BY <1>3
  <2>. QED
    BY <1>1, <1>4, <2>1
<1>6. shipped' \in [Tasks -> [Rows -> Nat]] /\ shipped'[t] = f
      /\ \A u \in Tasks \ {t} : shipped'[u] = shipped[u]
  BY <1>2, <1>3, <1>5
<1>7. ASSUME NEW r \in Rows PROVE quantity'[r] + SumOver(Tasks, shipped', r) = InitialStock[r]
  <2>1. \A u \in Tasks : shipped[u][r] \in Nat /\ shipped'[u][r] \in Nat
    BY <1>3, <1>6
  <2>2. \A u \in Tasks \ {t} : shipped'[u][r] = shipped[u][r]
    BY <1>6
  <2>3. SumOver(Tasks, shipped', r) = SumOver(Tasks, shipped, r) - shipped[t][r] + shipped'[t][r]
    <3>1. PICK g : g = shipped'
      OBVIOUS
    <3>2. /\ \A u \in Tasks : shipped[u][r] \in Nat /\ g[u][r] \in Nat
          /\ \A u \in Tasks \ {t} : g[u][r] = shipped[u][r]
      BY <2>1, <2>2, <3>1
    <3>3. IsFiniteSet(Tasks)
      BY RacesAssumption
    <3>4. SumOver(Tasks, g, r) = SumOver(Tasks, shipped, r) - shipped[t][r] + g[t][r]
      BY <3>2, <3>3, SumChange
    <3>. QED
      BY <3>1, <3>4
  <2>4. shipped'[t][r] = shipped[t][r] + quantity[r] - quantity'[r]
    BY <1>1, <1>4, <1>6
  <2>5. SumOver(Tasks, shipped, r) \in Nat
    BY <2>1, RacesAssumption, SumType
  <2>6. quantity[r] + SumOver(Tasks, shipped, r) = InitialStock[r] /\ quantity[r] \in Int
    BY <1>3 DEF RacesInv, NoLostUpdate
  <2>. QED
    BY <1>4, <2>1, <2>3, <2>4, <2>5, <2>6
<1>. QED
  BY <1>6, <1>7 DEF NoLostUpdate

LEMMA OthersMoveNothing ==
    ASSUME RacesInv, NEW c \in Clients, CommitRows(c), tx[c].op # "complete", shipped' = shipped
    PROVE  shipped' \in [Tasks -> [Rows -> Nat]] /\ NoLostUpdate'
<1>1. \A r \in Rows : quantity'[r] = quantity[r]
  BY CommittedRows
<1>. QED
  BY <1>1 DEF RacesInv, NoLostUpdate, TypeOK

(* Assembles the invariant after a commit.                                 *)
LEMMA CommitAssembled ==
    ASSUME RacesInv, NEW c \in Clients, CommitRows(c),
           shipped' \in [Tasks -> [Rows -> Nat]], NoLostUpdate',
           status' \in [Tasks -> {"none", "open", "in_progress"} \cup Terminal],
           items' \in [Tasks -> Plans \cup {<<>>}],
           age' \in [Tasks -> {"fresh", "touched", "stale"}]
    PROVE  RacesInv'
<1>1. /\ \A d \in Clients : TxInv(d)'
      /\ \A d, e \in Clients : d # e => (Written(d) \cap Written(e))' = {}
  BY CommitKeepsTx
<1>2. /\ quantity' \in [Rows -> Int] /\ reserved' \in [Rows -> Nat]
      /\ tx' = [d \in Clients |-> tx'[d]]
  BY CommittedRows
<1>3. \A d \in Clients : /\ tx'[d].op \in {"none", "start", "cancel", "edit", "complete", "cleanup"}
                         /\ tx'[d].tasks \subseteq Tasks
                         /\ \A r \in DOMAIN tx'[d].rows : r \in Rows /\ tx'[d].rows[r].reserved \in Nat
  BY <1>1 DEF TxInv, Written, WriteOK, Ops
<1>4. TypeOK'
  BY <1>2, <1>3 DEF TypeOK
<1>. QED
  BY <1>1, <1>2, <1>4 DEF RacesInv

LEMMA Touched ==
    ASSUME TypeOK, NEW t \in Tasks, Touch(t)
    PROVE  age' \in [Tasks -> {"fresh", "touched", "stale"}]
BY DEF TypeOK, Touch

LEMMA CommitKeeps ==
    ASSUME RacesInv, NEW c \in Clients, Commit(c)
    PROVE  RacesInv' /\ CommitRows(c)
<1>. USE DEF Terminal
<1>0. TypeOK /\ TxInv(c)
  BY DEF RacesInv
<1>1. ASSUME NEW op \in {"start", "cancel", "complete"},
             NEW new \in {"in_progress", "cancelled", "completed"}, CommitStatus(c, op, new)
      PROVE  RacesInv' /\ CommitRows(c)
  <2>1. PICK t \in tx[c].tasks :
          /\ status' = [status EXCEPT ![t] = new] /\ Touch(t)
          /\ shipped' = IF op = "complete"
                        THEN [shipped EXCEPT ![t] = [r \in Rows |-> @[r] + quantity[r] - Row(c, r).quantity]]
                        ELSE shipped
    BY <1>1 DEF CommitStatus
  <2>2. t \in Tasks /\ tx[c].op = op /\ CommitRows(c) /\ items' = items
    BY <1>0, <1>1 DEF TxInv, CommitStatus
  <2>3. shipped' \in [Tasks -> [Rows -> Nat]] /\ NoLostUpdate'
    <3>1. CASE op = "complete"
      BY <2>1, <2>2, <3>1, CompletionMoves
    <3>2. CASE op # "complete"
      BY <2>1, <2>2, <3>2, OthersMoveNothing
    <3>. QED
      BY <3>1, <3>2
  <2>4. status' \in [Tasks -> {"none", "open", "in_progress"} \cup Terminal]
    BY <1>0, <2>1, <2>2 DEF TypeOK
  <2>5. items' \in [Tasks -> Plans \cup {<<>>}]
    BY <1>0, <2>2 DEF TypeOK
  <2>6. age' \in [Tasks -> {"fresh", "touched", "stale"}]
    BY <1>0, <2>1, <2>2, Touched
  <2>. QED
    BY <2>2, <2>3, <2>4, <2>5, <2>6, CommitAssembled
<1>2. CASE CommitEdit(c)
  <2>1. PICK t \in tx[c].tasks : items' = [items EXCEPT ![t] = tx[c].plan] /\ Touch(t)
    BY <1>2 DEF CommitEdit
  <2>2. /\ t \in Tasks /\ tx[c].op = "edit" /\ CommitRows(c) /\ status' = status /\ shipped' = shipped
        /\ tx[c].plan \in Plans \cup {<<>>}
    BY <1>0, <1>2 DEF TxInv, CommitEdit
  <2>3. shipped' \in [Tasks -> [Rows -> Nat]] /\ NoLostUpdate'
    BY <2>2, OthersMoveNothing
  <2>4. items' \in [Tasks -> Plans \cup {<<>>}]
    BY <1>0, <2>1, <2>2 DEF TypeOK
  <2>5. status' \in [Tasks -> {"none", "open", "in_progress"} \cup Terminal]
    BY <1>0, <2>2 DEF TypeOK
  <2>6. age' \in [Tasks -> {"fresh", "touched", "stale"}]
    BY <1>0, <2>1, <2>2, Touched
  <2>. QED
    BY <2>2, <2>3, <2>4, <2>5, <2>6, CommitAssembled
<1>3. CASE CommitCleanup(c)
  <2>1. /\ tx[c].op = "cleanup" /\ CommitRows(c) /\ items' = items /\ shipped' = shipped
        /\ status' = [t \in Tasks |-> IF t \in Stale THEN "abandoned" ELSE status[t]]
        /\ age'    = [t \in Tasks |-> IF t \in Stale THEN "touched" ELSE age[t]]
    BY <1>3 DEF CommitCleanup
  <2>2. shipped' \in [Tasks -> [Rows -> Nat]] /\ NoLostUpdate'
    BY <2>1, OthersMoveNothing
  <2>3. items' \in [Tasks -> Plans \cup {<<>>}]
    BY <1>0, <2>1 DEF TypeOK
  <2>4. status' \in [Tasks -> {"none", "open", "in_progress"} \cup Terminal]
    BY <1>0, <2>1 DEF TypeOK
  <2>5. age' \in [Tasks -> {"fresh", "touched", "stale"}]
    BY <1>0, <2>1 DEF TypeOK
  <2>. QED
    BY <2>1, <2>2, <2>3, <2>4, <2>5, CommitAssembled
<1>. QED
  BY <1>1, <1>2, <1>3 DEF Commit

-----------------------------------------------------------------------------
(* The other steps.                                                        *)
LEMMA TasksAlone ==
    ASSUME RacesInv, UNCHANGED <<quantity, reserved, shipped, tx>>,
           status' \in [Tasks -> {"none", "open", "in_progress"} \cup Terminal],
           items' \in [Tasks -> Plans \cup {<<>>}],
           age' \in [Tasks -> {"fresh", "touched", "stale"}]
    PROVE  RacesInv'
<1>1. quantity' = quantity /\ reserved' = reserved /\ shipped' = shipped /\ tx' = tx
  OBVIOUS
<1>2. TypeOK'
  BY <1>1 DEF RacesInv, TypeOK
<1>3. ASSUME NEW c \in Clients PROVE TxInv(c)'
  <2>1. TxInv(c)
    BY DEF RacesInv
  <2>2. \A r \in DOMAIN tx[c].rows : WriteOK(c, r, tx[c].rows[r])'
    BY <1>1, <2>1 DEF TxInv, Written, WriteOK
  <2>. QED
    BY <1>1, <2>1, <2>2 DEF TxInv, Written, TodoOK
<1>4. NoLostUpdate'
  BY <1>1 DEF RacesInv, NoLostUpdate
<1>. QED
  BY <1>1, <1>2, <1>3, <1>4 DEF RacesInv, Written

LEMMA OthersKeep ==
    ASSUME RacesInv, Others
    PROVE  RacesInv'
<1>0. TypeOK
  BY DEF RacesInv
<1>1. ASSUME NEW t \in Tasks, SevenDaysPass(t) PROVE RacesInv'
  <2>1. age' \in [Tasks -> {"fresh", "touched", "stale"}]
    BY <1>0, <1>1 DEF TypeOK, SevenDaysPass
  <2>2. UNCHANGED <<quantity, reserved, shipped, tx>> /\ status' = status /\ items' = items
    BY <1>1 DEF SevenDaysPass
  <2>3. /\ status' \in [Tasks -> {"none", "open", "in_progress"} \cup Terminal]
        /\ items' \in [Tasks -> Plans \cup {<<>>}]
    BY <1>0, <2>2 DEF TypeOK
  <2>. QED
    BY <2>1, <2>2, <2>3, TasksAlone
<1>2. ASSUME NEW t \in Tasks, NEW plan \in Plans, CreatePickingTask(t, plan) PROVE RacesInv'
  <2>1. UNCHANGED <<quantity, reserved, shipped, tx>> /\ age' = age
    BY <1>2 DEF CreatePickingTask
  <2>2. status' \in [Tasks -> {"none", "open", "in_progress"} \cup Terminal]
    BY <1>0, <1>2 DEF TypeOK, CreatePickingTask
  <2>3. items' \in [Tasks -> Plans \cup {<<>>}]
    BY <1>0, <1>2 DEF TypeOK, CreatePickingTask
  <2>4. age' \in [Tasks -> {"fresh", "touched", "stale"}]
    BY <1>0, <2>1 DEF TypeOK
  <2>. QED
    BY <2>1, <2>2, <2>3, <2>4, TasksAlone
<1>3. ASSUME NEW c \in Clients, Statement(c) \/ Commit(c) \/ Rollback(c) PROVE RacesInv'
  BY <1>3, StatementKeeps, CommitKeeps, RollbackKeeps
<1>. QED
  BY <1>1, <1>2, <1>3 DEF Others

LEMMA StepKeeps ==
    ASSUME RacesInv, [Next]_vars
    PROVE  RacesInv'
<1>1. CASE UNCHANGED vars
  <2>1. UNCHANGED <<quantity, reserved, shipped, tx>> /\ status' = status /\ items' = items /\ age' = age
    BY <1>1 DEF vars, txVars
  <2>. QED
    BY <2>1, TasksAlone DEF RacesInv, TypeOK
<1>2. CASE Next
  <2>1. ASSUME NEW c \in Clients, NEW t \in Tasks, BeginOn(c, t) PROVE RacesInv'
    BY <2>1, BeginOnKeeps
  <2>2. ASSUME NEW c \in Clients, BeginCleanup(c) PROVE RacesInv'
    BY <2>2, CleanupBegins
  <2>. QED
    BY <1>2, <2>1, <2>2, OthersKeep DEF Next
<1>. QED
  BY <1>1, <1>2

(* A step that raises the reservations of a row is a commit.               *)
LEMMA StepReservesStock ==
    ASSUME RacesInv, [Next]_vars, NEW r \in Rows, reserved'[r] > reserved[r]
    PROVE  reserved'[r] <= quantity'[r]
<1>1. reserved[r] \in Nat
  BY DEF RacesInv, TypeOK
<1>2. CASE reserved' = reserved
  BY <1>1, <1>2
<1>3. ASSUME NEW c \in Clients, Commit(c) PROVE reserved'[r] <= quantity'[r]
  BY <1>3, CommitKeeps, CommittedRows
<1>4. CASE UNCHANGED vars
  BY <1>2, <1>4 DEF vars, txVars
<1>5. CASE Next
  <2>1. ASSUME NEW c \in Clients, NEW t \in Tasks, BeginOn(c, t) PROVE reserved' = reserved
    BY <2>1 DEF BeginOn, BeginStart, BeginCancel, BeginEdit, BeginComplete, Begin, committed
  <2>2. ASSUME NEW c \in Clients, BeginCleanup(c) PROVE reserved' = reserved
    <3>1. PICK order \in SetToSeqs({q \in Rows : CleanupSums[q] > 0}) :
            Begin(c, "cleanup", Stale, <<>>, [i \in DOMAIN order |->
                 [kind |-> "release", row |-> order[i], n |-> CleanupSums[order[i]]]])
      BY <2>2 DEF BeginCleanup, CleanupSums
    <3>. QED
      BY <3>1 DEF Begin, committed
  <2>3. CASE Others
    <3>1. ASSUME NEW t \in Tasks, NEW plan \in Plans, SevenDaysPass(t) \/ CreatePickingTask(t, plan)
          PROVE reserved' = reserved
      BY <3>1 DEF SevenDaysPass, CreatePickingTask
    <3>2. ASSUME NEW t \in Tasks, SevenDaysPass(t) PROVE reserved' = reserved
      BY <3>2 DEF SevenDaysPass
    <3>3. ASSUME NEW c \in Clients, Statement(c) \/ Rollback(c) PROVE reserved' = reserved
      BY <3>3 DEF Statement, Rollback, committed
    <3>. QED
      BY <1>2, <1>3, <2>3, <3>1, <3>2, <3>3 DEF Others
  <2>. QED
    BY <1>2, <1>5, <2>1, <2>2, <2>3 DEF Next
<1>. QED
  BY <1>4, <1>5

(* However many transactions race about the same tasks and rows, types     *)
(* hold of what is committed and what is not, and the movements of the     *)
(* completions account for the stock of every row.                         *)
THEOREM RacesInvariant == Spec => []RacesInv
<1>1. Init => RacesInv
  BY InitRaces
<1>2. RacesInv /\ [Next]_vars => RacesInv'
  BY StepKeeps
<1>. QED
  BY <1>1, <1>2, PTL DEF Spec

(* Rows add up: no UPDATE of CompletePickingTask is lost to another's.     *)
THEOREM NoUpdateIsLost == Spec => []RowsAddUp
<1>1. RacesInv => RowsAddUp
  BY DEF RacesInv, RowsAddUp
<1>. QED
  BY <1>1, RacesInvariant, PTL

(* A commit that reserves more of a row reserves stock the row has,        *)
(* whatever was committed between its reads and its UPDATEs.               *)
THEOREM CommitsReserveStock == Spec => CommitsWithinStock
<1>1. RacesInv /\ [Next]_vars =>
          [\A r \in Rows : reserved'[r] > reserved[r] => reserved'[r] <= quantity'[r]]_vars
  BY StepReservesStock
<1>. QED
  BY <1>1, RacesInvariant, PTL DEF Spec, CommitsWithinStock

-----------------------------------------------------------------------------
(* Transactions that exclude each other implement the handlers of          *)
(* PickingTasks, one after the other.  An open transaction has executed    *)
(* the first so many of its statements: its rows are the committed ones    *)
(* after these, and all of them together do what the handler does.         *)

Which(full, k, kind, r) == {i \in 1 .. k : full[i].kind = kind /\ full[i].row = r}
Did(full, k, kind, r) == SumOver(Which(full, k, kind, r), full, "n")
Floor(x, n) == IF x >= n THEN x - n ELSE 0

(* A list releases before it reserves.                                     *)
ReleasesFirst(full) ==
    \A i, j \in 1 .. Len(full) : i < j /\ full[i].kind = "reserve" => full[j].kind = "reserve"

(* todo is what is left of the statements of full, and those executed have *)
(* written their rows.                                                     *)
Began(full, todo, written) ==
    /\ full \in Seq(Stmt) /\ Len(full) - Len(todo) \in Nat
    /\ \A i \in 1 .. Len(todo) : todo[i] = full[(Len(full) - Len(todo)) + i]
    /\ ReleasesFirst(full)
    /\ \A i \in 1 .. (Len(full) - Len(todo)) : full[i].row \in written

(* What k of the statements make of row r.                                 *)
Made(full, k, r, w) ==
    /\ w.quantity = quantity[r] - Did(full, k, "ship", r)
    /\ w.reserved = Floor(reserved[r], Did(full, k, "release", r) + Did(full, k, "ship", r))
                    + Did(full, k, "reserve", r)
    /\ Did(full, k, "reserve", r) > 0 => w.reserved <= w.quantity

(* What the handlers do to row r.                                          *)
HeldBy(tasks, r) == SumOver(tasks \cap InProgress, Allocations, r)
Releases(op, tasks, r) == IF op \in {"cancel", "edit", "cleanup"} THEN HeldBy(tasks, r) ELSE 0
Ships(op, tasks, r) == IF op = "complete" THEN HeldBy(tasks, r) ELSE 0
Reserves(op, tasks, plan, r) ==
    CASE op = "start" -> SumOver(tasks, Allocations, r)
      [] op = "edit" -> IF tasks \cap InProgress # {} THEN AllocationOf(plan)[r] ELSE 0
      [] OTHER -> 0

Meant(full, op, tasks, plan) ==
    \A r \in Rows : /\ Did(full, Len(full), "release", r) = Releases(op, tasks, r)
                    /\ Did(full, Len(full), "ship", r) = Ships(op, tasks, r)
                    /\ Did(full, Len(full), "reserve", r) = Reserves(op, tasks, plan, r)

Waiting == {"open", "assigned"}
Allowed(op) == CASE op = "start" -> Waiting
                 [] op = "complete" -> {"in_progress"}
                 [] OTHER -> Waiting \cup {"in_progress"}
About(op, tasks) ==
    /\ \A t \in tasks : t \in Tasks /\ status[t] \in Allowed(op)
    /\ op # "cleanup" => \E t \in Tasks : tasks = {t}
    /\ op = "cleanup" => tasks = Stale /\ tasks # {}

Underway(c, full) ==
    /\ Began(full, tx[c].todo, Written(c))
    /\ Meant(full, tx[c].op, tx[c].tasks, tx[c].plan)
    /\ \A r \in Written(c) : Made(full, Len(full) - Len(tx[c].todo), r, tx[c].rows[r])

SerialTx(c) ==
    tx[c].op # "none" => About(tx[c].op, tx[c].tasks) /\ \E full : Underway(c, full)

TasksApart == \A c, d \in Clients : c # d => tx[c].tasks \cap tx[d].tasks = {}
NewTasksAreFresh == \A t \in Tasks : status[t] = "none" => age[t] = "fresh"

SerialInv ==
    /\ TasksApart
    /\ \A c \in Clients : SerialTx(c)
    /\ NewTasksAreFresh
    /\ Serial!LifecycleInv

-----------------------------------------------------------------------------
(* Sums over the first statements of a list.                               *)
LEMMA StatementTypes ==
    ASSUME NEW full \in Seq(Stmt)
    PROVE  /\ Len(full) \in Nat /\ DOMAIN full = 1 .. Len(full)
           /\ \A i \in 1 .. Len(full) : /\ full[i] \in Stmt /\ full[i].n \in Nat
                                        /\ full[i]["n"] = full[i].n /\ full[i].row \in Rows
                                        /\ full[i].kind \in {"reserve", "release", "ship"}
<1>0. \A x : x["n"] = x.n
  OBVIOUS
<1>1. Len(full) \in Nat /\ DOMAIN full = 1 .. Len(full) /\ \A i \in 1 .. Len(full) : full[i] \in Stmt
  BY LenProperties, ElementOfSeq
<1>2. \A x \in Stmt : x.n \in Nat /\ x.row \in Rows /\ x.kind \in {"reserve", "release", "ship"}
  BY DEF Stmt
<1>. QED
  BY <1>0, <1>1, <1>2

(* What statements have done of one kind to a row is a number.             *)
LEMMA DidType ==
    ASSUME NEW full \in Seq(Stmt), NEW k \in 0 .. Len(full), NEW kind, NEW r
    PROVE  Did(full, k, kind, r) \in Nat /\ IsFiniteSet(Which(full, k, kind, r))
<1>1. Len(full) \in Nat /\ \A i \in 1 .. Len(full) : full[i]["n"] \in Nat
  BY StatementTypes
<1>2. IsFiniteSet(1 .. k)
  BY <1>1, FS_Interval
<1>3. Which(full, k, kind, r) \subseteq 1 .. k /\ Which(full, k, kind, r) \subseteq 1 .. Len(full)
  BY <1>1 DEF Which
<1>4. IsFiniteSet(Which(full, k, kind, r))
  BY <1>2, <1>3, FS_Subset
<1>5. \A i \in Which(full, k, kind, r) : full[i]["n"] \in Nat
  BY <1>1, <1>3
<1>. QED
  BY <1>4, <1>5, SumType DEF Did

(* Statements of other kinds or rows add nothing.                          *)
LEMMA DidNothing ==
    ASSUME NEW full, NEW k, NEW kind, NEW r,
           \A i \in 1 .. k : ~(full[i].kind = kind /\ full[i].row = r)
    PROVE  Did(full, k, kind, r) = 0
<1>1. Which(full, k, kind, r) = {}
  BY DEF Which
<1>. QED
  BY <1>1, SumEmpty DEF Did

(* The next statement adds its number to what was done to its row.         *)
LEMMA DidNext ==
    ASSUME NEW full \in Seq(Stmt), NEW k \in Nat, k < Len(full), NEW kind, NEW r
    PROVE  Did(full, k + 1, kind, r)
             = Did(full, k, kind, r)
               + IF full[k + 1].kind = kind /\ full[k + 1].row = r THEN full[k + 1].n ELSE 0
<1>1. Len(full) \in Nat /\ \A i \in 1 .. Len(full) : full[i]["n"] \in Nat /\ full[i]["n"] = full[i].n
  BY StatementTypes
<1>2. k \in 0 .. Len(full) /\ k + 1 \in 1 .. Len(full) /\ 1 .. (k + 1) = (1 .. k) \cup {k + 1}
      /\ k + 1 \notin 1 .. k
  BY <1>1
<1>3. Did(full, k, kind, r) \in Nat /\ IsFiniteSet(Which(full, k, kind, r))
  BY <1>2, DidType
<1>4. CASE full[k + 1].kind = kind /\ full[k + 1].row = r
  <2>1. /\ Which(full, k + 1, kind, r) = Which(full, k, kind, r) \cup {k + 1}
        /\ Which(full, k, kind, r) \cap {k + 1} = {}
    BY <1>2, <1>4 DEF Which
  <2>2. IsFiniteSet({k + 1})
    BY FS_Singleton
  <2>3. \A i \in Which(full, k, kind, r) \cup {k + 1} : full[i]["n"] \in Nat
    BY <1>1, <1>2 DEF Which
  <2>4. SumOver(Which(full, k, kind, r) \cup {k + 1}, full, "n")
          = SumOver(Which(full, k, kind, r), full, "n") + SumOver({k + 1}, full, "n")
    BY <1>3, <2>1, <2>2, <2>3, SumDisjoint
  <2>5. SumOver({k + 1}, full, "n") = full[k + 1]["n"]
    BY <2>3, SumSingle
  <2>. QED
    BY <1>1, <1>2, <1>4, <2>1, <2>4, <2>5 DEF Did
<1>5. CASE ~(full[k + 1].kind = kind /\ full[k + 1].row = r)
  <2>1. Which(full, k + 1, kind, r) = Which(full, k, kind, r)
    BY <1>2, <1>5 DEF Which
  <2>. QED
    BY <1>3, <1>5, <2>1 DEF Did
<1>. QED
  BY <1>4, <1>5

(* The same quantities at indices d further on have the same sum.          *)
Shifted(S, d) == {i + d : i \in S}
Carried(S, d, f, g, r) == \A i \in S : f[i][r] \in Nat /\ g[i + d][r] = f[i][r]

(* A sum over a list is the sum over the same entries further on.          *)
LEMMA SumShift ==
    ASSUME NEW S \in SUBSET Nat, IsFiniteSet(S), NEW d \in Nat, NEW f, NEW g, NEW r,
           Carried(S, d, f, g, r)
    PROVE  SumOver(Shifted(S, d), g, r) = SumOver(S, f, r)
<1>. DEFINE T == {i + d : i \in S}
            b == [u \in Units(S, f, r) |-> <<u[1] + d, u[2]>>]
<1>. USE DEF Carried
<1>1. \A u : u \in Units(S, f, r) <=> \E i \in S : \E n \in 1 .. f[i][r] : u = <<i, n>>
  BY DEF Units
<1>2. \A u : u \in Units(T, g, r) <=> \E i \in S : \E n \in 1 .. f[i][r] : u = <<i + d, n>>
  BY DEF Units
<1>3. b \in [Units(S, f, r) -> Units(T, g, r)]
  BY <1>1, <1>2
<1>4. \A u, v \in Units(S, f, r) : b[u] = b[v] => u = v
  BY <1>1
<1>5. ASSUME NEW v \in Units(T, g, r) PROVE \E u \in Units(S, f, r) : b[u] = v
  <2>0. PICK i \in S : \E n \in 1 .. f[i][r] : v = <<i + d, n>>
    BY <1>2
  <2>1. PICK n \in 1 .. f[i][r] : v = <<i + d, n>>
    BY <2>0
  <2>2. PICK u : u = <<i, n>>
    OBVIOUS
  <2>3. u \in Units(S, f, r)
    BY <1>1, <2>2
  <2>4. b[u] = v
    BY <2>1, <2>2, <2>3
  <2>. QED
    BY <2>3, <2>4
<1>6. ExistsBijection(Units(S, f, r), Units(T, g, r))
  <2>. HIDE DEF b, T
  <2>. QED
    BY <1>3, <1>4, <1>5 DEF ExistsBijection, Bijection, Injection, Surjection, IsInjective
<1>7. IsFiniteSet(Units(S, f, r))
  BY UnitsFinite
<1>. QED
  BY <1>6, <1>7, FS_Bijection DEF SumOver, Shifted

-----------------------------------------------------------------------------
(* What the lists of statements do in all.                                 *)
LEMMA PlainTotals ==
    ASSUME NEW plan \in Plans \cup {<<>>}, NEW kind \in {"reserve", "release", "ship"},
           NEW full, full = Statements(kind, plan), NEW other, NEW r \in Rows
    PROVE  Did(full, Len(full), other, r) = IF other = kind THEN AllocationOf(plan)[r] ELSE 0
<1>0. \A x : x["n"] = x.n
  OBVIOUS
<1>1. /\ full \in Seq(Stmt) /\ Len(full) = Len(plan) /\ Len(plan) \in Nat /\ DOMAIN plan = 1 .. Len(plan)
      /\ \A i \in 1 .. Len(plan) : full[i].kind = kind /\ full[i].row = plan[i].row /\ full[i].n = plan[i].n
  BY StatementsOfItems, PlansAreLists
<1>2. \A i \in 1 .. Len(plan) : full[i].kind = kind /\ full[i].row = plan[i].row /\ full[i]["n"] = plan[i]["n"]
  BY <1>0, <1>1
<1>3. CASE other = kind
  <2>1. Which(full, Len(full), other, r) = {i \in DOMAIN plan : plan[i].row = r}
    BY <1>1, <1>2, <1>3 DEF Which
  <2>2. \A i \in {j \in DOMAIN plan : plan[j].row = r} : full[i]["n"] = plan[i]["n"]
    BY <1>1, <1>2
  <2>3. SumOver({i \in DOMAIN plan : plan[i].row = r}, full, "n")
          = SumOver({i \in DOMAIN plan : plan[i].row = r}, plan, "n")
    <3>. DEFINE S == {i \in DOMAIN plan : plan[i].row = r}
    <3>1. \A i \in S : full[i]["n"] = plan[i]["n"]
      BY <2>2
    <3>. HIDE DEF S
    <3>2. SumOver(S, full, "n") = SumOver(S, plan, "n")
      BY <3>1, SumCongruence
    <3>. QED
      BY <3>2 DEF S
  <2>. QED
    BY <1>3, <2>1, <2>3 DEF Did, AllocationOf
<1>4. CASE other # kind
  <2>1. \A i \in 1 .. Len(full) : ~(full[i].kind = other /\ full[i].row = r)
    BY <1>1, <1>2, <1>4
  <2>. QED
    BY <1>4, <2>1, DidNothing
<1>. QED
  BY <1>3, <1>4

(* An edit releases what the task has and then reserves what it gets.      *)
Exchanged(full, p, q) ==
    \A r \in Rows : /\ Did(full, Len(full), "release", r) = AllocationOf(p)[r]
                    /\ Did(full, Len(full), "reserve", r) = AllocationOf(q)[r]
                    /\ Did(full, Len(full), "ship", r) = 0

LEMMA EditTotals ==
    ASSUME NEW p \in Plans \cup {<<>>}, NEW q \in Plans \cup {<<>>},
           NEW full, full = Statements("release", p) \o Statements("reserve", q)
    PROVE  /\ full \in Seq(Stmt)
           /\ ReleasesFirst(full)
           /\ Exchanged(full, p, q)
<1>. DEFINE s == Statements("release", p)
            t == Statements("reserve", q)
<1>1. /\ s \in Seq(Stmt) /\ Len(s) \in Nat /\ \A i \in 1 .. Len(s) : s[i].n \in Nat /\ s[i]["n"] = s[i].n
      /\ t \in Seq(Stmt) /\ Len(t) \in Nat /\ \A i \in 1 .. Len(t) : t[i].n \in Nat /\ t[i]["n"] = t[i].n
  BY StatementsOfItems, StatementTypes
<1>2. \A i \in 1 .. Len(s) : s[i].kind = "release"
  BY StatementsOfItems
<1>3. \A i \in 1 .. Len(t) : t[i].kind = "reserve"
  BY StatementsOfItems
<1>4. /\ full \in Seq(Stmt) /\ Len(full) = Len(s) + Len(t)
      /\ \A i \in 1 .. Len(s) + Len(t) : full[i] = IF i <= Len(s) THEN s[i] ELSE t[i - Len(s)]
  <2>. HIDE DEF s, t
  <2>1. full = s \o t
    BY DEF s, t
  <2>. QED
    BY <1>1, <2>1, ConcatProperties
<1>. HIDE DEF s, t
<1>5. \A i \in 1 .. Len(s) : full[i] = s[i] /\ i \in 1 .. Len(full)
  BY <1>1, <1>4
<1>6. \A i \in 1 .. Len(t) : full[i + Len(s)] = t[i] /\ i + Len(s) \in 1 .. Len(full)
  BY <1>1, <1>4
<1>7. ASSUME NEW i \in 1 .. Len(full)
      PROVE  \/ i \in 1 .. Len(s) /\ full[i] = s[i] /\ full[i].kind = "release"
             \/ i - Len(s) \in 1 .. Len(t) /\ full[i] = t[i - Len(s)] /\ full[i].kind = "reserve"
  <2>1. CASE i <= Len(s)
    BY <1>1, <1>2, <1>4, <2>1
  <2>2. CASE ~ i <= Len(s)
    <3>1. i - Len(s) \in 1 .. Len(t) /\ full[i] = t[i - Len(s)]
      BY <1>1, <1>4, <2>2
    <3>. QED
      BY <1>3, <3>1
  <2>. QED
    BY <2>1, <2>2
<1>8. ASSUME NEW i \in 1 .. Len(full), NEW j \in 1 .. Len(full), i < j, full[i].kind = "reserve"
      PROVE  full[j].kind = "reserve"
  BY <1>1, <1>4, <1>7, <1>8
<1>9. ASSUME NEW r \in Rows PROVE Did(full, Len(full), "release", r) = AllocationOf(p)[r]
  <2>1. Which(full, Len(full), "release", r) = Which(s, Len(s), "release", r)
    <3>1. \A i : i \in Which(full, Len(full), "release", r) <=> i \in Which(s, Len(s), "release", r)
      BY <1>5, <1>7 DEF Which
    <3>. QED
      BY <3>1
  <2>2. \A i \in Which(s, Len(s), "release", r) : full[i]["n"] = s[i]["n"]
    BY <1>5 DEF Which
  <2>3. SumOver(Which(s, Len(s), "release", r), full, "n") = SumOver(Which(s, Len(s), "release", r), s, "n")
    BY <2>2, SumCongruence
  <2>4. Did(s, Len(s), "release", r) = AllocationOf(p)[r]
    BY PlainTotals DEF s
  <2>. QED
    BY <2>1, <2>3, <2>4 DEF Did
<1>10. ASSUME NEW r \in Rows PROVE Did(full, Len(full), "reserve", r) = AllocationOf(q)[r]
  <2>. DEFINE S == Which(t, Len(t), "reserve", r)
              d == Len(s)
  <2>1. Which(full, Len(full), "reserve", r) = Shifted(S, d)
    <3>1. ASSUME NEW i \in Which(full, Len(full), "reserve", r) PROVE i \in {k + d : k \in S}
      <4>1. i \in 1 .. Len(full) /\ full[i].kind = "reserve" /\ full[i].row = r
        BY DEF Which
      <4>2. i - d \in 1 .. Len(t) /\ full[i] = t[i - d]
        BY <1>7, <4>1
      <4>3. i - d \in S /\ i = (i - d) + d
        BY <1>1, <4>1, <4>2 DEF Which
      <4>. HIDE DEF S
      <4>. QED
        BY <4>3
    <3>2. ASSUME NEW k \in S PROVE k + d \in Which(full, Len(full), "reserve", r)
      BY <1>6 DEF Which
    <3>. HIDE DEF S, d
    <3>. QED
      BY <3>1, <3>2 DEF Shifted
  <2>2. S \in SUBSET Nat /\ IsFiniteSet(S) /\ d \in Nat
    <3>1. Len(t) \in 0 .. Len(t)
      BY <1>1
    <3>2. IsFiniteSet(S)
      BY <1>1, <3>1, DidType
    <3>. QED
      BY <1>1, <3>2 DEF Which
  <2>3. \A i \in S : t[i]["n"] \in Nat /\ full[i + d]["n"] = t[i]["n"]
    BY <1>1, <1>6 DEF Which
  <2>4. Did(t, Len(t), "reserve", r) = AllocationOf(q)[r]
    BY PlainTotals DEF t
  <2>. HIDE DEF S, d
  <2>5. SumOver(Shifted(S, d), full, "n") = SumOver(S, t, "n")
    <3>1. Carried(S, d, t, full, "n")
      BY <2>3 DEF Carried
    <3>2. S \in SUBSET Nat /\ IsFiniteSet(S) /\ d \in Nat
      BY <2>2
    <3>. QED
      BY <3>1, <3>2, SumShift
  <2>. QED
    BY <2>1, <2>4, <2>5 DEF Did, S
<1>11. ASSUME NEW r \in Rows PROVE Did(full, Len(full), "ship", r) = 0
  <2>1. \A i \in 1 .. Len(full) : ~(full[i].kind = "ship" /\ full[i].row = r)
    BY <1>7
  <2>. QED
    BY <2>1, DidNothing
<1>. QED
  BY <1>4, <1>8, <1>9, <1>10, <1>11 DEF ReleasesFirst, Exchanged

(* The clean-up releases of each row the sum of what it found.             *)
LEMMA CleanupTotals ==
    ASSUME TypeOK, NEW order \in SetToSeqs({r \in Rows : CleanupSums[r] > 0}), NEW full,
           full = [i \in DOMAIN order |-> [kind |-> "release", row |-> order[i], n |-> CleanupSums[order[i]]]]
    PROVE  /\ \A i \in 1 .. Len(full) : full[i].kind = "release"
           /\ \A r \in Rows : Did(full, Len(full), "release", r) = CleanupSums[r]
<1>. DEFINE S == {r \in Rows : CleanupSums[r] > 0}
            n == Cardinality(S)
<1>1. full \in Seq(Stmt)
  <2>1. PICK list : list = full
    OBVIOUS
  <2>2. TodoOK("cleanup", list)
    BY <2>1, CleanupStatements
  <2>. QED
    BY <2>1, <2>2 DEF TodoOK
<1>2. IsFiniteSet(S) /\ n \in Nat
  BY RacesAssumption, FS_Subset, FS_CardinalityType
<1>3. /\ order \in [1 .. n -> S] /\ DOMAIN order = 1 .. n
      /\ \A i, j \in 1 .. n : i # j => order[i] # order[j]
  BY DEF SetToSeqs
<1>4. CleanupSums \in [Rows -> Nat]
  BY SumsOfCleanup
<1>5. \A r \in S : \E i \in 1 .. n : order[i] = r
  <2>. HIDE DEF S
  <2>1. order \in Injection(1 .. n, S)
    BY <1>3 DEF Injection, IsInjective
  <2>2. Cardinality(1 .. n) = n
    BY <1>2, FS_Interval
  <2>3. order \in Surjection(1 .. n, S)
    BY <1>2, <2>1, <2>2, FS_Injection
  <2>. QED
    BY <2>3 DEF Surjection
<1>6. Len(full) = n
  <2>1. DOMAIN full = 1 .. n
    BY <1>3
  <2>2. Len(full) \in Nat /\ DOMAIN full = 1 .. Len(full)
    BY <1>1, StatementTypes
  <2>. HIDE DEF n
  <2>. QED
    BY <1>2, <2>1, <2>2
<1>7. ASSUME NEW i \in 1 .. n
      PROVE  full[i].kind = "release" /\ full[i].row = order[i] /\ full[i].n = CleanupSums[order[i]]
  <2>1. PICK x : x = [kind |-> "release", row |-> order[i], n |-> CleanupSums[order[i]]]
    OBVIOUS
  <2>2. x.kind = "release" /\ x.row = order[i] /\ x.n = CleanupSums[order[i]]
    BY <2>1
  <2>3. full[i] = x
    BY <1>3, <2>1
  <2>. QED
    BY <2>2, <2>3
<1>8. ASSUME NEW r \in Rows PROVE Did(full, n, "release", r) = CleanupSums[r]
  <2>1. CASE r \in S
    <3>1. PICK i \in 1 .. n : order[i] = r
      BY <1>5, <2>1
    <3>2. Which(full, n, "release", r) = {i}
      <4>1. \A j \in 1 .. n : full[j].row = r <=> j = i
        BY <1>3, <1>7, <3>1
      <4>2. \A j \in 1 .. n : full[j].kind = "release"
        BY <1>7
      <4>. HIDE DEF n
      <4>. QED
        BY <4>1, <4>2 DEF Which
    <3>3. full[i]["n"] = CleanupSums[r] /\ CleanupSums[r] \in Nat
      <4>1. full[i].n = CleanupSums[r]
        BY <1>7, <3>1
      <4>2. full[i]["n"] = full[i].n
        BY <1>1, <1>6, StatementTypes
      <4>3. CleanupSums[r] \in Nat
        BY <1>4
      <4>. QED
        BY <4>1, <4>2, <4>3
    <3>4. SumOver({i}, full, "n") = full[i]["n"]
      <4>1. full[i]["n"] \in Nat
        BY <3>3
      <4>. HIDE DEF n
      <4>. QED
        BY <4>1, SumSingle, Zenon
    <3>. QED
      BY <3>2, <3>3, <3>4 DEF Did
  <2>2. CASE r \notin S
    <3>1. \A i \in 1 .. n : ~(full[i].kind = "release" /\ full[i].row = r)
      BY <1>3, <1>7, <2>2
    <3>2. Did(full, n, "release", r) = 0
      <4>. HIDE DEF n
      <4>. QED
        BY <3>1, DidNothing
    <3>. QED
      BY <1>4, <2>2, <3>2
  <2>. QED
    BY <2>1, <2>2
<1>. QED
  BY <1>6, <1>7, <1>8

-----------------------------------------------------------------------------
(* What the handlers are to do depends on their tasks alone.               *)
LEMMA MeantStays ==
    ASSUME NEW full, NEW op, NEW tasks \in SUBSET Tasks, NEW plan, Meant(full, op, tasks, plan),
           \A t \in tasks : status'[t] = status[t] /\ items'[t] = items[t]
    PROVE  Meant(full, op, tasks, plan)'
<1>1. (tasks \cap InProgress)' = tasks \cap InProgress
  BY DEF InProgress
<1>2. \A t \in tasks : Allocations'[t] = Allocations[t]
  BY DEF Allocations
<1>3. ASSUME NEW r \in Rows
      PROVE  /\ HeldBy(tasks, r)' = HeldBy(tasks, r)
             /\ SumOver(tasks, Allocations, r)' = SumOver(tasks, Allocations, r)
  <2>1. PICK g : g = Allocations'
    OBVIOUS
  <2>2. \A t \in tasks : Allocations[t][r] = g[t][r]
    BY <1>2, <2>1
  <2>3. \A S \in SUBSET tasks : SumOver(S, Allocations, r) = SumOver(S, g, r)
    BY <2>2, SumCongruence
  <2>4. tasks \cap InProgress \in SUBSET tasks
    OBVIOUS
  <2>5. SumOver(tasks \cap InProgress, Allocations, r) = SumOver(tasks \cap InProgress, g, r)
    BY <2>3, <2>4
  <2>. QED
    BY <1>1, <2>1, <2>3, <2>5 DEF HeldBy
<1>. QED
  BY <1>1, <1>3 DEF Meant, Releases, Ships, Reserves

(* A transaction nobody else touches goes on as it was.                    *)
LEMMA UnderwayStays ==
    ASSUME NEW c \in Clients, NEW tasks \in SUBSET Tasks, tasks = tx[c].tasks, SerialTx(c), tx'[c] = tx[c],
           \A r \in Written(c) : quantity'[r] = quantity[r] /\ reserved'[r] = reserved[r],
           \A t \in tasks : status'[t] = status[t] /\ items'[t] = items[t],
           tx[c].op = "cleanup" => Stale' = Stale
    PROVE  SerialTx(c)'
<1>1. CASE tx[c].op = "none"
  BY <1>1 DEF SerialTx
<1>2. CASE tx[c].op # "none"
  <2>1. PICK full : Underway(c, full)
    BY <1>2 DEF SerialTx
  <2>2. PICK op, plan, todo, rows : op = tx[c].op /\ plan = tx[c].plan /\ todo = tx[c].todo /\ rows = tx[c].rows
    OBVIOUS
  <2>3. Meant(full, op, tasks, plan)'
    BY <2>1, <2>2, MeantStays DEF Underway
  <2>4. About(op, tasks)'
    <3>1. About(op, tasks)
      BY <1>2, <2>2 DEF SerialTx
    <3>. QED
      BY <2>2, <3>1 DEF About
  <2>5. \A r \in DOMAIN rows : Made(full, Len(full) - Len(todo), r, rows[r])'
    <3>1. \A r \in DOMAIN rows : Made(full, Len(full) - Len(todo), r, rows[r])
      BY <2>1, <2>2 DEF Underway, Written
    <3>2. \A r \in DOMAIN rows : quantity'[r] = quantity[r] /\ reserved'[r] = reserved[r]
      BY <2>2 DEF Written
    <3>. QED
      BY <3>1, <3>2 DEF Made
  <2>6. Began(full, todo, DOMAIN rows)
    BY <2>1, <2>2 DEF Underway, Written
  <2>7. /\ tx'[c].op = op /\ tx'[c].plan = plan /\ tx'[c].todo = todo /\ tx'[c].rows = rows
        /\ tx'[c].tasks = tasks
    BY <2>2
  <2>8. Underway(c, full)'
    BY <2>3, <2>5, <2>6, <2>7 DEF Underway, Written, Began
  <2>. QED
    BY <2>4, <2>7, <2>8 DEF SerialTx
<1>. QED
  BY <1>1, <1>2

(* A transaction begins.                                                   *)
LEMMA BeginUnderway ==
    ASSUME RacesInv, NEW c \in Clients, NEW op, NEW tasks, NEW plan, NEW todo,
           todo \in Seq(Stmt),
           ReleasesFirst(todo),
           About(op, tasks), Meant(todo, op, tasks, plan), Begin(c, op, tasks, plan, todo)
    PROVE  SerialTx(c)'
<1>1. PICK x : x = [op |-> op, tasks |-> tasks, plan |-> plan, todo |-> todo, rows |-> <<>>]
  OBVIOUS
<1>2. /\ x.op = op /\ x.tasks = tasks /\ x.plan = plan /\ x.todo = todo /\ x.rows = <<>>
      /\ DOMAIN x.rows = {}
  BY <1>1
<1>3. tx' = [tx EXCEPT ![c] = x] /\ UNCHANGED committed
  BY <1>1, Zenon DEF Begin
<1>4. tx'[c] = x
  BY <1>3 DEF RacesInv
<1>5. status' = status /\ items' = items /\ age' = age
  BY <1>3 DEF committed
<1>6. Began(todo, todo, {})
  <2>1. Len(todo) \in Nat
    BY LenProperties
  <2>2. Len(todo) - Len(todo) = 0 /\ \A i \in 1 .. Len(todo) : 0 + i = i
    BY <2>1
  <2>. QED
    BY <2>2 DEF Began
<1>7. Meant(todo, op, tasks, plan)'
  BY <1>5 DEF Meant, Releases, Ships, Reserves, HeldBy, InProgress, Allocations
<1>8. About(op, tasks)'
  BY <1>5 DEF About, Stale, StaleInProgress, StaleWaiting, InProgress
<1>9. Underway(c, todo)'
  BY <1>2, <1>4, <1>6, <1>7 DEF Underway, Written, Began
<1>. QED
  BY <1>2, <1>4, <1>8, <1>9 DEF SerialTx

(* What one task holds is its allocation while it is in progress.          *)
LEMMA OneTask ==
    ASSUME TypeOK, NEW t \in Tasks, NEW r \in Rows
    PROVE  /\ AllocationOf(items[t])[r] \in Nat /\ Allocations[t][r] = AllocationOf(items[t])[r]
           /\ SumOver({t}, Allocations, r) = AllocationOf(items[t])[r]
           /\ HeldBy({t}, r) = IF status[t] = "in_progress" THEN AllocationOf(items[t])[r] ELSE 0
<1>1. items[t] \in Plans \cup {<<>>} /\ Allocations[t] = AllocationOf(items[t])
  BY DEF TypeOK, Allocations
<1>2. AllocationOf(items[t]) \in [Rows -> Nat]
  BY <1>1, AllocationType
<1>3. Allocations[t][r] \in Nat /\ Allocations[t][r] = AllocationOf(items[t])[r]
  BY <1>1, <1>2
<1>4. SumOver({t}, Allocations, r) = Allocations[t][r]
  BY <1>3, SumSingle
<1>5. CASE status[t] = "in_progress"
  <2>1. {t} \cap InProgress = {t}
    BY <1>5 DEF InProgress
  <2>. QED
    BY <1>2, <1>3, <1>4, <1>5, <2>1 DEF HeldBy
<1>6. CASE status[t] # "in_progress"
  <2>1. {t} \cap InProgress = {}
    BY <1>6 DEF InProgress
  <2>2. HeldBy({t}, r) = 0
    BY <2>1, SumEmpty DEF HeldBy
  <2>. QED
    BY <1>2, <1>3, <1>4, <1>6, <2>2
<1>. QED
  BY <1>5, <1>6

(* No statements do nothing.                                               *)
LEMMA EmptyTotals ==
    ASSUME NEW full, full = <<>>, NEW kind, NEW r
    PROVE  Len(full) = 0 /\ full \in Seq(Stmt) /\ Did(full, Len(full), kind, r) = 0
<1>1. Len(full) = 0 /\ full \in Seq(Stmt)
  BY EmptySeq
<1>2. \A i \in 1 .. Len(full) : ~(full[i].kind = kind /\ full[i].row = r)
  BY <1>1
<1>. QED
  BY <1>1, <1>2, DidNothing

(* A start, a cancellation and a completion mean one statement a line.     *)
LEMMA PlainMeans ==
    ASSUME TypeOK, NEW t \in Tasks, NEW kind \in {"reserve", "release", "ship"}, NEW op, NEW plan, NEW full,
           full = Statements(kind, items[t]),
           \/ op = "start" /\ kind = "reserve" /\ status[t] \in Waiting
           \/ op = "cancel" /\ kind = "release" /\ status[t] = "in_progress"
           \/ op = "complete" /\ kind = "ship" /\ status[t] = "in_progress"
    PROVE  /\ full \in Seq(Stmt) /\ Meant(full, op, {t}, plan) /\ About(op, {t})
           /\ ReleasesFirst(full)
<1>1. items[t] \in Plans \cup {<<>>}
  BY DEF TypeOK
<1>2. full \in Seq(Stmt) /\ Len(full) = Len(items[t]) /\ \A i \in 1 .. Len(items[t]) : full[i].kind = kind
  BY <1>1, StatementsOfItems
<1>3. ASSUME NEW r \in Rows
      PROVE  /\ Did(full, Len(full), "release", r) = Releases(op, {t}, r)
             /\ Did(full, Len(full), "ship", r) = Ships(op, {t}, r)
             /\ Did(full, Len(full), "reserve", r) = Reserves(op, {t}, plan, r)
  <2>1. \A other : Did(full, Len(full), other, r) = IF other = kind THEN AllocationOf(items[t])[r] ELSE 0
    BY <1>1, PlainTotals
  <2>2. /\ SumOver({t}, Allocations, r) = AllocationOf(items[t])[r]
        /\ HeldBy({t}, r) = IF status[t] = "in_progress" THEN AllocationOf(items[t])[r] ELSE 0
    BY OneTask
  <2>. QED
    BY <2>1, <2>2 DEF Releases, Ships, Reserves, Waiting
<1>4. About(op, {t})
  BY DEF About, Allowed, Waiting
<1>. QED
  BY <1>2, <1>3, <1>4 DEF Meant, ReleasesFirst

(* A task that waits has nothing to release.                               *)
LEMMA NothingMeans ==
    ASSUME TypeOK, NEW t \in Tasks, NEW op \in {"cancel", "edit"}, NEW plan, NEW full, full = <<>>,
           status[t] \in Waiting
    PROVE  /\ full \in Seq(Stmt) /\ Meant(full, op, {t}, plan) /\ About(op, {t})
           /\ ReleasesFirst(full)
<1>1. \A kind, r : Len(full) = 0 /\ full \in Seq(Stmt) /\ Did(full, Len(full), kind, r) = 0
  BY EmptyTotals
<1>2. ASSUME NEW r \in Rows
      PROVE  /\ Did(full, Len(full), "release", r) = Releases(op, {t}, r)
             /\ Did(full, Len(full), "ship", r) = Ships(op, {t}, r)
             /\ Did(full, Len(full), "reserve", r) = Reserves(op, {t}, plan, r)
  <2>1. HeldBy({t}, r) = IF status[t] = "in_progress" THEN AllocationOf(items[t])[r] ELSE 0
    BY OneTask
  <2>2. {t} \cap InProgress = {}
    BY DEF Waiting, InProgress
  <2>. QED
    BY <1>1, <2>1, <2>2 DEF Releases, Ships, Reserves, Waiting
<1>3. About(op, {t})
  BY DEF About, Allowed, Waiting
<1>. QED
  BY <1>1, <1>2, <1>3 DEF Meant, ReleasesFirst

(* An edit of a started task releases its lines, then reserves.            *)
LEMMA EditMeans ==
    ASSUME TypeOK, NEW t \in Tasks, NEW plan \in Plans, NEW full,
           full = Statements("release", items[t]) \o Statements("reserve", plan), status[t] = "in_progress"
    PROVE  /\ full \in Seq(Stmt) /\ Meant(full, "edit", {t}, plan) /\ About("edit", {t})
           /\ ReleasesFirst(full)
<1>1. items[t] \in Plans \cup {<<>>} /\ plan \in Plans \cup {<<>>}
  BY DEF TypeOK
<1>2. /\ full \in Seq(Stmt)
      /\ ReleasesFirst(full)
      /\ \A r \in Rows : /\ Did(full, Len(full), "release", r) = AllocationOf(items[t])[r]
                         /\ Did(full, Len(full), "reserve", r) = AllocationOf(plan)[r]
                         /\ Did(full, Len(full), "ship", r) = 0
  <2>1. PICK p \in Plans \cup {<<>>} : p = items[t]
    BY <1>1
  <2>2. full = Statements("release", p) \o Statements("reserve", plan)
    BY <2>1
  <2>3. full \in Seq(Stmt) /\ ReleasesFirst(full) /\ Exchanged(full, p, plan)
    BY <1>1, <2>2, EditTotals
  <2>. QED
    BY <2>1, <2>3 DEF Exchanged
<1>3. ASSUME NEW r \in Rows
      PROVE  /\ Did(full, Len(full), "release", r) = Releases("edit", {t}, r)
             /\ Did(full, Len(full), "ship", r) = Ships("edit", {t}, r)
             /\ Did(full, Len(full), "reserve", r) = Reserves("edit", {t}, plan, r)
  <2>1. HeldBy({t}, r) = AllocationOf(items[t])[r]
    BY OneTask
  <2>2. {t} \cap InProgress # {}
    BY DEF InProgress
  <2>. QED
    BY <1>2, <2>1, <2>2 DEF Releases, Ships, Reserves
<1>4. About("edit", {t})
  BY DEF About, Allowed
<1>. QED
  BY <1>2, <1>3, <1>4 DEF Meant

(* The clean-up means to release what the stale tasks hold.                *)
LEMMA CleanupMeans ==
    ASSUME TypeOK, Stale # {}, NEW order \in SetToSeqs({r \in Rows : CleanupSums[r] > 0}), NEW plan, NEW full,
           full = [i \in DOMAIN order |-> [kind |-> "release", row |-> order[i], n |-> CleanupSums[order[i]]]]
    PROVE  /\ full \in Seq(Stmt) /\ Meant(full, "cleanup", Stale, plan) /\ About("cleanup", Stale)
           /\ ReleasesFirst(full)
<1>1. /\ \A i \in 1 .. Len(full) : full[i].kind = "release"
      /\ \A r \in Rows : Did(full, Len(full), "release", r) = CleanupSums[r]
  BY CleanupTotals
<1>2. full \in Seq(Stmt)
  <2>1. TodoOK("cleanup", full)
    BY CleanupStatements
  <2>. QED
    BY <2>1 DEF TodoOK
<1>3. Stale \cap InProgress = StaleInProgress
  BY DEF Stale, StaleInProgress, StaleWaiting, InProgress
<1>4. ASSUME NEW r \in Rows
      PROVE  /\ Did(full, Len(full), "release", r) = Releases("cleanup", Stale, r)
             /\ Did(full, Len(full), "ship", r) = Ships("cleanup", Stale, r)
             /\ Did(full, Len(full), "reserve", r) = Reserves("cleanup", Stale, plan, r)
  <2>1. HeldBy(Stale, r) = CleanupSums[r]
    BY <1>3 DEF HeldBy, CleanupSums
  <2>2. /\ \A i \in 1 .. Len(full) : ~(full[i].kind = "ship" /\ full[i].row = r)
        /\ \A i \in 1 .. Len(full) : ~(full[i].kind = "reserve" /\ full[i].row = r)
    BY <1>1
  <2>3. Did(full, Len(full), "ship", r) = 0 /\ Did(full, Len(full), "reserve", r) = 0
    BY <2>2, DidNothing
  <2>. QED
    BY <1>1, <2>1, <2>3 DEF Releases, Ships, Reserves
<1>5. About("cleanup", Stale)
  <2>1. \A t \in Stale : t \in Tasks /\ status[t] \in {"open", "assigned", "in_progress"}
    BY DEF Stale, StaleInProgress, StaleWaiting, InProgress
  <2>. QED
    BY <2>1 DEF About, Allowed, Waiting
<1>. QED
  BY <1>1, <1>2, <1>4, <1>5 DEF Meant, ReleasesFirst

(* Requests begin with the statements of their handler.                    *)
LEMMA BeginOnUnderway ==
    ASSUME RacesInv, NEW c \in Clients, NEW t \in Tasks, BeginOn(c, t)
    PROVE  /\ SerialTx(c)' /\ tx'[c].tasks = {t} /\ UNCHANGED committed
           /\ \A d \in Clients \ {c} : tx'[d] = tx[d]
<1>0. TypeOK
  BY DEF RacesInv
<1>1. ASSUME NEW op, NEW plan, NEW todo, Begin(c, op, {t}, plan, todo)
      PROVE  tx'[c].tasks = {t} /\ UNCHANGED committed /\ \A d \in Clients \ {c} : tx'[d] = tx[d]
  <2>1. PICK x : x = [op |-> op, tasks |-> {t}, plan |-> plan, todo |-> todo, rows |-> <<>>]
    OBVIOUS
  <2>2. x.tasks = {t} /\ tx' = [tx EXCEPT ![c] = x] /\ UNCHANGED committed
    BY <1>1, <2>1 DEF Begin
  <2>. QED
    BY <2>2 DEF RacesInv
<1>2. CASE BeginStart(c, t)
  <2>1. PICK todo : todo = Statements("reserve", items[t])
    OBVIOUS
  <2>2. Begin(c, "start", {t}, <<>>, todo) /\ status[t] \in Waiting
    BY <1>2, <2>1 DEF BeginStart, Waiting
  <2>3. /\ todo \in Seq(Stmt) /\ Meant(todo, "start", {t}, <<>>) /\ About("start", {t})
        /\ ReleasesFirst(todo)
    BY <1>0, <2>1, <2>2, PlainMeans
  <2>. QED
    BY <1>1, <2>2, <2>3, BeginUnderway
<1>3. CASE BeginCancel(c, t)
  <2>1. PICK todo : todo = IF status[t] = "in_progress" THEN Statements("release", items[t]) ELSE <<>>
    OBVIOUS
  <2>2. Begin(c, "cancel", {t}, <<>>, todo) /\ status[t] \in Waiting \cup {"in_progress"}
    BY <1>3, <2>1 DEF BeginCancel, Waiting
  <2>3. /\ todo \in Seq(Stmt) /\ Meant(todo, "cancel", {t}, <<>>) /\ About("cancel", {t})
        /\ ReleasesFirst(todo)
    <3>1. CASE status[t] = "in_progress"
      <4>1. todo = Statements("release", items[t])
        BY <2>1, <3>1
      <4>. QED
        BY <1>0, <3>1, <4>1, PlainMeans
    <3>2. CASE status[t] \in Waiting
      <4>1. todo = <<>>
        BY <2>1, <3>2 DEF Waiting
      <4>. QED
        BY <1>0, <3>2, <4>1, NothingMeans
    <3>. QED
      BY <2>2, <3>1, <3>2
  <2>. QED
    BY <1>1, <2>2, <2>3, BeginUnderway
<1>4. ASSUME NEW plan \in Plans, BeginEdit(c, t, plan)
      PROVE  /\ SerialTx(c)' /\ tx'[c].tasks = {t} /\ UNCHANGED committed
             /\ \A d \in Clients \ {c} : tx'[d] = tx[d]
  <2>1. PICK todo : todo = IF status[t] = "in_progress"
                           THEN Statements("release", items[t]) \o Statements("reserve", plan)
                           ELSE <<>>
    OBVIOUS
  <2>2. Begin(c, "edit", {t}, plan, todo) /\ status[t] \in Waiting \cup {"in_progress"}
    BY <1>4, <2>1 DEF BeginEdit, Waiting
  <2>3. /\ todo \in Seq(Stmt) /\ Meant(todo, "edit", {t}, plan) /\ About("edit", {t})
        /\ ReleasesFirst(todo)
    <3>1. CASE status[t] = "in_progress"
      <4>1. todo = Statements("release", items[t]) \o Statements("reserve", plan)
        BY <2>1, <3>1
      <4>. QED
        BY <1>0, <3>1, <4>1, EditMeans
    <3>2. CASE status[t] \in Waiting
      <4>1. todo = <<>>
        BY <2>1, <3>2 DEF Waiting
      <4>. QED
        BY <1>0, <3>2, <4>1, NothingMeans
    <3>. QED
      BY <2>2, <3>1, <3>2
  <2>. QED
    BY <1>1, <2>2, <2>3, BeginUnderway
<1>5. CASE BeginComplete(c, t)
  <2>1. PICK todo : todo = Statements("ship", items[t])
    OBVIOUS
  <2>2. Begin(c, "complete", {t}, <<>>, todo) /\ status[t] = "in_progress"
    BY <1>5, <2>1 DEF BeginComplete
  <2>3. /\ todo \in Seq(Stmt) /\ Meant(todo, "complete", {t}, <<>>) /\ About("complete", {t})
        /\ ReleasesFirst(todo)
    BY <1>0, <2>1, <2>2, PlainMeans
  <2>. QED
    BY <1>1, <2>2, <2>3, BeginUnderway
<1>. QED
  BY <1>2, <1>3, <1>4, <1>5 DEF BeginOn

(* The clean-up begins with its sums.                                      *)
LEMMA CleanupUnderway ==
    ASSUME RacesInv, NEW c \in Clients, BeginCleanup(c)
    PROVE  /\ SerialTx(c)' /\ tx'[c].tasks = Stale /\ UNCHANGED committed
           /\ \A d \in Clients \ {c} : tx'[d] = tx[d]
<1>1. PICK order \in SetToSeqs({r \in Rows : CleanupSums[r] > 0}) :
          Begin(c, "cleanup", Stale, <<>>, [i \in DOMAIN order |->
               [kind |-> "release", row |-> order[i], n |-> CleanupSums[order[i]]]])
  BY DEF BeginCleanup, CleanupSums
<1>2. PICK todo : todo = [i \in DOMAIN order |->
               [kind |-> "release", row |-> order[i], n |-> CleanupSums[order[i]]]]
  OBVIOUS
<1>3. PICK tasks : tasks = Stale
  OBVIOUS
<1>4. Begin(c, "cleanup", tasks, <<>>, todo)
  BY <1>1, <1>2, <1>3
<1>5. /\ todo \in Seq(Stmt) /\ Meant(todo, "cleanup", tasks, <<>>) /\ About("cleanup", tasks)
      /\ ReleasesFirst(todo)
  BY <1>2, <1>3, CleanupMeans DEF RacesInv, BeginCleanup
<1>6. SerialTx(c)'
  BY <1>4, <1>5, BeginUnderway
<1>7. tx'[c].tasks = tasks /\ UNCHANGED committed /\ \A d \in Clients \ {c} : tx'[d] = tx[d]
  <2>1. PICK x : x = [op |-> "cleanup", tasks |-> tasks, plan |-> <<>>, todo |-> todo, rows |-> <<>>]
    OBVIOUS
  <2>2. x.tasks = tasks /\ tx' = [tx EXCEPT ![c] = x] /\ UNCHANGED committed
    BY <1>4, <2>1 DEF Begin
  <2>. QED
    BY <2>2 DEF RacesInv
<1>. QED
  BY <1>3, <1>6, <1>7

-----------------------------------------------------------------------------
(* A transaction executes a statement.                                     *)
LEMMA RowMade ==
    ASSUME RacesInv, NEW c \in Clients, NEW full, Underway(c, full), NEW r \in Rows
    PROVE  Made(full, Len(full) - Len(tx[c].todo), r, Row(c, r))
<1>1. CASE r \in Written(c)
  BY <1>1 DEF Underway, Row, Written
<1>2. CASE r \notin Written(c)
  <2>1. PICK w : w = [quantity |-> quantity[r], reserved |-> reserved[r]]
    OBVIOUS
  <2>2. w.quantity = quantity[r] /\ w.reserved = reserved[r]
    BY <2>1
  <2>3. Row(c, r) = w
    BY <1>2, <2>1 DEF Row, Written
  <2>4. quantity[r] \in Int /\ reserved[r] \in Nat
    BY DEF RacesInv, TypeOK
  <2>5. PICK k : k = Len(full) - Len(tx[c].todo)
    OBVIOUS
  <2>6. \A i \in 1 .. k : full[i].row # r
    BY <1>2, <2>5 DEF Underway, Began
  <2>7. \A kind : Did(full, k, kind, r) = 0
    BY <2>6, DidNothing
  <2>8. Made(full, k, r, w)
    BY <2>2, <2>4, <2>7 DEF Made, Floor
  <2>. QED
    BY <2>3, <2>5, <2>8
<1>. QED
  BY <1>1, <1>2

(* Releasing twice is releasing the sum.                                   *)
LEMMA Floors ==
    ASSUME NEW x \in Nat, NEW m \in Nat, NEW n \in Nat
    PROVE  Floor(x, m) \in Nat /\ Floor(Floor(x, m), n) = Floor(x, m + n)
BY DEF Floor

(* A statement about another row makes nothing of this one.                *)
LEMMA MadeElsewhere ==
    ASSUME NEW full \in Seq(Stmt), NEW k \in Nat, k < Len(full), NEW r, full[k + 1].row # r, NEW w,
           Made(full, k, r, w)
    PROVE  Made(full, k + 1, r, w)
<1>1. Len(full) \in Nat
  BY StatementTypes
<1>2. \A kind : Did(full, k, kind, r) \in Nat
  BY <1>1, DidType
<1>3. \A kind : Did(full, k + 1, kind, r) = Did(full, k, kind, r)
  BY <1>2, DidNext
<1>. QED
  BY <1>3 DEF Made

(* A statement makes of its row what the list asks so far.                 *)
LEMMA MadeNext ==
    ASSUME NEW full \in Seq(Stmt), ReleasesFirst(full), NEW k \in Nat, k < Len(full), NEW r,
           quantity[r] \in Int, reserved[r] \in Nat, NEW w \in [quantity : Int, reserved : Nat],
           Made(full, k, r, w), NEW s \in Stmt, s = full[k + 1], s.row = r, HasStock(w, s)
    PROVE  Made(full, k + 1, r, Updated(w, s))
<1>1. Len(full) \in Nat /\ s.n \in Nat /\ s.kind \in {"reserve", "release", "ship"}
  BY StatementTypes DEF Stmt
<1>2. \A kind : Did(full, k, kind, r) \in Nat
  BY <1>1, DidType
<1>3. \A kind : Did(full, k + 1, kind, r) = Did(full, k, kind, r) + IF kind = s.kind THEN s.n ELSE 0
  BY DidNext
<1>4. PICK R, S, V : R = Did(full, k, "release", r) /\ S = Did(full, k, "ship", r) /\ V = Did(full, k, "reserve", r)
  OBVIOUS
<1>5. R \in Nat /\ S \in Nat /\ V \in Nat
  BY <1>2, <1>4
<1>6. /\ w.quantity = quantity[r] - S /\ w.reserved = Floor(reserved[r], R + S) + V
  BY <1>4 DEF Made
<1>0. /\ Floor(reserved[r], R + S) \in Nat
      /\ \A n \in Nat : Floor(Floor(reserved[r], R + S), n) = Floor(reserved[r], (R + S) + n)
  <2>1. PICK b, m : b = reserved[r] /\ m = R + S
    OBVIOUS
  <2>2. b \in Nat /\ m \in Nat
    BY <1>5, <2>1
  <2>3. Floor(b, m) \in Nat
    BY <2>2, Floors
  <2>4. ASSUME NEW n \in Nat PROVE Floor(Floor(b, m), n) = Floor(b, m + n)
    BY <2>2, Floors
  <2>. QED
    BY <2>1, <2>3, <2>4
<1>7. s.kind # "reserve" => V = 0
  <2>. SUFFICES ASSUME s.kind # "reserve" PROVE V = 0
    OBVIOUS
  <2>1. \A i \in 1 .. k : ~(full[i].kind = "reserve" /\ full[i].row = r)
    BY <1>1 DEF ReleasesFirst
  <2>. QED
    BY <1>4, <2>1, DidNothing
<1>8. w.quantity \in Int /\ w.reserved \in Nat
  OBVIOUS
<1>9. CASE s.kind = "reserve"
  <2>1. PICK u : u = [w EXCEPT !.reserved = @ + s.n]
    OBVIOUS
  <2>2. Updated(w, s) = u
    BY <1>9, <2>1 DEF Updated
  <2>3. u.quantity = w.quantity /\ u.reserved = w.reserved + s.n
    BY <2>1
  <2>4. /\ Did(full, k + 1, "release", r) = R /\ Did(full, k + 1, "ship", r) = S
        /\ Did(full, k + 1, "reserve", r) = V + s.n
    BY <1>3, <1>4, <1>5, <1>9
  <2>5. w.quantity - w.reserved >= s.n
    BY <1>9 DEF HasStock
  <2>. HIDE <1>9
  <2>6. Made(full, k + 1, r, u)
    <3>1. u.reserved = Floor(reserved[r], R + S) + (V + s.n)
      <4>1. PICK F : F = Floor(reserved[r], R + S)
        OBVIOUS
      <4>2. F \in Nat /\ w.reserved = F + V
        BY <1>0, <1>6, <4>1
      <4>3. u.reserved = F + (V + s.n)
        BY <1>1, <1>5, <2>3, <4>2
      <4>. QED
        BY <4>1, <4>3
    <3>2. u.reserved <= u.quantity
      BY <1>1, <1>8, <2>3, <2>5
    <3>3. u.quantity = quantity[r] - S
      BY <1>6, <2>3
    <3>. QED
      BY <2>4, <3>1, <3>2, <3>3 DEF Made
  <2>. QED
    BY <2>2, <2>6
<1>10. CASE s.kind = "release"
  <2>1. PICK u : u = [w EXCEPT !.reserved = Released(w, s.n)]
    OBVIOUS
  <2>2. Updated(w, s) = u
    BY <1>10, <2>1 DEF Updated
  <2>3. u.quantity = w.quantity /\ u.reserved = Floor(w.reserved, s.n)
    BY <2>1 DEF Released, Floor
  <2>4. /\ Did(full, k + 1, "release", r) = R + s.n /\ Did(full, k + 1, "ship", r) = S
        /\ Did(full, k + 1, "reserve", r) = 0
    BY <1>3, <1>4, <1>5, <1>7, <1>10
  <2>5. w.reserved = Floor(reserved[r], R + S)
    BY <1>0, <1>6, <1>7, <1>10
  <2>6. Floor(w.reserved, s.n) = Floor(reserved[r], (R + s.n) + S)
    <3>1. (R + S) + s.n = (R + s.n) + S
      BY <1>1, <1>5
    <3>. QED
      BY <1>0, <1>1, <2>5, <3>1
  <2>7. Made(full, k + 1, r, u)
    <3>1. Floor(w.reserved, s.n) \in Nat
      BY <1>1, <1>8, Floors
    <3>. QED
      BY <1>6, <2>3, <2>4, <2>6, <3>1 DEF Made
  <2>. QED
    BY <2>2, <2>7
<1>11. CASE s.kind = "ship"
  <2>1. PICK u : u = [quantity |-> w.quantity - s.n, reserved |-> Released(w, s.n)]
    OBVIOUS
  <2>2. Updated(w, s) = u
    BY <1>11, <2>1 DEF Updated
  <2>3. u.quantity = w.quantity - s.n /\ u.reserved = Floor(w.reserved, s.n)
    BY <2>1 DEF Released, Floor
  <2>4. /\ Did(full, k + 1, "release", r) = R /\ Did(full, k + 1, "ship", r) = S + s.n
        /\ Did(full, k + 1, "reserve", r) = 0
    BY <1>3, <1>4, <1>5, <1>7, <1>11
  <2>5. w.reserved = Floor(reserved[r], R + S)
    BY <1>0, <1>6, <1>7, <1>11
  <2>6. Floor(w.reserved, s.n) = Floor(reserved[r], R + (S + s.n))
    <3>1. (R + S) + s.n = R + (S + s.n)
      BY <1>1, <1>5
    <3>. QED
      BY <1>0, <1>1, <2>5, <3>1
  <2>7. Made(full, k + 1, r, u)
    <3>1. quantity[r] - S - s.n = quantity[r] - (S + s.n)
      BY <1>1, <1>5
    <3>2. Floor(w.reserved, s.n) \in Nat
      BY <1>1, <1>8, Floors
    <3>. QED
      BY <1>6, <2>3, <2>4, <2>6, <3>1, <3>2 DEF Made
  <2>. QED
    BY <2>2, <2>7
<1>. QED
  BY <1>1, <1>9, <1>10, <1>11

(* A transaction that has executed a statement is underway still.          *)
LEMMA StatementUnderway ==
    ASSUME RacesInv, NEW c \in Clients, SerialTx(c), Statement(c)
    PROVE  /\ SerialTx(c)' /\ tx'[c].tasks = tx[c].tasks /\ tx'[c].op = tx[c].op /\ UNCHANGED committed
           /\ \A d \in Clients \ {c} : tx'[d] = tx[d]
<1>1. PICK s : s = Head(tx[c].todo)
  OBVIOUS
<1>2. /\ tx[c].todo # <<>> /\ HasStock(Row(c, s.row), s) /\ UNCHANGED committed
      /\ tx' = [tx EXCEPT ![c] = [tx[c] EXCEPT
             !.todo = Tail(@), !.rows = With(@, s.row, Updated(Row(c, s.row), s))]]
  BY <1>1, Zenon DEF Statement
<1>3. PICK w : w = Updated(Row(c, s.row), s)
  OBVIOUS
<1>4. PICK todo, rows : todo = tx[c].todo /\ rows = tx[c].rows
  OBVIOUS
<1>5. PICK x : x = [tx[c] EXCEPT !.todo = Tail(todo), !.rows = With(rows, s.row, w)]
  OBVIOUS
<1>6. TxInv(c) /\ tx[c] = [f \in Fields |-> tx[c][f]] /\ TodoOK(tx[c].op, todo)
  BY <1>4 DEF RacesInv, TxInv
<1>7. /\ x.op = tx[c].op /\ x.tasks = tx[c].tasks /\ x.plan = tx[c].plan
      /\ x.todo = Tail(todo) /\ x.rows = With(rows, s.row, w)
  BY <1>4, <1>5, <1>6 DEF Fields
<1>8. /\ DOMAIN x.rows = DOMAIN rows \cup {s.row} /\ x.rows[s.row] = w
      /\ \A r \in DOMAIN rows \ {s.row} : x.rows[r] = rows[r]
  BY <1>7 DEF With
<1>9. tx' = [tx EXCEPT ![c] = x]
  BY <1>2, <1>3, <1>4, <1>5
<1>10. tx'[c] = x /\ \A d \in Clients \ {c} : tx'[d] = tx[d]
  BY <1>9 DEF RacesInv
<1>11. UNCHANGED <<quantity, reserved, status, items, age>>
  BY <1>2 DEF committed
<1>12. /\ todo \in Seq(Stmt) /\ s \in Stmt /\ s = todo[1] /\ s.row \in Rows
       /\ Len(todo) \in Nat \ {0} /\ Len(Tail(todo)) = Len(todo) - 1
       /\ \A i \in 1 .. Len(Tail(todo)) : Tail(todo)[i] = todo[i + 1]
  <2>1. todo \in Seq(Stmt) /\ todo # <<>>
    BY <1>2, <1>4, <1>6 DEF TodoOK
  <2>2. /\ Head(todo) \in Stmt /\ Len(Tail(todo)) = Len(todo) - 1
        /\ \A i \in 1 .. Len(Tail(todo)) : Tail(todo)[i] = todo[i + 1]
    BY <2>1, HeadTailProperties
  <2>3. Len(todo) \in Nat \ {0}
    BY <2>1, EmptySeq
  <2>4. Head(todo) = todo[1]
    BY <2>1
  <2>5. Head(todo).row \in Rows
    BY <2>2 DEF Stmt
  <2>. QED
    BY <1>1, <1>4, <2>1, <2>2, <2>3, <2>4, <2>5
<1>13. ASSUME tx[c].op # "none" PROVE \E full : Underway(c, full)'
  <2>1. PICK full : Underway(c, full)
    BY <1>13 DEF SerialTx
  <2>2. PICK k : k = Len(full) - Len(todo)
    OBVIOUS
  <2>3. /\ full \in Seq(Stmt) /\ k \in Nat /\ ReleasesFirst(full)
        /\ \A i \in 1 .. Len(todo) : todo[i] = full[k + i]
        /\ \A i \in 1 .. k : full[i].row \in DOMAIN rows
    BY <1>4, <2>1, <2>2 DEF Underway, Began, Written
  <2>4. Len(full) \in Nat
    BY <2>3, StatementTypes
  <2>5. k < Len(full) /\ Len(full) - Len(Tail(todo)) = k + 1 /\ s = full[k + 1]
    BY <1>12, <2>2, <2>3, <2>4
  <2>6. Began(full, Tail(todo), DOMAIN x.rows)
    <3>1. \A i \in 1 .. Len(Tail(todo)) : Tail(todo)[i] = full[(k + 1) + i]
      <4>1. \A i \in 1 .. Len(Tail(todo)) : i + 1 \in 1 .. Len(todo) /\ k + (i + 1) = (k + 1) + i
        BY <1>12, <2>3
      <4>2. ASSUME NEW i \in 1 .. Len(Tail(todo)) PROVE Tail(todo)[i] = full[(k + 1) + i]
        <5>1. i + 1 \in 1 .. Len(todo) /\ k + (i + 1) = (k + 1) + i
          BY <4>1
        <5>2. Tail(todo)[i] = todo[i + 1] /\ todo[i + 1] = full[k + (i + 1)]
          BY <1>12, <2>3, <5>1
        <5>. QED
          BY <5>1, <5>2
      <4>. QED
        BY <4>2
    <3>2. \A i \in 1 .. (k + 1) : full[i].row \in DOMAIN x.rows
      <4>1. SUFFICES ASSUME NEW i \in 1 .. (k + 1) PROVE full[i].row \in DOMAIN x.rows
        OBVIOUS
      <4>2. full[k + 1].row \in DOMAIN x.rows
        BY <1>8, <2>5
      <4>3. \A j \in 1 .. k : full[j].row \in DOMAIN x.rows
        BY <1>8, <2>3
      <4>4. i \in 1 .. k \/ i = k + 1
        BY <2>3
      <4>5. CASE i = k + 1
        BY <4>2, <4>5, Zenon
      <4>. QED
        BY <4>3, <4>4, <4>5
    <3>3. PICK rest, m : rest = Tail(todo) /\ m = k + 1
      OBVIOUS
    <3>4. m \in Nat /\ Len(full) - Len(rest) = m
      <4>1. m \in Nat
        BY <2>3, <3>3
      <4>2. Len(full) - Len(rest) = m
        BY <2>5, <3>3, Zenon
      <4>. QED
        BY <4>1, <4>2
    <3>5. /\ \A i \in 1 .. Len(rest) : rest[i] = full[m + i]
          /\ \A i \in 1 .. m : full[i].row \in DOMAIN x.rows
      BY <3>1, <3>2, <3>3
    <3>6. Began(full, rest, DOMAIN x.rows)
      BY <2>3, <3>4, <3>5 DEF Began
    <3>. QED
      BY <3>3, <3>6
  <2>7. Meant(full, x.op, x.tasks, x.plan)'
    <3>1. PICK op, tasks, plan : op = tx[c].op /\ tasks = tx[c].tasks /\ plan = tx[c].plan
      OBVIOUS
    <3>2. Meant(full, op, tasks, plan) /\ tasks \in SUBSET Tasks
      BY <1>6, <2>1, <3>1 DEF Underway, TxInv
    <3>3. Meant(full, op, tasks, plan)'
      BY <1>11, <3>2, MeantStays
    <3>. QED
      BY <1>7, <3>1, <3>3
  <2>8. ASSUME NEW r \in DOMAIN x.rows PROVE Made(full, k + 1, r, x.rows[r])
    <3>1. CASE r = s.row
      <4>1. Made(full, k, r, Row(c, r)) /\ r \in Rows
        BY <1>4, <1>12, <2>1, <2>2, <3>1, RowMade
      <4>2. Row(c, r) \in [quantity : Int, reserved : Nat]
        BY <4>1, RowIsWritten DEF WriteOK
      <4>3. quantity[r] \in Int /\ reserved[r] \in Nat
        BY <4>1 DEF RacesInv, TypeOK
      <4>4. HasStock(Row(c, r), s) /\ x.rows[r] = Updated(Row(c, r), s)
        BY <1>2, <1>3, <1>8, <3>1
      <4>5. PICK v : v = Row(c, r)
        OBVIOUS
      <4>6. Made(full, k + 1, r, Updated(v, s))
        BY <1>12, <2>3, <2>5, <3>1, <4>1, <4>2, <4>3, <4>4, <4>5, MadeNext
      <4>. QED
        BY <4>4, <4>5, <4>6
    <3>2. CASE r # s.row
      <4>1. r \in DOMAIN rows /\ x.rows[r] = rows[r]
        BY <1>8, <3>2
      <4>2. Made(full, k, r, rows[r])
        BY <1>4, <2>1, <2>2, <4>1 DEF Underway, Written
      <4>3. full[k + 1].row # r
        BY <2>5, <3>2
      <4>4. PICK v : v = rows[r]
        OBVIOUS
      <4>5. Made(full, k + 1, r, v)
        BY <2>3, <2>5, <4>2, <4>3, <4>4, MadeElsewhere
      <4>. QED
        BY <4>1, <4>4, <4>5
    <3>. QED
      BY <3>1, <3>2
  <2>9. \A r \in DOMAIN x.rows : Made(full, k + 1, r, x.rows[r])'
    BY <1>11, <2>8 DEF Made
  <2>10. Underway(c, full)'
    BY <1>7, <1>10, <2>5, <2>6, <2>7, <2>9 DEF Underway, Written, Began
  <2>. QED
    BY <2>10
<1>14. x.op # "none" => About(x.op, x.tasks)'
  <2>. SUFFICES ASSUME About(x.op, x.tasks) PROVE About(x.op, x.tasks)'
    BY <1>7 DEF SerialTx
  <2>1. status' = status /\ Stale' = Stale
    BY <1>11 DEF Stale, StaleInProgress, StaleWaiting, InProgress
  <2>. QED
    BY <2>1 DEF About
<1>15. SerialTx(c)'
  BY <1>7, <1>10, <1>13, <1>14 DEF SerialTx
<1>. QED
  BY <1>2, <1>7, <1>10, <1>15

-----------------------------------------------------------------------------
(* What a transaction that has executed all its statements commits.        *)
Result(op, tasks, plan) ==
    /\ quantity' = [r \in Rows |-> quantity[r] - Ships(op, tasks, r)]
    /\ reserved' = [r \in Rows |-> Floor(reserved[r], Releases(op, tasks, r) + Ships(op, tasks, r))
                                   + Reserves(op, tasks, plan, r)]
    /\ \A r \in Rows : Reserves(op, tasks, plan, r) > 0 => reserved'[r] <= quantity'[r]

(* A finished transaction's rows hold what its handler means.              *)
LEMMA CommitResult ==
    ASSUME RacesInv, NEW c \in Clients, SerialTx(c), CommitRows(c),
           NEW op, op = tx[c].op, op # "none", NEW tasks, tasks = tx[c].tasks, NEW plan, plan = tx[c].plan
    PROVE  Result(op, tasks, plan)
<1>1. PICK full : Underway(c, full)
  BY DEF SerialTx
<1>2. tx[c].todo = <<>> /\ Len(tx[c].todo) = 0
  BY EmptySeq DEF CommitRows
<1>3. full \in Seq(Stmt) /\ Len(full) \in Nat /\ Len(full) - Len(tx[c].todo) = Len(full)
  BY <1>1, <1>2, StatementTypes DEF Underway, Began
<1>4. ASSUME NEW r \in Rows
      PROVE  /\ Row(c, r).quantity = quantity[r] - Ships(op, tasks, r)
             /\ Row(c, r).reserved = Floor(reserved[r], Releases(op, tasks, r) + Ships(op, tasks, r))
                                     + Reserves(op, tasks, plan, r)
             /\ Reserves(op, tasks, plan, r) > 0 => Row(c, r).reserved <= Row(c, r).quantity
  <2>1. PICK w : w = Row(c, r)
    OBVIOUS
  <2>2. Made(full, Len(full), r, w)
    BY <1>1, <1>3, <2>1, RowMade
  <2>3. /\ Did(full, Len(full), "release", r) = Releases(op, tasks, r)
        /\ Did(full, Len(full), "ship", r) = Ships(op, tasks, r)
        /\ Did(full, Len(full), "reserve", r) = Reserves(op, tasks, plan, r)
    BY <1>1 DEF Underway, Meant
  <2>. QED
    BY <2>1, <2>2, <2>3 DEF Made
<1>5. /\ quantity' = [r \in Rows |-> Row(c, r).quantity]
      /\ reserved' = [r \in Rows |-> Row(c, r).reserved]
  BY DEF CommitRows
<1>6. \A r \in Rows : Reserves(op, tasks, plan, r) > 0 => reserved'[r] <= quantity'[r]
  BY <1>4, <1>5
<1>. QED
  BY <1>4, <1>5, <1>6 DEF Result

(* A handler's transaction is about one task, with allocations a.          *)
StartResult(a) ==
    /\ quantity' = quantity /\ reserved' = [r \in Rows |-> reserved[r] + a[r]]
    /\ \A r \in Rows : a[r] > 0 => reserved[r] + a[r] <= quantity[r]
CancelResult(t, a) ==
    /\ quantity' = quantity
    /\ reserved' = IF status[t] = "in_progress"
                   THEN [r \in Rows |-> Floor(reserved[r], a[r])]
                   ELSE reserved
CompleteResult(a) ==
    /\ quantity' = [r \in Rows |-> quantity[r] - a[r]]
    /\ reserved' = [r \in Rows |-> Floor(reserved[r], a[r])]
EditResult(t, a, b) ==
    /\ quantity' = quantity
    /\ IF status[t] = "in_progress"
       THEN /\ \A r \in Rows : b[r] > 0 => Floor(reserved[r], a[r]) + b[r] <= quantity[r]
            /\ reserved' = [r \in Rows |-> Floor(reserved[r], a[r]) + b[r]]
       ELSE reserved' = reserved

(* For a handler about one task, by what the task was allocated.           *)
LEMMA ResultOfOne ==
    ASSUME RacesInv, NEW t \in Tasks, NEW op \in {"start", "cancel", "edit", "complete"}, NEW plan,
           Result(op, {t}, plan), NEW a, a = Allocations[t], NEW b, b = AllocationOf(plan)
    PROVE  /\ a \in [Rows -> Nat]
           /\ op = "start" => StartResult(a)
           /\ op = "cancel" => CancelResult(t, a)
           /\ op = "complete" /\ status[t] = "in_progress" => CompleteResult(a)
           /\ op = "edit" /\ b \in [Rows -> Nat] => EditResult(t, a, b)
<1>. USE DEF StartResult, CancelResult, CompleteResult, EditResult
<1>0. TypeOK
  BY DEF RacesInv
<1>1. \A r \in Rows : quantity[r] \in Int /\ reserved[r] \in Nat
  BY <1>0 DEF TypeOK
<1>2. quantity = [r \in Rows |-> quantity[r]] /\ reserved = [r \in Rows |-> reserved[r]]
  BY <1>0 DEF TypeOK
<1>3. a \in [Rows -> Nat]
  <2>1. items[t] \in Plans \cup {<<>>} /\ a = AllocationOf(items[t])
    BY <1>0 DEF TypeOK, Allocations
  <2>. QED
    BY <2>1, AllocationType
<1>4. ASSUME NEW r \in Rows
      PROVE  /\ SumOver({t}, Allocations, r) = a[r]
             /\ HeldBy({t}, r) = IF status[t] = "in_progress" THEN a[r] ELSE 0
  BY <1>0, OneTask
<1>5. ({t} \cap InProgress # {}) = (status[t] = "in_progress")
  BY DEF InProgress
<1>6. \A r \in Rows : Floor(reserved[r], 0) = reserved[r] /\ Floor(reserved[r], a[r]) \in Nat
  BY <1>1, <1>3 DEF Floor
<1>11. /\ quantity' = [r \in Rows |-> quantity'[r]] /\ reserved' = [r \in Rows |-> reserved'[r]]
       /\ \A r \in Rows :
            /\ quantity'[r] = quantity[r] - Ships(op, {t}, r)
            /\ reserved'[r] = Floor(reserved[r], Releases(op, {t}, r) + Ships(op, {t}, r))
                              + Reserves(op, {t}, plan, r)
  BY DEF Result
<1>12. (\A r \in Rows : Ships(op, {t}, r) = 0) => quantity' = quantity
  <2>. SUFFICES ASSUME \A r \in Rows : Ships(op, {t}, r) = 0 PROVE quantity' = quantity
    OBVIOUS
  <2>1. \A r \in Rows : quantity'[r] = quantity[r]
    BY <1>1, <1>11
  <2>. QED
    BY <1>2, <1>11, <2>1
<1>13. (\A r \in Rows : reserved'[r] = reserved[r]) => reserved' = reserved
  BY <1>2, <1>11
<1>7. CASE op = "start"
  <2>1. \A r \in Rows : Releases(op, {t}, r) = 0 /\ Ships(op, {t}, r) = 0 /\ Reserves(op, {t}, plan, r) = a[r]
    BY <1>4, <1>7 DEF Releases, Ships, Reserves
  <2>2. quantity' = quantity
    BY <1>12, <2>1
  <2>3. reserved' = [r \in Rows |-> reserved[r] + a[r]]
    <3>1. \A r \in Rows : reserved'[r] = reserved[r] + a[r]
      <4>. SUFFICES ASSUME NEW r \in Rows PROVE reserved'[r] = reserved[r] + a[r]
        OBVIOUS
      <4>1. reserved'[r] = Floor(reserved[r], 0 + 0) + a[r]
        BY <1>11, <2>1
      <4>. QED
        BY <1>6, <4>1
    <3>. QED
      BY <1>11, <3>1
  <2>4. \A r \in Rows : a[r] > 0 => reserved'[r] <= quantity'[r]
    BY <2>1 DEF Result
  <2>. QED
    BY <1>3, <1>7, <2>2, <2>3, <2>4
<1>8. CASE op = "cancel"
  <2>1. \A r \in Rows : /\ Releases(op, {t}, r) = IF status[t] = "in_progress" THEN a[r] ELSE 0
                        /\ Ships(op, {t}, r) = 0 /\ Reserves(op, {t}, plan, r) = 0
    BY <1>4, <1>8 DEF Releases, Ships, Reserves
  <2>2. quantity' = quantity
    BY <1>12, <2>1
  <2>3. CASE status[t] = "in_progress"
    <3>1. \A r \in Rows : Floor(reserved[r], a[r] + 0) + 0 = Floor(reserved[r], a[r])
      BY <1>3, <1>6
    <3>2. reserved' = [r \in Rows |-> Floor(reserved[r], a[r])]
      BY <2>1, <2>3, <3>1 DEF Result
    <3>. QED
      BY <1>3, <1>8, <2>2, <2>3, <3>2
  <2>4. CASE status[t] # "in_progress"
    <3>1. reserved' = reserved
      BY <1>1, <1>6, <1>11, <1>13, <2>1, <2>4
    <3>. QED
      BY <1>3, <1>8, <2>2, <2>4, <3>1
  <2>. QED
    BY <2>3, <2>4
<1>9. CASE op = "complete"
  <2>1. status[t] = "in_progress" =>
          \A r \in Rows : Releases(op, {t}, r) = 0 /\ Ships(op, {t}, r) = a[r] /\ Reserves(op, {t}, plan, r) = 0
    BY <1>4, <1>9 DEF Releases, Ships, Reserves
  <2>2. \A r \in Rows : Floor(reserved[r], 0 + a[r]) + 0 = Floor(reserved[r], a[r])
    BY <1>3, <1>6
  <2>3. ASSUME status[t] = "in_progress"
        PROVE  /\ quantity' = [r \in Rows |-> quantity[r] - a[r]]
               /\ reserved' = [r \in Rows |-> Floor(reserved[r], a[r])]
    BY <2>1, <2>2, <2>3 DEF Result
  <2>. QED
    BY <1>3, <1>9, <2>3
<1>10. CASE op = "edit"
  <2>1. \A r \in Rows : /\ Releases(op, {t}, r) = IF status[t] = "in_progress" THEN a[r] ELSE 0
                        /\ Ships(op, {t}, r) = 0
                        /\ Reserves(op, {t}, plan, r) = IF status[t] = "in_progress" THEN b[r] ELSE 0
    BY <1>4, <1>5, <1>10 DEF Releases, Ships, Reserves
  <2>2. quantity' = quantity
    BY <1>12, <2>1
  <2>3. ASSUME status[t] = "in_progress", b \in [Rows -> Nat]
        PROVE  /\ \A r \in Rows : b[r] > 0 => Floor(reserved[r], a[r]) + b[r] <= quantity[r]
               /\ reserved' = [r \in Rows |-> Floor(reserved[r], a[r]) + b[r]]
    <3>1. \A r \in Rows : Floor(reserved[r], a[r] + 0) = Floor(reserved[r], a[r])
      BY <1>3, <1>6
    <3>2. reserved' = [r \in Rows |-> Floor(reserved[r], a[r]) + b[r]]
      BY <2>1, <2>3, <3>1 DEF Result
    <3>3. \A r \in Rows : b[r] > 0 => reserved'[r] <= quantity'[r]
      BY <2>1, <2>3 DEF Result
    <3>. QED
      BY <2>2, <3>2, <3>3
  <2>4. ASSUME status[t] # "in_progress" PROVE reserved' = reserved
    BY <1>1, <1>6, <1>11, <1>13, <2>1, <2>4
  <2>. QED
    BY <1>3, <1>10, <2>2, <2>3, <2>4
<1>. QED
  BY <1>7, <1>8, <1>9, <1>10

-----------------------------------------------------------------------------
(* The handlers of PickingTasks, seen through the committed state.         *)
LEMMA NewItems ==
    ASSUME TypeOK, NEW t \in Tasks, NEW plan, items' = [items EXCEPT ![t] = plan]
    PROVE  Allocations' = [Allocations EXCEPT ![t] = AllocationOf(plan)]
<1>1. \A u \in Tasks : items'[u] = IF u = t THEN plan ELSE items[u]
  BY DEF TypeOK
<1>2. PICK x : x = AllocationOf(plan)
  OBVIOUS
<1>3. Allocations' = [u \in Tasks |-> AllocationOf(items'[u])]
  BY Zenon DEF Allocations
<1>4. \A u \in Tasks : AllocationOf(items'[u]) = IF u = t THEN x ELSE Allocations[u]
  <2>1. ASSUME NEW u \in Tasks, u # t PROVE AllocationOf(items'[u]) = Allocations[u]
    BY <1>1, <2>1 DEF Allocations
  <2>2. AllocationOf(items'[t]) = x
    BY <1>1, <1>2
  <2>. QED
    BY <2>1, <2>2
<1>5. Allocations = [u \in Tasks |-> Allocations[u]]
  BY DEF Allocations
<1>6. Allocations' = [u \in Tasks |-> IF u = t THEN x ELSE Allocations[u]]
  BY <1>3, <1>4
<1>. QED
  BY <1>2, <1>5, <1>6

(* Allocations are among the quantities the handlers are asked for.        *)
LEMMA AllocationBounded ==
    ASSUME NEW plan \in Plans \cup {<<>>}
    PROVE  AllocationOf(plan) \in [Rows -> 0 .. MaxQuantity] /\ AllocationOf(plan) \in [Rows -> Nat]
<1>1. AllocationOf(plan) \in [Rows -> Nat]
  BY AllocationType
<1>2. ASSUME NEW r \in Rows PROVE AllocationOf(plan)[r] <= MaxQuantity
  <2>1. CASE plan \in Plans
    BY <2>1, RacesAssumption
  <2>2. CASE plan = <<>>
    <3>1. {i \in DOMAIN plan : plan[i].row = r} = {}
      BY <2>2
    <3>2. AllocationOf(plan)[r] = 0
      BY <3>1, SumEmpty DEF AllocationOf
    <3>. QED
      BY <3>2, RacesAssumption
  <2>. QED
    BY <2>1, <2>2
<1>3. \A r \in Rows : AllocationOf(plan)[r] \in 0 .. MaxQuantity
  BY <1>1, <1>2, RacesAssumption
<1>4. AllocationOf(plan) = [r \in Rows |-> AllocationOf(plan)[r]]
  BY <1>1
<1>. QED
  BY <1>1, <1>3, <1>4

(* The conditional UPDATEs, of lists that allocate natural numbers.        *)
LEMMA CanReserveIt ==
    ASSUME exclusive, NEW res \in [Rows -> Nat], NEW a \in [Rows -> Nat],
           \A r \in Rows : a[r] > 0 => quantity[r] - res[r] >= a[r]
    PROVE  Serial!CanReserve(res, a, a)
BY DEF Serial!CanReserve, Serial!Listed, Shown

(* With no "location" of items in the lists nothing is left out of them.   *)
LEMMA NoLegacy ==
    ASSUME NEW a \in [Rows -> Nat]
    PROVE  Serial!WithoutLegacy(a, {}) = a
BY DEF Serial!WithoutLegacy

(* Stock and movements account for each other, so neither exceeds what     *)
(* there was.                                                              *)
WithinInitial(f) == \A r \in Rows : f[r] \in 0 .. InitialStock[r]

WithinLedger ==
    \A r \in Rows : /\ quantity[r] <= InitialStock[r]
                    /\ \A t \in Tasks : quantity[r] + shipped[t][r] <= InitialStock[r]

LEMMA LedgerBounds == TypeOK /\ NoLostUpdate => WithinLedger
<1>. SUFFICES ASSUME TypeOK, NoLostUpdate, NEW r \in Rows
              PROVE  /\ quantity[r] <= InitialStock[r]
                     /\ \A t \in Tasks : quantity[r] + shipped[t][r] <= InitialStock[r]
  BY DEF WithinLedger
<1>1. IsFiniteSet(Tasks) /\ InitialStock[r] \in Nat /\ quantity[r] \in Int
      /\ \A t \in Tasks : shipped[t][r] \in Nat
  BY RacesAssumption DEF TypeOK
<1>2. SumOver(Tasks, shipped, r) \in Nat
  BY <1>1, SumType
<1>3. quantity[r] + SumOver(Tasks, shipped, r) = InitialStock[r]
  BY DEF NoLostUpdate
<1>4. ASSUME NEW t \in Tasks PROVE shipped[t][r] <= SumOver(Tasks, shipped, r)
  <2>1. SumOver({t}, shipped, r) = shipped[t][r]
    BY <1>1, SumSingle
  <2>2. {t} \in SUBSET Tasks
    OBVIOUS
  <2>. QED
    BY <1>1, <2>1, <2>2, SumMonotonic
<1>. QED
  BY <1>1, <1>2, <1>3, <1>4

(* Committing a start is StartPickingTask.                                 *)
LEMMA SerialStart ==
    ASSUME exclusive, exclusive', TypeOK, NEW t \in Tasks, status[t] \in Waiting, Allocations[t] \in [Rows -> Nat],
           \A r \in Rows : Allocations[t][r] > 0 => quantity[r] - reserved[r] >= Allocations[t][r],
           reserved' = [r \in Rows |-> reserved[r] + Allocations[t][r]],
           status' = [status EXCEPT ![t] = "in_progress"], Touch(t),
           UNCHANGED <<quantity, items, shipped>>
    PROVE  Serial!StartPickingTask(t)
<1>1. Allocations' = Allocations
  BY DEF Allocations
<1>2. reserved \in [Rows -> Nat]
  BY DEF TypeOK
<1>3. Serial!CanReserve(reserved, Allocations[t], Allocations[t])
  BY <1>2, CanReserveIt
<1>4. Serial!Listed(Allocations[t], Allocations[t]) \cap {} = {}
  OBVIOUS
<1>. QED
  BY <1>1, <1>3, <1>4, Zenon DEF Serial!StartPickingTask, Serial!validateNoExpiredLots,
      Serial!applyReservations, Serial!Touch, Shown, Touch, Waiting

(* Committing a cancellation is UpdateStatus to cancelled.                 *)
LEMMA SerialCancel ==
    ASSUME exclusive, exclusive', NEW t \in Tasks, status[t] \in Waiting \cup {"in_progress"},
           reserved' = IF status[t] = "in_progress"
                       THEN [r \in Rows |-> Floor(reserved[r], Allocations[t][r])]
                       ELSE reserved,
           status' = [status EXCEPT ![t] = "cancelled"], Touch(t),
           UNCHANGED <<quantity, items, shipped>>
    PROVE  Serial!UpdateStatus(t, "cancelled")
<1>1. Allocations' = Allocations
  BY DEF Allocations
<1>. QED
  BY <1>1 DEF Serial!UpdateStatus, Serial!MoveStatus, Serial!isValidPickingTransition,
      Serial!validPickingTransitions, Serial!ReservedAfterCancel, Serial!releaseReservations,
      Serial!Touch, Shown, Touch, Waiting, Floor

(* Creating a task is CreatePickingTask.                                   *)
LEMMA SerialCreate ==
    ASSUME exclusive, exclusive', NEW t \in Tasks, NEW plan, CreatePickingTask(t, plan), TypeOK
    PROVE  Serial!CreatePickingTask(t, AllocationOf(plan))
<1>1. Allocations' = [Allocations EXCEPT ![t] = AllocationOf(plan)]
  BY NewItems DEF CreatePickingTask
<1>. QED
  BY <1>1, Zenon DEF Serial!CreatePickingTask, Serial!stock, CreatePickingTask, Shown

(* Days pass.                                                              *)
LEMMA SerialDays ==
    ASSUME exclusive, exclusive', NEW t \in Tasks, SevenDaysPass(t)
    PROVE  Serial!SevenDaysPass(t)
<1>1. Allocations' = Allocations
  BY DEF Allocations, SevenDaysPass
<1>. QED
  BY <1>1, Zenon DEF Serial!SevenDaysPass, Serial!stock, SevenDaysPass, Shown

Rereserved(t, free, a) ==
    IF status[t] = "in_progress"
    THEN /\ \A r \in Rows : a[r] > 0 => quantity[r] - free[r] >= a[r]
         /\ reserved' = [r \in Rows |-> free[r] + a[r]]
    ELSE reserved' = reserved

(* Committing an edit is UpdateItems.                                      *)
LEMMA SerialEdit ==
    ASSUME exclusive, exclusive', TypeOK, NEW t \in Tasks, status[t] \in Waiting \cup {"in_progress"},
           NEW plan, items' = [items EXCEPT ![t] = plan],
           NEW a, a = AllocationOf(plan), a \in [Rows -> 0 .. MaxQuantity],
           NEW free, free = [r \in Rows |-> Floor(reserved[r], Allocations[t][r])],
           Rereserved(t, free, a), WithinInitial(reserved'), Touch(t), UNCHANGED <<quantity, status, shipped>>
    PROVE  Serial!TaskNext
<1>0. reserved \in [Rows -> Nat] /\ Allocations[t] \in [Rows -> Nat] /\ a \in [Rows -> Nat]
  BY AllocationBounded, RacesAssumption DEF TypeOK, Allocations
<1>1. Allocations' = [Allocations EXCEPT ![t] = a]
  BY NewItems
<1>2. a \in Serial!OrdinaryLines
  BY <1>0, RacesAssumption DEF Serial!Lines, Serial!OrdinaryLines
<1>3. a \in Serial!ReasonablePicks(a)
  <2>1. \A r \in Rows : a[r] <= a[r]
    BY RacesAssumption
  <2>. QED
    BY <1>2, <2>1 DEF Serial!ReasonablePicks
<1>4. Serial!UpdateItems(t, a, a, {})
  <2>1. Serial!Rereserve(t, Shown(reserved, [r \in Rows |-> 0]), a, a, {})
    <3>1. free \in [Rows -> Nat] /\ free = Serial!releaseReservations(reserved, Allocations[t])
      BY <1>0 DEF Serial!releaseReservations, Floor
    <3>2. Serial!WithoutLegacy(a, {}) = a
      BY <1>0, NoLegacy
    <3>3. CASE status[t] = "in_progress"
      <4>1. reserved' = Serial!applyReservations(free, a)
        BY <3>3 DEF Rereserved, Serial!applyReservations
      <4>2. Serial!CanReserve(free, a, a)
        BY <1>0, <3>1, <3>3, CanReserveIt DEF Rereserved
      <4>3. Serial!InBounds(reserved')
        BY RacesAssumption DEF Serial!InBounds, WithinInitial
      <4>4. Serial!validateNoExpiredLots(a, a)
        BY DEF Serial!validateNoExpiredLots
      <4>. QED
        BY <3>1, <3>2, <3>3, <4>1, <4>2, <4>3, <4>4 DEF Serial!Rereserve, Shown
    <3>4. CASE status[t] # "in_progress"
      BY <3>4 DEF Serial!Rereserve, Shown, Rereserved
    <3>. QED
      BY <3>3, <3>4
  <2>2. Serial!ReplaceItems(t, a, a, {})
    BY <1>1 DEF Serial!ReplaceItems, Shown
  <2>3. status[t] # "none"
    BY DEF Waiting
  <2>. QED
    BY <2>1, <2>2, <2>3 DEF Serial!UpdateItems, Serial!Touch, Touch, Shown
<1>5. Shown(status, [u \in Tasks |-> "none"])[t] \notin Serial!Terminal
  BY DEF Shown, Waiting, Serial!Terminal, Serial!Completed
<1>. QED
  BY <1>2, <1>3, <1>4, <1>5 DEF Serial!TaskNext, Serial!EditsItems

(* Committing a completion is CompletePickingTask.                         *)
LEMMA SerialComplete ==
    ASSUME exclusive, exclusive', TypeOK, NEW t \in Tasks, status[t] = "in_progress",
           NEW a, a = Allocations[t], a \in [Rows -> Nat],
           quantity' = [r \in Rows |-> quantity[r] - a[r]], \A r \in Rows : a[r] <= quantity[r],
           reserved' = [r \in Rows |-> Floor(reserved[r], a[r])],
           shipped' = [shipped EXCEPT ![t] = [r \in Rows |-> shipped[t][r] + a[r]]],
           WithinInitial(quantity'), WithinInitial(reserved'), WithinInitial(shipped'[t]),
           status' = [status EXCEPT ![t] = "completed"],
           Touch(t), items' = items
    PROVE  Serial!CompletePickingTask(t)
<1>1. Allocations' = Allocations
  BY DEF Allocations
<1>2. quantity \in [Rows -> Int] /\ shipped[t] \in [Rows -> Nat]
  BY DEF TypeOK
<1>3. Serial!InBounds(quantity') /\ Serial!InBounds(reserved') /\ Serial!InBounds(shipped'[t])
  BY RacesAssumption DEF Serial!InBounds, WithinInitial
<1>6. Serial!ShipAllocations(t, a, a)
  BY <1>3 DEF Serial!ShipAllocations, Serial!releaseReservations, Shown, Floor
<1>7. Serial!FinalStatus(t) = "completed"
  BY DEF Serial!FinalStatus, Shown
<1>. QED
  BY <1>1, <1>6, <1>7 DEF Serial!CompletePickingTask, Serial!Completable, Serial!Touch, Touch, Shown

(* Both modules sum alike, and what nobody owes need not be netted.        *)
LEMMA SerialSums ==
    ASSUME exclusive, NEW r
    PROVE  /\ Serial!SumOver(Serial!InProgress, Allocations, r) = SumOver(InProgress, Allocations, r)
           /\ Serial!NetOver(Serial!StaleInProgress, Allocations, r) = NetOver(StaleInProgress, Allocations, r)
BY Zenon DEF Serial!NetOver, Serial!Debts, NetOver, Debts, Serial!SumOver, Serial!Units, Serial!Cardinality, SumOver, Units, Cardinality,
   Serial!InProgress, InProgress, Serial!StaleInProgress, StaleInProgress, Shown

(* Committing the clean-up is RunStaleReservationsCleanup.                 *)
LEMMA SerialCleanup ==
    ASSUME exclusive, exclusive', TypeOK, Stale # {},
           reserved' = [r \in Rows |-> Floor(reserved[r], SumOver(StaleInProgress, Allocations, r))],
           status' = [t \in Tasks |-> IF t \in Stale THEN "abandoned" ELSE status[t]],
           age'    = [t \in Tasks |-> IF t \in Stale THEN "touched" ELSE age[t]],
           UNCHANGED <<quantity, items, shipped>>
    PROVE  Serial!RunStaleReservationsCleanup
<1>1. Allocations' = Allocations
  BY DEF Allocations
<1>2. Serial!StaleInProgress \cup Serial!StaleWaiting = Stale
  BY DEF Serial!StaleInProgress, Serial!StaleWaiting, Serial!InProgress, Shown,
      Stale, StaleInProgress, StaleWaiting, InProgress
<1>9a. Serial!InAllocations = Allocations
  <2>1. \A t \in Tasks : Serial!WithoutLegacy(Allocations[t], {}) = Allocations[t]
    BY AllocationBounded, NoLegacy DEF Allocations, TypeOK
  <2>2. Allocations = [t \in Tasks |-> Allocations[t]]
    BY DEF Allocations
  <2>. QED
    BY <2>1, <2>2 DEF Serial!InAllocations, Shown
<1>3. [r \in Rows |-> Serial!NetOver(Serial!StaleInProgress, Allocations, r)]
        = [r \in Rows |-> SumOver(StaleInProgress, Allocations, r)]
  <2>. SUFFICES ASSUME NEW r \in Rows
                PROVE  NetOver(StaleInProgress, Allocations, r) = SumOver(StaleInProgress, Allocations, r)
    BY SerialSums
  <2>1. IsFiniteSet(StaleInProgress)
    BY RacesAssumption, FS_Subset DEF StaleInProgress, InProgress
  <2>2. \A t \in StaleInProgress : Allocations[t][r] \in Nat
    BY AllocationBounded DEF StaleInProgress, InProgress, Allocations, TypeOK
  <2>. QED
    BY <2>1, <2>2, NetOfNaturals
<1>4. PICK sums : sums = [r \in Rows |-> SumOver(StaleInProgress, Allocations, r)]
  OBVIOUS
<1>5. reserved' = Serial!releaseReservations(reserved, sums)
  BY <1>4 DEF Serial!releaseReservations, Floor
<1>. QED
  BY <1>1, <1>2, <1>9a, <1>3, <1>4, <1>5 DEF Serial!RunStaleReservationsCleanup, Shown

-----------------------------------------------------------------------------
(* A commit is the handler's step.  It rests on the books of the lifecycle *)
(* read on the committed rows.                                             *)
LEMMA SerialBooks ==
    ASSUME exclusive, Serial!LifecycleInv, NEW r \in Rows
    PROVE  reserved[r] <= quantity[r] /\ reserved[r] = SumOver(InProgress, Allocations, r)
<1>1. reserved[r] <= quantity[r]
  BY DEF Serial!LifecycleInv, Serial!NeverOversold, Shown
<1>2. reserved[r] = Serial!SumOver(Serial!InProgress, Allocations, r)
  BY DEF Serial!LifecycleInv, Serial!ReservationsBalanced, Shown
<1>. QED
  BY <1>1, <1>2, SerialSums

(* What a started task was given is there to be shipped.                   *)
LEMMA CompletionCovered ==
    ASSUME exclusive, RacesInv, Serial!LifecycleInv, NEW t \in Tasks, status[t] = "in_progress", NEW r \in Rows
    PROVE  Allocations[t][r] <= quantity[r]
<1>0. TypeOK
  BY DEF RacesInv
<1>1. reserved[r] <= quantity[r] /\ reserved[r] = SumOver(InProgress, Allocations, r)
  BY SerialBooks
<1>3. \A u \in Tasks : Allocations[u][r] \in Nat /\ SumOver({u}, Allocations, r) = Allocations[u][r]
  BY <1>0, OneTask
<1>4. IsFiniteSet(InProgress) /\ {t} \in SUBSET InProgress /\ \A u \in InProgress : Allocations[u][r] \in Nat
  BY <1>3, RacesAssumption, FS_Subset DEF InProgress
<1>5. SumOver({t}, Allocations, r) <= SumOver(InProgress, Allocations, r)
  BY <1>4, SumMonotonic
<1>6. SumOver(InProgress, Allocations, r) \in Nat
  BY <1>4, SumType
<1>7. quantity[r] \in Int
  BY <1>0 DEF TypeOK
<1>. QED
  BY <1>1, <1>3, <1>5, <1>6, <1>7

(* Whatever the transaction, its commit is a step of PickingTasks.         *)
LEMMA CommitIsSerial ==
    ASSUME exclusive, exclusive', RacesInv, Serial!LifecycleInv, NEW c \in Clients, SerialTx(c), Commit(c)
    PROVE  Serial!TaskNext
<1>0. TypeOK /\ TxInv(c) /\ CommitRows(c)
  BY CommitKeeps DEF RacesInv
<1>9a. /\ TypeOK'
      /\ \A r \in Rows : /\ quantity'[r] <= InitialStock[r]
                         /\ \A t \in Tasks : quantity'[r] + shipped'[t][r] <= InitialStock[r]
  <2>1. TypeOK' /\ NoLostUpdate'
    BY CommitKeeps DEF RacesInv
  <2>2. WithinLedger'
    BY <2>1, LedgerBounds, PTL
  <2>. QED
    BY <2>1, <2>2 DEF WithinLedger
<1>1. PICK op, tasks, plan : op = tx[c].op /\ tasks = tx[c].tasks /\ plan = tx[c].plan
  OBVIOUS
<1>2. op # "none" => About(op, tasks) /\ Result(op, tasks, plan)
  BY <1>0, <1>1, CommitResult DEF SerialTx
<1>3. ASSUME NEW t \in tasks, op \in {"start", "cancel", "edit", "complete"}
      PROVE  t \in Tasks /\ tasks = {t} /\ Result(op, {t}, plan) /\ status[t] \in Allowed(op)
  BY <1>2, <1>3 DEF About
<1>4. CASE CommitStatus(c, "start", "in_progress")
  <2>1. PICK t \in tasks : status' = [status EXCEPT ![t] = "in_progress"] /\ shipped' = shipped /\ Touch(t)
    BY <1>1, <1>4 DEF CommitStatus
  <2>2. op = "start" /\ items' = items
    BY <1>1, <1>4 DEF CommitStatus
  <2>3. t \in Tasks /\ Result("start", {t}, plan) /\ status[t] \in Waiting
    BY <1>3, <2>2 DEF Allowed
  <2>4. PICK a, b : a = Allocations[t] /\ b = AllocationOf(plan)
    OBVIOUS
  <2>5. a \in [Rows -> Nat] /\ StartResult(a)
    BY <2>3, <2>4, ResultOfOne
  <2>6. \A r \in Rows : a[r] > 0 => quantity[r] - reserved[r] >= a[r]
    BY <1>0, <2>5 DEF TypeOK, StartResult
  <2>7. Serial!StartPickingTask(t)
    BY <1>0, <2>1, <2>2, <2>3, <2>4, <2>5, <2>6, SerialStart DEF StartResult
  <2>. QED
    BY <2>3, <2>7 DEF Serial!TaskNext
<1>5. CASE CommitStatus(c, "cancel", "cancelled")
  <2>1. PICK t \in tasks : status' = [status EXCEPT ![t] = "cancelled"] /\ shipped' = shipped /\ Touch(t)
    BY <1>1, <1>5 DEF CommitStatus
  <2>2. op = "cancel" /\ items' = items
    BY <1>1, <1>5 DEF CommitStatus
  <2>3. t \in Tasks /\ Result("cancel", {t}, plan) /\ status[t] \in Waiting \cup {"in_progress"}
    BY <1>3, <2>2 DEF Allowed
  <2>4. PICK a, b : a = Allocations[t] /\ b = AllocationOf(plan)
    OBVIOUS
  <2>5. CancelResult(t, a)
    BY <2>3, <2>4, ResultOfOne
  <2>6. Serial!UpdateStatus(t, "cancelled")
    BY <2>1, <2>2, <2>3, <2>4, <2>5, SerialCancel DEF CancelResult
  <2>. QED
    BY <2>3, <2>6 DEF Serial!TaskNext, Serial!OrdinaryStatuses
<1>6. CASE CommitStatus(c, "complete", "completed")
  <2>1. PICK t \in tasks : /\ status' = [status EXCEPT ![t] = "completed"] /\ Touch(t)
                           /\ shipped' = [shipped EXCEPT ![t] = [r \in Rows |-> @[r] + quantity[r] - Row(c, r).quantity]]
    BY <1>1, <1>6 DEF CommitStatus
  <2>2. op = "complete" /\ items' = items
    BY <1>1, <1>6 DEF CommitStatus
  <2>3. t \in Tasks /\ Result("complete", {t}, plan) /\ status[t] = "in_progress"
    BY <1>3, <2>2 DEF Allowed
  <2>4. PICK a, b : a = Allocations[t] /\ b = AllocationOf(plan)
    OBVIOUS
  <2>5. a \in [Rows -> Nat] /\ CompleteResult(a)
    BY <2>3, <2>4, ResultOfOne
  <2>6. \A r \in Rows : a[r] <= quantity[r]
    BY <2>3, <2>4, CompletionCovered
  <2>7. shipped' = [shipped EXCEPT ![t] = [r \in Rows |-> shipped[t][r] + a[r]]]
    <3>1. \A r \in Rows : quantity'[r] = Row(c, r).quantity /\ quantity'[r] = quantity[r] - a[r]
      BY <1>0, <2>5, CommittedRows DEF CompleteResult
    <3>2. \A r \in Rows : quantity[r] \in Int /\ shipped[t][r] \in Nat /\ a[r] \in Nat
      BY <1>0, <2>3, <2>5 DEF TypeOK
    <3>3. \A r \in Rows : shipped[t][r] + quantity[r] - Row(c, r).quantity = shipped[t][r] + a[r]
      BY <3>1, <3>2
    <3>4. [r \in Rows |-> shipped[t][r] + quantity[r] - Row(c, r).quantity] = [r \in Rows |-> shipped[t][r] + a[r]]
      BY <3>3
    <3>. QED
      BY <2>1, <3>4
  <2>8a. WithinInitial(quantity') /\ WithinInitial(reserved') /\ WithinInitial(shipped'[t])
    <3>1. TypeOK' /\ (\A r \in Rows : /\ quantity'[r] <= InitialStock[r]
                                      /\ quantity'[r] + shipped'[t][r] <= InitialStock[r])
      BY <1>9a, <2>3
    <3>2. \A r \in Rows : quantity'[r] >= 0
      BY <1>0, <2>5, <2>6 DEF CompleteResult, TypeOK
    <3>3. \A r \in Rows : reserved'[r] <= quantity'[r]
      <4>. SUFFICES ASSUME NEW r \in Rows PROVE reserved'[r] <= quantity'[r]
        OBVIOUS
      <4>1. reserved[r] <= quantity[r]
        BY SerialBooks
      <4>2. /\ quantity[r] \in Int /\ reserved[r] \in Nat /\ a[r] \in Nat /\ a[r] <= quantity[r]
            /\ quantity'[r] = quantity[r] - a[r] /\ reserved'[r] = Floor(reserved[r], a[r])
        BY <1>0, <2>5, <2>6 DEF CompleteResult, TypeOK
      <4>. QED
        BY <4>1, <4>2 DEF Floor
    <3>. QED
      BY <2>3, <3>1, <3>2, <3>3, RacesAssumption DEF WithinInitial, TypeOK
  <2>8. Serial!CompletePickingTask(t)
    BY <1>0, <2>1, <2>2, <2>3, <2>4, <2>5, <2>6, <2>7, <2>8a, SerialComplete DEF CompleteResult
  <2>. QED
    BY <2>3, <2>8 DEF Serial!TaskNext
<1>7. CASE CommitEdit(c)
  <2>1. PICK t \in tasks : items' = [items EXCEPT ![t] = plan] /\ Touch(t)
    BY <1>1, <1>7 DEF CommitEdit
  <2>2. op = "edit" /\ status' = status /\ shipped' = shipped
    BY <1>1, <1>7 DEF CommitEdit
  <2>3. t \in Tasks /\ Result("edit", {t}, plan) /\ status[t] \in Waiting \cup {"in_progress"}
    BY <1>3, <2>2 DEF Allowed
  <2>4. plan \in Plans \cup {<<>>}
    BY <1>0, <1>1 DEF TxInv
  <2>5. PICK a, b : a = Allocations[t] /\ b = AllocationOf(plan)
    OBVIOUS
  <2>6. PICK free : free = [r \in Rows |-> Floor(reserved[r], Allocations[t][r])]
    OBVIOUS
  <2>7. b \in [Rows -> 0 .. MaxQuantity] /\ b \in [Rows -> Nat]
    BY <2>4, <2>5, AllocationBounded
  <2>8. a \in [Rows -> Nat] /\ EditResult(t, a, b)
    BY <2>3, <2>5, <2>7, ResultOfOne
  <2>9. Rereserved(t, free, b) /\ UNCHANGED <<quantity, status, shipped>>
    <3>1. \A r \in Rows : /\ free[r] = Floor(reserved[r], a[r]) /\ free[r] \in Nat
                          /\ quantity[r] \in Int /\ b[r] \in Nat
      <4>1. \A r \in Rows : reserved[r] \in Nat /\ a[r] \in Nat /\ quantity[r] \in Int
        BY <1>0, <2>8 DEF TypeOK
      <4>. QED
        BY <2>5, <2>6, <2>7, <4>1, Floors
    <3>. QED
      BY <2>2, <2>8, <3>1 DEF EditResult, Rereserved
  <2>10. WithinInitial(reserved')
    <3>1. TypeOK' /\ \A r \in Rows : quantity'[r] <= InitialStock[r]
      BY <1>9a
    <3>2. ASSUME NEW r \in Rows PROVE reserved'[r] <= quantity'[r]
      <4>1. reserved[r] <= quantity[r]
        BY SerialBooks
      <4>2. /\ quantity[r] \in Int /\ reserved[r] \in Nat /\ a[r] \in Nat /\ b[r] \in Nat
            /\ quantity'[r] = quantity[r]
        BY <1>0, <2>7, <2>8, <2>9 DEF TypeOK
      <4>3. Floor(reserved[r], a[r]) \in Nat /\ Floor(reserved[r], a[r]) <= reserved[r]
        BY <4>2 DEF Floor
      <4>4. CASE status[t] = "in_progress"
        <5>1. /\ reserved'[r] = Floor(reserved[r], a[r]) + b[r]
              /\ b[r] > 0 => Floor(reserved[r], a[r]) + b[r] <= quantity[r]
          BY <2>8, <4>4 DEF EditResult
        <5>. QED
          BY <4>1, <4>2, <4>3, <5>1
      <4>5. CASE status[t] # "in_progress"
        BY <2>8, <4>1, <4>2, <4>5 DEF EditResult
      <4>. QED
        BY <4>4, <4>5
    <3>. QED
      BY <3>1, <3>2, RacesAssumption DEF WithinInitial, TypeOK
  <2>. QED
    BY <1>0, <2>1, <2>3, <2>5, <2>6, <2>7, <2>9, <2>10, SerialEdit
<1>8. CASE CommitCleanup(c)
  <2>1. /\ op = "cleanup" /\ items' = items /\ shipped' = shipped
        /\ status' = [t \in Tasks |-> IF t \in Stale THEN "abandoned" ELSE status[t]]
        /\ age'    = [t \in Tasks |-> IF t \in Stale THEN "touched" ELSE age[t]]
    BY <1>1, <1>8 DEF CommitCleanup
  <2>2. tasks = Stale /\ Stale # {} /\ Result("cleanup", tasks, plan)
    BY <1>2, <2>1 DEF About
  <2>3. tasks \cap InProgress = StaleInProgress
    BY <2>2 DEF Stale, StaleInProgress, StaleWaiting, InProgress
  <2>4. \A r \in Rows : /\ Releases("cleanup", tasks, r) = CleanupSums[r] /\ CleanupSums[r] \in Nat
                        /\ CleanupSums[r] = SumOver(StaleInProgress, Allocations, r)
                        /\ Ships("cleanup", tasks, r) = 0 /\ Reserves("cleanup", tasks, plan, r) = 0
    BY <1>0, <2>3, SumsOfCleanup DEF Releases, Ships, Reserves, HeldBy, CleanupSums
  <2>5. \A r \in Rows : quantity[r] \in Int /\ reserved[r] \in Nat
    BY <1>0 DEF TypeOK
  <2>6. quantity' = quantity
    <3>1. quantity' = [r \in Rows |-> quantity'[r]] /\ \A r \in Rows : quantity'[r] = quantity[r]
      BY <2>2, <2>4, <2>5 DEF Result
    <3>2. quantity = [r \in Rows |-> quantity[r]]
      BY <1>0 DEF TypeOK
    <3>. QED
      BY <3>1, <3>2
  <2>7. reserved' = [r \in Rows |-> Floor(reserved[r], SumOver(StaleInProgress, Allocations, r))]
    <3>1. ASSUME NEW r \in Rows PROVE reserved'[r] = Floor(reserved[r], SumOver(StaleInProgress, Allocations, r))
      <4>1. reserved'[r] = Floor(reserved[r], CleanupSums[r] + 0) + 0
        BY <2>2, <2>4 DEF Result
      <4>2. Floor(reserved[r], CleanupSums[r]) \in Nat
        BY <2>4, <2>5, Floors
      <4>. QED
        BY <2>4, <4>1, <4>2
    <3>2. reserved' = [r \in Rows |-> reserved'[r]]
      BY <2>2 DEF Result
    <3>. QED
      BY <3>1, <3>2
  <2>8. Serial!RunStaleReservationsCleanup
    BY <1>0, <2>1, <2>2, <2>6, <2>7, SerialCleanup
  <2>. QED
    BY <2>8 DEF Serial!TaskNext
<1>. QED
  BY <1>4, <1>5, <1>6, <1>7, <1>8 DEF Commit

-----------------------------------------------------------------------------
(* What a commit leaves of the other transactions.                         *)
LEMMA StaysAfterCommit ==
    ASSUME RacesInv, NEW c \in Clients, NEW d \in Clients, c # d, SerialTx(d), CommitRows(c),
           \A t \in tx[d].tasks : status'[t] = status[t] /\ items'[t] = items[t],
           tx[d].op = "cleanup" => Stale' = Stale
    PROVE  SerialTx(d)'
<1>1. PICK tasks : tasks = tx[d].tasks
  OBVIOUS
<1>2. tasks \in SUBSET Tasks /\ Written(d) \subseteq Rows /\ Written(d) \cap Written(c) = {}
  BY <1>1 DEF RacesInv, TxInv, WriteOK
<1>3. /\ tx'[d] = tx[d]
      /\ \A r \in Written(d) : quantity'[r] = quantity[r] /\ reserved'[r] = reserved[r]
  BY <1>2, CommittedRows
<1>4. \A t \in tasks : status'[t] = status[t] /\ items'[t] = items[t]
  BY <1>1
<1>. QED
  BY <1>1, <1>2, <1>3, <1>4, UnderwayStays

(* A commit about one task makes no other task stale.                      *)
LEMMA TouchedIsNotStale ==
    ASSUME TypeOK, NEW t \in Tasks, t \notin Stale, Touch(t),
           \A u \in Tasks \ {t} : status'[u] = status[u],
           status'[t] \in {status[t], "in_progress", "cancelled", "completed"}
    PROVE  Stale' = Stale
<1>1. \A u \in Tasks : age'[u] = IF u = t /\ age[u] = "stale" THEN "touched" ELSE age[u]
  BY DEF TypeOK, Touch
<1>2. /\ \A u : u \in Stale <=> /\ u \in Tasks
                                /\ \/ status[u] = "in_progress" /\ age[u] = "stale"
                                   \/ status[u] \in {"open", "assigned"} /\ age[u] # "fresh"
      /\ \A u : u \in Stale' <=> /\ u \in Tasks
                                 /\ \/ status'[u] = "in_progress" /\ age'[u] = "stale"
                                    \/ status'[u] \in {"open", "assigned"} /\ age'[u] # "fresh"
  BY DEF Stale, StaleInProgress, StaleWaiting, InProgress
<1>3. t \notin Stale'
  BY <1>1, <1>2
<1>4. \A u : u \in Stale' <=> u \in Stale
  BY <1>1, <1>2, <1>3
<1>. QED
  BY <1>4

(* A commit about one task.                                                *)
LEMMA OneTaskCommitted ==
    ASSUME RacesInv, TasksApart, \A d \in Clients : SerialTx(d), NewTasksAreFresh,
           NEW c \in Clients, CommitRows(c), NEW t \in tx[c].tasks,
           tx[c].op \in {"start", "cancel", "edit", "complete"}, Touch(t),
           \A u \in Tasks \ {t} : status'[u] = status[u] /\ items'[u] = items[u],
           status'[t] \in {status[t], "in_progress", "cancelled", "completed"}
    PROVE  (\A d \in Clients \ {c} : SerialTx(d)') /\ NewTasksAreFresh'
<1>0. TypeOK /\ t \in Tasks
  BY DEF RacesInv, TxInv
<1>1. status[t] # "none"
  <2>1. About(tx[c].op, tx[c].tasks)
    BY DEF SerialTx
  <2>2. status[t] \in Allowed(tx[c].op)
    BY <2>1 DEF About
  <2>. QED
    BY <2>2 DEF Allowed, Waiting
<1>2. ASSUME NEW d \in Clients \ {c} PROVE SerialTx(d)'
  <2>1. t \notin tx[d].tasks /\ tx[d].tasks \subseteq Tasks
    BY DEF TasksApart, RacesInv, TxInv
  <2>2. \A u \in tx[d].tasks : status'[u] = status[u] /\ items'[u] = items[u]
    BY <2>1
  <2>3. tx[d].op = "cleanup" => Stale' = Stale
    <3>. SUFFICES ASSUME tx[d].op = "cleanup" PROVE Stale' = Stale
      OBVIOUS
    <3>1. About("cleanup", tx[d].tasks)
      BY DEF SerialTx
    <3>2. t \notin Stale
      BY <2>1, <3>1 DEF About
    <3>. QED
      BY <1>0, <3>2, TouchedIsNotStale
  <2>4. SerialTx(d) /\ c # d
    OBVIOUS
  <2>. QED
    BY <2>2, <2>3, <2>4, StaysAfterCommit
<1>3. \A u \in Tasks : age'[u] = IF u = t /\ age[u] = "stale" THEN "touched" ELSE age[u]
  BY <1>0 DEF TypeOK, Touch
<1>4. NewTasksAreFresh'
  BY <1>1, <1>3 DEF NewTasksAreFresh
<1>. QED
  BY <1>2, <1>4

(* A commit leaves every transaction as it was or ended.                   *)
LEMMA CommitSerialTx ==
    ASSUME RacesInv, TasksApart, \A d \in Clients : SerialTx(d), NewTasksAreFresh,
           NEW c \in Clients, Commit(c)
    PROVE  TasksApart' /\ (\A d \in Clients : SerialTx(d)') /\ NewTasksAreFresh'
<1>0. TypeOK /\ TxInv(c) /\ CommitRows(c)
  BY CommitKeeps DEF RacesInv
<1>1. tx'[c] = NoTx /\ \A d \in Clients \ {c} : tx'[d] = tx[d]
  BY <1>0, CommittedRows
<1>2. NoTx.op = "none" /\ NoTx.tasks = {}
  BY DEF NoTx
<1>3. TasksApart' /\ SerialTx(c)'
  BY <1>1, <1>2 DEF TasksApart, SerialTx
<1>4. ASSUME NEW op \in {"start", "cancel", "complete"},
             NEW new \in {"in_progress", "cancelled", "completed"}, CommitStatus(c, op, new)
      PROVE  (\A d \in Clients \ {c} : SerialTx(d)') /\ NewTasksAreFresh'
  <2>1. PICK t \in tx[c].tasks : status' = [status EXCEPT ![t] = new] /\ Touch(t)
    BY <1>4 DEF CommitStatus
  <2>2. tx[c].op = op /\ items' = items /\ t \in Tasks
    BY <1>0, <1>4 DEF CommitStatus, TxInv
  <2>3. \A u \in Tasks : status'[u] = IF u = t THEN new ELSE status[u]
    BY <1>0, <2>1 DEF TypeOK
  <2>4. \A u \in Tasks \ {t} : status'[u] = status[u] /\ items'[u] = items[u]
    BY <2>2, <2>3
  <2>5. status'[t] \in {status[t], "in_progress", "cancelled", "completed"}
    BY <2>2, <2>3
  <2>. QED
    BY <1>0, <2>1, <2>2, <2>4, <2>5, OneTaskCommitted
<1>5. CASE CommitEdit(c)
  <2>1. PICK t \in tx[c].tasks : items' = [items EXCEPT ![t] = tx[c].plan] /\ Touch(t)
    BY <1>5 DEF CommitEdit
  <2>2. tx[c].op = "edit" /\ status' = status /\ t \in Tasks
    BY <1>0, <1>5 DEF CommitEdit, TxInv
  <2>3. \A u \in Tasks \ {t} : items'[u] = items[u]
    BY <1>0, <2>1 DEF TypeOK
  <2>4. \A u \in Tasks \ {t} : status'[u] = status[u] /\ items'[u] = items[u]
    BY <2>2, <2>3
  <2>5. status'[t] \in {status[t], "in_progress", "cancelled", "completed"}
    BY <2>2
  <2>6. (\A d \in Clients \ {c} : SerialTx(d)') /\ NewTasksAreFresh'
    BY <1>0, <2>1, <2>2, <2>4, <2>5, OneTaskCommitted
  <2>. QED
    BY <1>3, <2>6
<1>6. CASE CommitCleanup(c)
  <2>1. /\ tx[c].op = "cleanup" /\ items' = items
        /\ status' = [t \in Tasks |-> IF t \in Stale THEN "abandoned" ELSE status[t]]
        /\ age'    = [t \in Tasks |-> IF t \in Stale THEN "touched" ELSE age[t]]
    BY <1>6 DEF CommitCleanup
  <2>2. tx[c].tasks = Stale /\ Stale # {}
    <3>1. About("cleanup", tx[c].tasks)
      BY <2>1 DEF SerialTx
    <3>. QED
      BY <3>1 DEF About
  <2>3. ASSUME NEW d \in Clients \ {c} PROVE SerialTx(d)'
    <3>1. tx[d].tasks \cap Stale = {} /\ tx[d].tasks \subseteq Tasks
      BY <2>2 DEF TasksApart, RacesInv, TxInv
    <3>2. \A u \in tx[d].tasks : status'[u] = status[u] /\ items'[u] = items[u]
      BY <2>1, <3>1
    <3>3. tx[d].op # "cleanup"
      <4>1. tx[d].op = "cleanup" => tx[d].tasks = Stale
        BY DEF SerialTx, About
      <4>. QED
        BY <2>2, <3>1, <4>1
    <3>4. SerialTx(d) /\ c # d
      OBVIOUS
    <3>. QED
      BY <1>0, <3>2, <3>3, <3>4, StaysAfterCommit
  <2>4. NewTasksAreFresh'
    BY <2>1 DEF NewTasksAreFresh
  <2>. QED
    BY <1>3, <2>3, <2>4
<1>. QED
  BY <1>3, <1>4, <1>5, <1>6 DEF Commit

-----------------------------------------------------------------------------
(* The invariant of the lifecycle is kept by its steps.                    *)
SerialProofs == INSTANCE PickingTasksProofs WITH
    Skus <- {"sku"}, SkuOf <- [r \in Rows |-> "sku"],
    Quantities <- 1 .. MaxQuantity, OversellBound <- 0,
    expired <- {}, legacy <- [t \in Tasks |-> {}], done <- [t \in Tasks |-> {}],
    quantity <- Shown(quantity, InitialStock),
    reserved <- Shown(reserved, [r \in Rows |-> 0]),
    status <- Shown(status, [t \in Tasks |-> "none"]),
    age <- Shown(age, [t \in Tasks |-> "fresh"]),
    shipped <- Shown(shipped, [t \in Tasks |-> [r \in Rows |-> 0]]),
    alloc <- Shown(Allocations, [t \in Tasks |-> [r \in Rows |-> 0]]),
    picked <- Shown(Allocations, [t \in Tasks |-> [r \in Rows |-> 0]])

(* The constants given to PickingTasks are as it assumes.                  *)
LEMMA SerialAssumption ==
  /\ SerialProofs!IsFiniteSet(Tasks)
  /\ [r \in Rows |-> "sku"] \in [Rows -> {"sku"}] /\ 1 .. MaxQuantity \subseteq Int
  /\ InitialStock \in [Rows -> Nat] /\ 0 \in Nat
<1>1. SerialProofs!IsFiniteSet(Tasks)
  BY RacesAssumption, Zenon DEF IsFiniteSet, SerialProofs!IsFiniteSet
<1>. QED
  BY <1>1, RacesAssumption

(* The steps of the lifecycle keep its invariant.                          *)
LEMMA LifecycleKept ==
    SerialProofs!LifecycleInv /\ [SerialProofs!TaskNext]_(SerialProofs!vars) => SerialProofs!LifecycleInv'
BY SerialAssumption, SerialProofs!LifecycleInvStep

(* Both instances name the same invariant.                                 *)
LEMMA SameInvariant == Serial!LifecycleInv = SerialProofs!LifecycleInv
BY Zenon DEF Serial!LifecycleInv, SerialProofs!LifecycleInv,
  Serial!TypeOK, SerialProofs!TypeOK,
  Serial!PicksWithinAllocations, SerialProofs!PicksWithinAllocations,
  Serial!ReservationsBalanced, SerialProofs!ReservationsBalanced,
  Serial!NeverOversold, SerialProofs!NeverOversold,
  Serial!ShipsOnce, SerialProofs!ShipsOnce,
  Serial!SumOver, SerialProofs!SumOver,
  Serial!Units, SerialProofs!Units,
  Serial!Cardinality, SerialProofs!Cardinality,
  Serial!Statuses, SerialProofs!Statuses,
  Serial!Completed, SerialProofs!Completed,
  Serial!Terminal, SerialProofs!Terminal,
  Serial!Ages, SerialProofs!Ages,
  Serial!Lines, SerialProofs!Lines,
  Serial!OrdinaryLines, SerialProofs!OrdinaryLines,
  Serial!Nothing, SerialProofs!Nothing,
  Serial!InProgress, SerialProofs!InProgress

(* The same in the next state.                                             *)
LEMMA SameInvariantPrimed == Serial!LifecycleInv' = SerialProofs!LifecycleInv'
BY Zenon DEF Serial!LifecycleInv, SerialProofs!LifecycleInv,
  Serial!TypeOK, SerialProofs!TypeOK,
  Serial!PicksWithinAllocations, SerialProofs!PicksWithinAllocations,
  Serial!ReservationsBalanced, SerialProofs!ReservationsBalanced,
  Serial!NeverOversold, SerialProofs!NeverOversold,
  Serial!ShipsOnce, SerialProofs!ShipsOnce,
  Serial!SumOver, SerialProofs!SumOver,
  Serial!Units, SerialProofs!Units,
  Serial!Cardinality, SerialProofs!Cardinality,
  Serial!Statuses, SerialProofs!Statuses,
  Serial!Completed, SerialProofs!Completed,
  Serial!Terminal, SerialProofs!Terminal,
  Serial!Ages, SerialProofs!Ages,
  Serial!Lines, SerialProofs!Lines,
  Serial!OrdinaryLines, SerialProofs!OrdinaryLines,
  Serial!Nothing, SerialProofs!Nothing,
  Serial!InProgress, SerialProofs!InProgress

(* Both instances name the same steps.                                     *)
LEMMA SameSteps == [Serial!TaskNext]_(Serial!vars) = [SerialProofs!TaskNext]_(SerialProofs!vars)
BY Zenon DEF Serial!TaskNext, SerialProofs!TaskNext,
  Serial!vars, SerialProofs!vars,
  Serial!stock, SerialProofs!stock,
  Serial!taskVars, SerialProofs!taskVars,
  Serial!CreatePickingTask, SerialProofs!CreatePickingTask,
  Serial!ImportPickingTaskFromExcel, SerialProofs!ImportPickingTaskFromExcel,
  Serial!StartPickingTask, SerialProofs!StartPickingTask,
  Serial!UpdateStatus, SerialProofs!UpdateStatus,
  Serial!EditsItems, SerialProofs!EditsItems,
  Serial!UpdateItems, SerialProofs!UpdateItems,
  Serial!UpdateStatusAndItems, SerialProofs!UpdateStatusAndItems,
  Serial!UpdateOtherFields, SerialProofs!UpdateOtherFields,
  Serial!CompletePickingTask, SerialProofs!CompletePickingTask,
  Serial!SevenDaysPass, SerialProofs!SevenDaysPass,
  Serial!RunStaleReservationsCleanup, SerialProofs!RunStaleReservationsCleanup,
  Serial!LotExpires, SerialProofs!LotExpires,
  Serial!Listed, SerialProofs!Listed,
  Serial!WithoutLegacy, SerialProofs!WithoutLegacy,
  Serial!InBounds, SerialProofs!InBounds,
  Serial!NetOver, SerialProofs!NetOver,
  Serial!Debts, SerialProofs!Debts,
  Serial!InAllocations, SerialProofs!InAllocations,
  Serial!OrdinaryLines, SerialProofs!OrdinaryLines,
  Serial!validateNoExpiredLots, SerialProofs!validateNoExpiredLots,
  Serial!CanReserve, SerialProofs!CanReserve,
  Serial!applyReservations, SerialProofs!applyReservations,
  Serial!releaseReservations, SerialProofs!releaseReservations,
  Serial!Touch, SerialProofs!Touch,
  Serial!MoveStatus, SerialProofs!MoveStatus,
  Serial!isValidPickingTransition, SerialProofs!isValidPickingTransition,
  Serial!validPickingTransitions, SerialProofs!validPickingTransitions,
  Serial!ReservedAfterCancel, SerialProofs!ReservedAfterCancel,
  Serial!Rereserve, SerialProofs!Rereserve,
  Serial!ReplaceItems, SerialProofs!ReplaceItems,
  Serial!ShipAllocations, SerialProofs!ShipAllocations,
  Serial!Completable, SerialProofs!Completable,
  Serial!FinalStatus, SerialProofs!FinalStatus,
  Serial!StaleInProgress, SerialProofs!StaleInProgress,
  Serial!StaleWaiting, SerialProofs!StaleWaiting,
  Serial!ReasonablePicks, SerialProofs!ReasonablePicks,
  Serial!OrdinaryStatuses, SerialProofs!OrdinaryStatuses,
  Serial!SumOver, SerialProofs!SumOver,
  Serial!Units, SerialProofs!Units,
  Serial!Cardinality, SerialProofs!Cardinality,
  Serial!Statuses, SerialProofs!Statuses,
  Serial!Completed, SerialProofs!Completed,
  Serial!Terminal, SerialProofs!Terminal,
  Serial!Ages, SerialProofs!Ages,
  Serial!Lines, SerialProofs!Lines,
  Serial!Nothing, SerialProofs!Nothing,
  Serial!InProgress, SerialProofs!InProgress

-----------------------------------------------------------------------------
(* The steps that touch no transaction.                                    *)
LEMMA TasksAloneSerial ==
    ASSUME RacesInv, \A d \in Clients : SerialTx(d), UNCHANGED <<quantity, reserved, tx>>,
           NEW t \in Tasks,
           \/ CreatePickingTask(t, items'[t]) /\ NewTasksAreFresh
           \/ SevenDaysPass(t)
    PROVE  \A d \in Clients : SerialTx(d)'
<1>0. TypeOK
  BY DEF RacesInv
<1>. SUFFICES ASSUME NEW d \in Clients PROVE SerialTx(d)'
  OBVIOUS
<1>1. PICK tasks : tasks = tx[d].tasks
  OBVIOUS
<1>2. tasks \in SUBSET Tasks /\ tx'[d] = tx[d] /\ quantity' = quantity /\ reserved' = reserved
  BY <1>1 DEF RacesInv, TxInv
<1>3. CASE SevenDaysPass(t)
  <2>1. status' = status /\ items' = items /\ tx[d].op # "cleanup"
    BY <1>3 DEF SevenDaysPass, Running
  <2>. QED
    BY <1>1, <1>2, <2>1, UnderwayStays
<1>4. CASE CreatePickingTask(t, items'[t]) /\ NewTasksAreFresh
  <2>1. /\ status[t] = "none" /\ age[t] = "fresh" /\ age' = age
        /\ \A u \in Tasks \ {t} : status'[u] = status[u] /\ items'[u] = items[u]
        /\ status'[t] = "open"
    BY <1>0, <1>4 DEF CreatePickingTask, NewTasksAreFresh, TypeOK
  <2>2. tx[d].op # "none" => t \notin tasks
    <3>. SUFFICES ASSUME tx[d].op # "none" PROVE t \notin tasks
      OBVIOUS
    <3>1. \A u \in tasks : status[u] \in Allowed(tx[d].op)
      BY <1>1 DEF SerialTx, About
    <3>. QED
      BY <2>1, <3>1 DEF Allowed, Waiting
  <2>3. Stale' = Stale
    BY <2>1 DEF Stale, StaleInProgress, StaleWaiting, InProgress
  <2>4. CASE tx[d].op = "none"
    BY <1>2, <2>4 DEF SerialTx
  <2>5. CASE tx[d].op # "none"
    <3>1. \A u \in tasks : status'[u] = status[u] /\ items'[u] = items[u]
      BY <1>2, <2>1, <2>2, <2>5
    <3>. QED
      BY <1>1, <1>2, <2>3, <3>1, UnderwayStays
  <2>. QED
    BY <2>4, <2>5
<1>. QED
  BY <1>3, <1>4

(* The steps of one transaction that commit nothing.                       *)
LEMMA OneTransactionSerial ==
    ASSUME RacesInv, TasksApart, \A d \in Clients : SerialTx(d), NewTasksAreFresh,
           NEW c \in Clients, SerialTx(c)', \A d \in Clients \ {c} : tx'[d] = tx[d], UNCHANGED committed,
           \A d \in Clients \ {c} : tx'[c].tasks \cap tx[d].tasks = {}
    PROVE  TasksApart' /\ (\A d \in Clients : SerialTx(d)') /\ NewTasksAreFresh'
<1>1. UNCHANGED <<quantity, reserved, status, items, age>>
  BY DEF committed
<1>2. Stale' = Stale
  BY <1>1 DEF Stale, StaleInProgress, StaleWaiting, InProgress
<1>3. ASSUME NEW d \in Clients \ {c} PROVE SerialTx(d)'
  <2>1. PICK tasks : tasks = tx[d].tasks
    OBVIOUS
  <2>2. tasks \in SUBSET Tasks /\ tx'[d] = tx[d] /\ SerialTx(d)
    BY <2>1 DEF RacesInv, TxInv
  <2>. QED
    BY <1>1, <1>2, <2>1, <2>2, UnderwayStays
<1>4. TasksApart'
  BY DEF TasksApart
<1>5. NewTasksAreFresh'
  BY <1>1 DEF NewTasksAreFresh
<1>. QED
  BY <1>3, <1>4, <1>5

(* What the handlers see stays as it is, or changes by one of their steps. *)
LEMMA NothingSeen ==
    ASSUME exclusive' = exclusive, UNCHANGED committed
    PROVE  UNCHANGED Serial!vars
<1>1. UNCHANGED <<quantity, reserved, status, age, shipped>> /\ Allocations' = Allocations
  BY DEF committed, Allocations
<1>. QED
  BY <1>1, Zenon DEF Serial!vars, Shown

(* Every step keeps what is said of the transactions.                      *)
LEMMA SerialNext ==
    ASSUME RacesInv, exclusive, TasksApart, \A d \in Clients : SerialTx(d), NewTasksAreFresh,
           Serial!LifecycleInv, [Next]_vars
    PROVE  /\ TasksApart' /\ (\A d \in Clients : SerialTx(d)') /\ NewTasksAreFresh'
           /\ [Serial!TaskNext]_(Serial!vars) /\ exclusive'
<1>0. TypeOK
  BY DEF RacesInv
<1>1. CASE UNCHANGED vars
  <2>1. UNCHANGED committed /\ tx' = tx /\ exclusive' = exclusive
    BY <1>1 DEF vars, txVars, committed
  <2>2. UNCHANGED <<quantity, reserved, status, items, age>>
    BY <2>1 DEF committed
  <2>3. Stale' = Stale
    BY <2>2 DEF Stale, StaleInProgress, StaleWaiting, InProgress
  <2>4. ASSUME NEW d \in Clients PROVE SerialTx(d)'
    <3>1. PICK tasks : tasks = tx[d].tasks
      OBVIOUS
    <3>2. tasks \in SUBSET Tasks /\ tx'[d] = tx[d] /\ SerialTx(d)
      BY <2>1, <3>1 DEF RacesInv, TxInv
    <3>. QED
      BY <2>2, <2>3, <3>1, <3>2, UnderwayStays
  <2>5. TasksApart' /\ NewTasksAreFresh'
    BY <2>1, <2>2 DEF TasksApart, NewTasksAreFresh
  <2>. QED
    BY <2>1, <2>4, <2>5, NothingSeen
<1>2. CASE Next
  <2>0. exclusive' = exclusive /\ Excluded = Busy
    BY <1>2 DEF Next, Excluded
  <2>1. ASSUME NEW c \in Clients, SerialTx(c)', \A d \in Clients \ {c} : tx'[d] = tx[d], UNCHANGED committed,
               \A d \in Clients \ {c} : tx'[c].tasks \cap tx[d].tasks = {}
        PROVE  /\ TasksApart' /\ (\A d \in Clients : SerialTx(d)') /\ NewTasksAreFresh'
               /\ [Serial!TaskNext]_(Serial!vars) /\ exclusive'
    <3>1. TasksApart' /\ (\A d \in Clients : SerialTx(d)') /\ NewTasksAreFresh'
      BY <2>1, OneTransactionSerial
    <3>2. UNCHANGED Serial!vars
      BY <2>0, <2>1, NothingSeen
    <3>. QED
      BY <2>0, <3>1, <3>2
  <2>2. ASSUME NEW c \in Clients, NEW t \in Tasks \ Excluded, BeginOn(c, t)
        PROVE  /\ TasksApart' /\ (\A d \in Clients : SerialTx(d)') /\ NewTasksAreFresh'
               /\ [Serial!TaskNext]_(Serial!vars) /\ exclusive'
    <3>1. /\ SerialTx(c)' /\ tx'[c].tasks = {t} /\ UNCHANGED committed
          /\ \A d \in Clients \ {c} : tx'[d] = tx[d]
      BY <2>2, BeginOnUnderway
    <3>2. \A d \in Clients : t \notin tx[d].tasks
      BY <2>0, <2>2 DEF Busy
    <3>3. \A d \in Clients \ {c} : tx'[c].tasks \cap tx[d].tasks = {}
      BY <3>1, <3>2
    <3>. QED
      BY <2>1, <3>1, <3>3
  <2>3. ASSUME NEW c \in Clients, Stale \cap Excluded = {}, BeginCleanup(c)
        PROVE  /\ TasksApart' /\ (\A d \in Clients : SerialTx(d)') /\ NewTasksAreFresh'
               /\ [Serial!TaskNext]_(Serial!vars) /\ exclusive'
    <3>1. /\ SerialTx(c)' /\ tx'[c].tasks = Stale /\ UNCHANGED committed
          /\ \A d \in Clients \ {c} : tx'[d] = tx[d]
      BY <2>3, CleanupUnderway
    <3>2. \A d \in Clients : Stale \cap tx[d].tasks = {}
      BY <2>0, <2>3 DEF Busy
    <3>3. \A d \in Clients \ {c} : tx'[c].tasks \cap tx[d].tasks = {}
      BY <3>1, <3>2
    <3>. QED
      BY <2>1, <3>1, <3>3
  <2>4. ASSUME NEW c \in Clients, Statement(c)
        PROVE  /\ TasksApart' /\ (\A d \in Clients : SerialTx(d)') /\ NewTasksAreFresh'
               /\ [Serial!TaskNext]_(Serial!vars) /\ exclusive'
    <3>1. /\ SerialTx(c)' /\ tx'[c].tasks = tx[c].tasks /\ UNCHANGED committed
          /\ \A d \in Clients \ {c} : tx'[d] = tx[d]
      BY <2>4, StatementUnderway
    <3>2. \A d \in Clients \ {c} : tx'[c].tasks \cap tx[d].tasks = {}
      BY <3>1 DEF TasksApart
    <3>. QED
      BY <2>1, <3>1, <3>2
  <2>5. ASSUME NEW c \in Clients, Rollback(c)
        PROVE  /\ TasksApart' /\ (\A d \in Clients : SerialTx(d)') /\ NewTasksAreFresh'
               /\ [Serial!TaskNext]_(Serial!vars) /\ exclusive'
    <3>1. tx' = [tx EXCEPT ![c] = NoTx] /\ UNCHANGED committed
      BY <2>5 DEF Rollback
    <3>2. tx'[c] = NoTx /\ \A d \in Clients \ {c} : tx'[d] = tx[d]
      BY <3>1 DEF RacesInv
    <3>3. NoTx.op = "none" /\ NoTx.tasks = {}
      BY DEF NoTx
    <3>4. SerialTx(c)'
      BY <3>2, <3>3 DEF SerialTx
    <3>5. \A d \in Clients \ {c} : tx'[c].tasks \cap tx[d].tasks = {}
      BY <3>2, <3>3
    <3>. QED
      BY <2>1, <3>1, <3>2, <3>4, <3>5
  <2>6. ASSUME NEW c \in Clients, Commit(c)
        PROVE  /\ TasksApart' /\ (\A d \in Clients : SerialTx(d)') /\ NewTasksAreFresh'
               /\ [Serial!TaskNext]_(Serial!vars) /\ exclusive'
    <3>1. TasksApart' /\ (\A d \in Clients : SerialTx(d)') /\ NewTasksAreFresh'
      BY <2>6, CommitSerialTx
    <3>2. Serial!TaskNext
      BY <2>0, <2>6, CommitIsSerial
    <3>. QED
      BY <2>0, <3>1, <3>2
  <2>7. ASSUME NEW t \in Tasks, SevenDaysPass(t)
        PROVE  /\ TasksApart' /\ (\A d \in Clients : SerialTx(d)') /\ NewTasksAreFresh'
               /\ [Serial!TaskNext]_(Serial!vars) /\ exclusive'
    <3>1. UNCHANGED <<quantity, reserved, tx>> /\ status' = status
      BY <2>7 DEF SevenDaysPass
    <3>2. \A d \in Clients : SerialTx(d)'
      BY <2>7, <3>1, TasksAloneSerial
    <3>3. TasksApart' /\ NewTasksAreFresh'
      BY <1>0, <2>7, <3>1 DEF TasksApart, NewTasksAreFresh, SevenDaysPass, TypeOK
    <3>4. Serial!SevenDaysPass(t)
      BY <2>0, <2>7, SerialDays
    <3>. QED
      BY <2>0, <3>2, <3>3, <3>4 DEF Serial!TaskNext
  <2>8. ASSUME NEW t \in Tasks, NEW plan \in Plans, CreatePickingTask(t, plan)
        PROVE  /\ TasksApart' /\ (\A d \in Clients : SerialTx(d)') /\ NewTasksAreFresh'
               /\ [Serial!TaskNext]_(Serial!vars) /\ exclusive'
    <3>1. UNCHANGED <<quantity, reserved, tx>> /\ age' = age /\ items'[t] = plan
      BY <1>0, <2>8 DEF CreatePickingTask, TypeOK
    <3>2. \A d \in Clients : SerialTx(d)'
      BY <2>8, <3>1, TasksAloneSerial
    <3>3. TasksApart' /\ NewTasksAreFresh'
      BY <1>0, <2>8, <3>1 DEF TasksApart, NewTasksAreFresh, CreatePickingTask, TypeOK
    <3>4. PICK a : a = AllocationOf(plan)
      OBVIOUS
    <3>5. a \in Serial!OrdinaryLines
      BY <3>4, AllocationBounded, RacesAssumption DEF Serial!Lines, Serial!OrdinaryLines
    <3>6. Serial!CreatePickingTask(t, a)
      BY <1>0, <2>0, <2>8, <3>4, SerialCreate
    <3>. QED
      BY <2>0, <3>2, <3>3, <3>5, <3>6 DEF Serial!TaskNext
  <2>. QED
    BY <1>2, <2>2, <2>3, <2>4, <2>5, <2>6, <2>7, <2>8 DEF Next, Others
<1>. QED
  BY <1>1, <1>2

(* So the invariant holds through what is committed.                       *)
LEMMA SerialInvKept ==
    ASSUME Serial!LifecycleInv, [Serial!TaskNext]_(Serial!vars)
    PROVE  Serial!LifecycleInv'
<1>1. SerialProofs!LifecycleInv /\ [SerialProofs!TaskNext]_(SerialProofs!vars)
  BY SameInvariant, SameSteps
<1>2. SerialProofs!LifecycleInv'
  BY <1>1, LifecycleKept
<1>. QED
  BY <1>2, SameInvariantPrimed

(* Before any request the lifecycle is in its initial state.               *)
LEMMA InitIsSerial == ASSUME Init PROVE Serial!Init
<1>1. \A r \in Rows : AllocationOf(<<>>)[r] = 0
  <2>. SUFFICES ASSUME NEW r \in Rows PROVE AllocationOf(<<>>)[r] = 0
    OBVIOUS
  <2>1. PICK none : none = <<>>
    OBVIOUS
  <2>2. {i \in DOMAIN none : none[i].row = r} = {}
    BY <2>1
  <2>3. AllocationOf(none)[r] = 0
    BY <2>2, SumEmpty DEF AllocationOf
  <2>. QED
    BY <2>1, <2>3
<1>2. AllocationOf(<<>>) = [r \in Rows |-> 0]
  BY <1>1 DEF AllocationOf
<1>3. Allocations = [t \in Tasks |-> [r \in Rows |-> 0]]
  BY <1>2 DEF Allocations, Init
<1>. QED
  BY <1>3, Zenon DEF Init, Serial!Init, Serial!Nothing, Shown

(* Before any request nothing is underway.                                 *)
LEMMA InitSerialInv == ASSUME Init PROVE SerialInv
<1>1. Serial!LifecycleInv
  <2>1. SerialProofs!Init
    BY InitIsSerial, Zenon DEF Serial!Init, SerialProofs!Init, Serial!Nothing, SerialProofs!Nothing
  <2>2. SerialProofs!LifecycleInv
    BY <2>1, SerialAssumption, SerialProofs!InitLifecycleInv
  <2>. QED
    BY <2>2, SameInvariant
<1>2. \A c \in Clients : tx[c] = NoTx
  BY DEF Init
<1>3. NoTx.op = "none" /\ NoTx.tasks = {}
  BY DEF NoTx
<1>4. TasksApart /\ \A c \in Clients : SerialTx(c)
  BY <1>2, <1>3 DEF TasksApart, SerialTx
<1>5. NewTasksAreFresh
  BY DEF NewTasksAreFresh, Init
<1>. QED
  BY <1>1, <1>4, <1>5 DEF SerialInv

(* Every step is a step of the lifecycle or none.                          *)
LEMMA SerialStep ==
    ASSUME RacesInv, exclusive => SerialInv, [Next]_vars
    PROVE  (exclusive => SerialInv)' /\ [Serial!TaskNext]_(Serial!vars)
<1>0. exclusive' = exclusive
  BY DEF Next, vars
<1>1. CASE exclusive
  <2>1. /\ TasksApart' /\ (\A d \in Clients : SerialTx(d)') /\ NewTasksAreFresh'
        /\ [Serial!TaskNext]_(Serial!vars)
    BY <1>1, SerialNext DEF SerialInv
  <2>2. Serial!LifecycleInv'
    BY <1>1, <2>1, SerialInvKept DEF SerialInv
  <2>. QED
    BY <2>1, <2>2 DEF SerialInv
<1>2. CASE ~exclusive
  <2>1. ~exclusive'
    BY <1>0, <1>2
  <2>2. UNCHANGED Serial!vars
    BY <1>2, <2>1, Zenon DEF Serial!vars, Shown
  <2>. QED
    BY <2>1, <2>2
<1>. QED
  BY <1>1, <1>2

(* Transactions about different tasks may interleave as they like on the   *)
(* same rows: what they commit is what the handlers of PickingTasks do,    *)
(* one after the other, in the order of the commits.                       *)
THEOREM TransactionsSerialise == Spec => TasksSerialise
<1>1. Init => Serial!Init /\ (exclusive => SerialInv)
  BY InitIsSerial, InitSerialInv
<1>2. RacesInv /\ (exclusive => SerialInv) /\ [Next]_vars
        => (exclusive => SerialInv)' /\ [Serial!TaskNext]_(Serial!vars)
  BY SerialStep
<1>. QED
  BY <1>1, <1>2, RacesInvariant, PTL DEF Spec, TasksSerialise, Serial!TaskSpec

(* What is committed as reserved of a row is what the started tasks were   *)
(* given of it, and the row holds as much.                                 *)
ReservedForStarted ==
    exclusive => \A r \in Rows : /\ reserved[r] = SumOver(InProgress, Allocations, r)
                                 /\ reserved[r] <= quantity[r]

(* Reservations stay right however transactions about different tasks      *)
(* interleave their UPDATEs on the same rows.                              *)
THEOREM ReservationsStayRight == Spec => []ReservedForStarted
<1>1. Init => (exclusive => SerialInv)
  BY InitSerialInv
<1>2. RacesInv /\ (exclusive => SerialInv) /\ [Next]_vars => (exclusive => SerialInv)'
  BY SerialStep
<1>3. (exclusive => SerialInv) => ReservedForStarted
  BY SerialBooks DEF SerialInv, ReservedForStarted
<1>. QED
  BY <1>1, <1>2, <1>3, RacesInvariant, PTL DEF Spec

(* The specification TLC runs restricts the lists of items and nothing     *)
(* else: it implements this one.                                           *)
THEOREM MCSpecIsSpec == MCSpec => Spec
<1>1. MCNext => Next
  BY DEF MCNext
<1>. QED
  BY <1>1, PTL DEF MCSpec, Spec
=============================================================================

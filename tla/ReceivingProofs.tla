--------------------------- MODULE ReceivingProofs ---------------------------
(***************************************************************************)
(* Whatever submissions, cancellations, edits and receipts overlap, for    *)
(* any number of requests, tasks, articles and quantities: what the order  *)
(* accounts for stays within what was ordered, and only a negative         *)
(* quantity makes it shrink; its status tells what came, it has one task, and the inbound movements are  *)
(* what the lines of the tasks say.                                        *)
(***************************************************************************)
EXTENDS MCReceiving, FiniteSetTheorems, TLAPS

-----------------------------------------------------------------------------
(* The inductive invariant.  A transaction that has written is described   *)
(* by what its commit will leave behind: it holds the locks of what it     *)
(* wrote, so nobody else changes that in between.                          *)

KnownItems == [Skus -> Item]
TaskRow == [status : Statuses \cup {"none"}, linked : BOOLEAN,
            inbound : {"none", "order", "other"}, items : KnownItems]

Exists(t) == task[t].status # "none"
SoleTask == \A t, u \in Linked : t = u

ReceivedAfter(c, s) == IF s \in DOMAIN tx[c].received THEN tx[c].received[s] ELSE received[s]
RejectedAfter(c, s) == IF s \in DOMAIN tx[c].received THEN tx[c].rejected[s] ELSE rejected[s]
Settled(c, s) == ReceivedAfter(c, s) + RejectedAfter(c, s) = ordered[s]

TypesInv ==
    /\ order \in [status : OrderStatuses, deleted : BOOLEAN]
    /\ ordered \in [Skus -> Amounts]
    /\ received \in [Skus -> Int] /\ rejected \in [Skus -> Int]
    /\ task \in [Tasks -> TaskRow]
    /\ inbound \in [Tasks -> [Skus -> -MaxInbound .. MaxInbound]]
    /\ whole \in [Tasks -> SUBSET Skus] /\ spoilt \subseteq Tasks
    /\ articles \subseteq Skus /\ lowered \subseteq Skus /\ edits \in 0 .. MaxEdits
    /\ tx = [c \in Clients |-> tx[c]]

Done(item) == item.status \in {"completed", "partial"}

TaskInv(t) ==
    /\ Exists(t) \/ task[t] = NoTask
    /\ t \notin spoilt => \A s \in Skus :
          /\ inbound[t][s] = Booked(task[t].items, whole[t], s)
          /\ s \in whole[t] => Done(task[t].items[s])

ReadInv(c) ==
    tx[c].at = "read" =>
        /\ tx[c].task \in Tasks /\ Exists(tx[c].task)
        /\ tx[c].read.status \in Statuses \cup {"none"} /\ tx[c].read.items \in KnownItems
        /\ tx[c].request = Everything \/ tx[c].request \in Requests

(* Items and lines received with all of them that go with what comes in.   *)
Accounts(t, new, come) == \A s \in Skus :
    /\ Booked(new.items, whole[t] \cup new.whole, s)
          = Booked(task[t].items, whole[t], s) + come[s]
    /\ s \in whole[t] \cup new.whole => Done(new.items[s])

(* What a transaction wrote of the task it locks.                          *)
WroteTask(c) ==
    /\ tx[c].task \in Tasks /\ Exists(tx[c].task)
    /\ tx[c].new.items \in KnownItems
    /\ tx[c].new.status \in Statuses \cup {"as is"}
    /\ tx[c].new.whole \subseteq Skus
    /\ tx[c].come \in [Skus -> Int]
    /\ tx[c].locks = {tx[c].task} \cup DOMAIN tx[c].received
    /\ ~tx[c].lost /\ tx[c].task \notin spoilt => Accounts(tx[c].task, tx[c].new, tx[c].come)

(* ... and of the lines of the order, if the task is one of the order.     *)
WroteLines(c) ==
    /\ DOMAIN tx[c].received \subseteq Skus /\ tx[c].takes \subseteq Skus
    /\ \A s \in DOMAIN tx[c].received :
        /\ tx[c].received[s] \in Int /\ tx[c].rejected[s] \in Int
        /\ s \notin tx[c].takes =>
              /\ received[s] <= tx[c].received[s]
              /\ received[s] + rejected[s] <= tx[c].received[s] + tx[c].rejected[s]
        /\ tx[c].received[s] <= ordered[s]
        /\ tx[c].received[s] + tx[c].rejected[s] <= ordered[s]
    /\ ~task[tx[c].task].linked => DOMAIN tx[c].received = {} /\ tx[c].verdict = "none"

Judged(c) ==
    /\ tx[c].verdict \in {"none", "partial", "completed"}
    /\ tx[c].verdict = "completed" => \A s \in Ordered \ lowered : Settled(c, s)
    /\ tx[c].verdict = "partial" => \E s \in Ordered : Settled(c, s) \/ s \in lowered
    /\ SoleTask /\ task[tx[c].task].linked /\ (\A s \in Ordered : Settled(c, s))
          => tx[c].verdict = "completed"

WrittenInv(c) == tx[c].at = "written" => WroteTask(c) /\ WroteLines(c) /\ Judged(c)

LocksInv == \A c, d \in Clients : c # d => Locks(c) \cap Locks(d) = {}

InboundInv == \A t, u \in Tasks : task[t].inbound = "order" /\ task[u].inbound = "order" => t = u

OrderInv ==
    /\ WithinOrdered /\ \A s \in Skus : received[s] <= ordered[s]
    /\ Linked = {} => \A s \in Skus : received[s] + rejected[s] = 0
    /\ order.status = "completed" => \A s \in Ordered \ lowered : In(s)
    /\ order.status = "partial" => \E s \in Ordered : In(s) \/ s \in lowered
    /\ AllIn /\ Ordered # {} /\ SoleTask => order.status \in {"completed", "cancelled"}

ReceivingInv ==
    /\ TypesInv /\ LocksInv /\ InboundInv /\ OrderInv
    /\ \A t \in Tasks : TaskInv(t)
    /\ \A c \in Clients : ReadInv(c) /\ WrittenInv(c)

-----------------------------------------------------------------------------
(* Before the first request the order is a draft without receipts and no   *)
(* task exists.                                                            *)
LEMMA InitReceivingInv == Init => ReceivingInv
<1>. SUFFICES ASSUME Init PROVE ReceivingInv
  OBVIOUS
<1>. USE ReceivingAssumption DEF Init
<1>1. ordered \in [Skus -> Amounts] /\ Amounts \subseteq Nat
  BY DEF Amounts
<1>2. \A q \in [Skus -> Amounts] : Fresh(q) \in KnownItems
  BY DEF Fresh, FreshItem, KnownItems, Item, Optional, Amounts
<1>3. [s \in Skus |-> 0] \in [Skus -> Amounts]
  BY DEF Amounts
<1>4. NoTask \in TaskRow
  BY <1>2, <1>3 DEF NoTask, TaskRow
<1>5. TypesInv
  BY <1>1, <1>4 DEF TypesInv, OrderStatuses
<1>6. \A t \in Tasks : TaskInv(t) /\ t \notin Linked
  BY DEF TaskInv, Exists, Linked, NoTask, Fresh, FreshItem, Booked
<1>7. LocksInv /\ InboundInv
  BY DEF LocksInv, InboundInv, Locks, Idle, NoTask
<1>8. WithinOrdered
  BY <1>1 DEF WithinOrdered, Amounts
<1>9. AllIn /\ Ordered # {} => FALSE
  BY <1>1 DEF AllIn, In, Ordered, Amounts
<1>10. OrderInv
  BY <1>1, <1>8, <1>9 DEF OrderInv, Amounts
<1>11. \A c \in Clients : ReadInv(c) /\ WrittenInv(c)
  BY DEF ReadInv, WrittenInv, Idle
<1>. QED
  BY <1>5, <1>6, <1>7, <1>10, <1>11 DEF ReceivingInv

(* A client's step changes nobody else's.                                  *)
LEMMA OneClientGoes ==
    ASSUME TypesInv, NEW c \in Clients, NEW step, Goes(c, step)
    PROVE  tx' = [d \in Clients |-> IF d = c THEN step ELSE tx[d]]
BY DEF TypesInv, Goes

(* What a client has to show when only its own place changes.              *)
LEMMA OnlyTxChanges ==
    ASSUME ReceivingInv, NEW c \in Clients, NEW step, Goes(c, step),
           UNCHANGED <<order, lineVars, taskVars, otherVars>>,
           ReadInv(c)', WrittenInv(c)',
           \A d \in Clients \ {c} : Locks(c)' \cap Locks(d) = {}
    PROVE  ReceivingInv'
<1>. USE DEF ReceivingInv, lineVars, taskVars, otherVars
<1>1. tx' = [d \in Clients |-> IF d = c THEN step ELSE tx[d]]
  BY OneClientGoes
<1>2. \A d \in Clients \ {c} : tx'[d] = tx[d]
  BY <1>1
<1>3. TypesInv'
  BY <1>1 DEF TypesInv, TaskRow, KnownItems, Item
<1>4. LocksInv'
  BY <1>2 DEF LocksInv, Locks
<1>5. InboundInv'
  BY DEF InboundInv
<1>6. OrderInv'
  BY DEF OrderInv, WithinOrdered, Linked, AllIn, In, Ordered, SoleTask
<1>7. \A t \in Tasks : TaskInv(t)'
  BY DEF TaskInv, Exists
<1>8. ASSUME NEW d \in Clients \ {c} PROVE ReadInv(d)' /\ WrittenInv(d)'
  <2>1. ReadInv(d)'
    BY <1>2 DEF ReadInv, Exists
  <2>2. /\ tx'[d] = tx[d] /\ task' = task /\ ordered' = ordered
        /\ received' = received /\ rejected' = rejected /\ lowered' = lowered
        /\ whole' = whole /\ spoilt' = spoilt
    BY <1>2
  <2>3. WroteTask(d) => WroteTask(d)'
    BY <2>2 DEF WroteTask, Exists, Accounts
  <2>4. WroteLines(d) => WroteLines(d)'
    BY <2>2 DEF WroteLines
  <2>5. Judged(d) => Judged(d)'
    BY <2>2 DEF Judged, Settled, ReceivedAfter, RejectedAfter, Ordered, SoleTask, Linked
  <2>. QED
    BY <2>1, <2>2, <2>3, <2>4, <2>5 DEF WrittenInv
<1>. QED
  BY <1>3, <1>4, <1>5, <1>6, <1>7, <1>8

(* A place that neither reads a task nor holds locks.                      *)
LEMMA PlainPlace ==
    ASSUME ReceivingInv, NEW c \in Clients, NEW step, Goes(c, step),
           step.at \notin {"read", "written"},
           UNCHANGED <<order, lineVars, taskVars, otherVars>>
    PROVE  ReceivingInv'
<1>1. tx'[c] = step
  BY OneClientGoes DEF ReceivingInv
<1>2. ReadInv(c)' /\ WrittenInv(c)' /\ Locks(c)' = {}
  BY <1>1 DEF ReadInv, WrittenInv, Locks
<1>. QED
  BY <1>2, OnlyTxChanges

(* A request that fails releases its locks and writes nothing.             *)
LEMMA RollbackStep ==
    ASSUME ReceivingInv, NEW c \in Clients, Rollback(c)
    PROVE  ReceivingInv'
BY PlainPlace DEF Rollback, Idle

(* Submit, cancel and delete lock the order's row and copy its status.     *)
LEMMA BeginOrderStep ==
    ASSUME ReceivingInv, NEW c \in Clients, BeginSubmit(c) \/ BeginCancel(c) \/ BeginDelete(c)
    PROVE  ReceivingInv'
<1>1. CASE BeginSubmit(c)
  BY <1>1, PlainPlace DEF BeginSubmit
<1>2. CASE BeginCancel(c)
  BY <1>2, PlainPlace DEF BeginCancel
<1>3. CASE BeginDelete(c)
  BY <1>3, PlainPlace DEF BeginDelete
<1>. QED
  BY <1>1, <1>2, <1>3

(* A completion locks its task and copies its items.                       *)
LEMMA BeginStep ==
    ASSUME ReceivingInv, NEW c \in Clients, NEW t \in Tasks, BeginCompletion(c, t)
    PROVE  ReceivingInv'
<1>1. PICK request : /\ Begin(c, t, request)
                     /\ request = Everything \/ request \in Requests
  BY DEF BeginCompletion
<1>. DEFINE step == [at |-> "read", task |-> t,
                     read |-> [status |-> task[t].status, items |-> task[t].items],
                     request |-> request]
<1>2. Goes(c, step) /\ task[t] # NoTask /\ UNCHANGED <<order, lineVars, taskVars, otherVars>>
  BY <1>1 DEF Begin
<1>3. tx'[c] = step
  BY <1>2, OneClientGoes DEF ReceivingInv
<1>4. Exists(t) /\ task[t] \in TaskRow
  BY <1>2 DEF ReceivingInv, TaskInv, TypesInv
<1>5. ReadInv(c)'
  BY <1>1, <1>2, <1>3, <1>4 DEF ReadInv, Exists, TaskRow, KnownItems, Item, taskVars
<1>6. WrittenInv(c)' /\ Locks(c)' = {}
  BY <1>3 DEF WrittenInv, Locks
<1>. QED
  BY <1>2, <1>5, <1>6, OnlyTxChanges

-----------------------------------------------------------------------------
(* The commits.  What the others have written still stands when the rows   *)
(* they hold are as they were and the lines have only grown.               *)
Grown ==
    /\ received' \in [Skus -> Int] /\ rejected' \in [Skus -> Int]
    /\ lowered \subseteq lowered'
    /\ \A s \in Skus \ lowered' : received[s] + rejected[s] <= received'[s] + rejected'[s]
    /\ WithinOrdered'

(* What the requests that do not move have read or will commit stays true  *)
(* while lines only grow within what was ordered and no task is unlinked.  *)
LEMMA OthersStand ==
    ASSUME ReceivingInv, NEW d \in Clients, tx'[d] = tx[d], ordered' = ordered, Grown,
           Linked \subseteq Linked',
           ASSUME tx[d].at = "written"
           PROVE  /\ task'[tx[d].task] = task[tx[d].task]
                  /\ tx[d].task \notin spoilt' =>
                        tx[d].task \notin spoilt /\ whole'[tx[d].task] = whole[tx[d].task]
                  /\ \A s \in DOMAIN tx[d].received : /\ received'[s] = received[s]
                                                      /\ rejected'[s] = rejected[s],
           ASSUME tx[d].at = "written", SoleTask, task[tx[d].task].linked
           PROVE  received' = received /\ rejected' = rejected
    PROVE  WrittenInv(d)'
<1>. SUFFICES ASSUME tx[d].at = "written" PROVE WroteTask(d)' /\ WroteLines(d)' /\ Judged(d)'
  BY DEF WrittenInv
<1>1. WroteTask(d) /\ WroteLines(d) /\ Judged(d)
  BY DEF ReceivingInv, WrittenInv
<1>2. /\ task'[tx[d].task] = task[tx[d].task]
      /\ tx[d].task \notin spoilt' =>
            tx[d].task \notin spoilt /\ whole'[tx[d].task] = whole[tx[d].task]
      /\ \A s \in DOMAIN tx[d].received : received'[s] = received[s] /\ rejected'[s] = rejected[s]
  OBVIOUS
<1>3. WroteTask(d)'
  BY <1>1, <1>2 DEF WroteTask, Exists, Accounts
<1>4. WroteLines(d)'
  BY <1>1, <1>2 DEF WroteLines
<1>5. Ordered' = Ordered /\ Ordered \subseteq Skus
  BY DEF Ordered
<1>6. ASSUME NEW s \in Skus \ lowered', Settled(d, s)
      PROVE  Settled(d, s)'
  <2>1. CASE s \in DOMAIN tx[d].received
    BY <1>6, <2>1 DEF Settled, ReceivedAfter, RejectedAfter
  <2>2. CASE s \notin DOMAIN tx[d].received
    <3>1. received[s] + rejected[s] = ordered[s]
      BY <1>6, <2>2 DEF Settled, ReceivedAfter, RejectedAfter
    <3>2. /\ received[s] + rejected[s] <= received'[s] + rejected'[s]
          /\ received'[s] + rejected'[s] <= ordered[s]
      BY DEF Grown, WithinOrdered
    <3>3. received'[s] \in Int /\ rejected'[s] \in Int /\ ordered[s] \in Nat
      BY DEF Grown, ReceivingInv, TypesInv, Amounts
    <3>4. received'[s] + rejected'[s] = ordered[s]
      BY <3>1, <3>2, <3>3
    <3>. QED
      BY <2>2, <3>4 DEF Settled, ReceivedAfter, RejectedAfter
  <2>. QED
    BY <2>1, <2>2
<1>7. ASSUME SoleTask', task[tx[d].task].linked, \A s \in Ordered : Settled(d, s)'
      PROVE  tx[d].verdict = "completed"
  <2>1. SoleTask
    BY <1>7 DEF SoleTask
  <2>2. received' = received /\ rejected' = rejected
    BY <1>7, <2>1
  <2>3. \A s \in Ordered : Settled(d, s)
    BY <1>7, <2>2 DEF Settled, ReceivedAfter, RejectedAfter
  <2>. QED
    BY <1>1, <1>7, <2>1, <2>3 DEF Judged
<1>8. Judged(d)'
  <2>1. lowered \subseteq lowered'
    BY DEF Grown
  <2>2. tx[d].verdict = "completed" => \A s \in Ordered \ lowered' : Settled(d, s)'
    BY <1>1, <1>5, <1>6, <2>1 DEF Judged
  <2>3. tx[d].verdict = "partial" => \E s \in Ordered : Settled(d, s)' \/ s \in lowered'
    BY <1>1, <1>5, <1>6, <2>1 DEF Judged
  <2>. QED
    BY <1>1, <1>2, <1>5, <1>7, <2>2, <2>3 DEF Judged
<1>. QED
  BY <1>3, <1>4, <1>8

(* Someone whose place is free of locks and of what it read.               *)
LEMMA IdleStands ==
    ASSUME NEW c \in Clients, tx'[c] = Idle
    PROVE  ReadInv(c)' /\ WrittenInv(c)' /\ Locks(c)' = {}
BY DEF ReadInv, WrittenInv, Locks, Idle

(* A request that ends releases its locks and leaves the others alone.     *)
LEMMA GoesIdle ==
    ASSUME ReceivingInv, NEW c \in Clients, Goes(c, Idle)
    PROVE  /\ tx'[c] = Idle
           /\ \A d \in Clients \ {c} : tx'[d] = tx[d]
           /\ tx' = [d \in Clients |-> tx'[d]]
           /\ LocksInv'
<1>1. tx' = [d \in Clients |-> IF d = c THEN Idle ELSE tx[d]]
  BY OneClientGoes DEF ReceivingInv
<1>2. /\ tx'[c] = Idle
      /\ \A d \in Clients \ {c} : tx'[d] = tx[d]
      /\ tx' = [d \in Clients |-> tx'[d]]
  BY <1>1
<1>3. LocksInv'
  BY <1>2 DEF LocksInv, Locks, Idle, ReceivingInv
<1>. QED
  BY <1>2, <1>3

(* A step that does not touch the order's lines lets them grow, by         *)
(* nothing.                                                                *)
LEMMA LinesStay ==
    ASSUME ReceivingInv, UNCHANGED <<received, rejected, lowered, ordered>>
    PROVE  Grown
BY DEF Grown, ReceivingInv, TypesInv, OrderInv, WithinOrdered, Amounts

(* The status of the order is all that a cancellation or a deletion writes. *)
LEMMA CancelDeleteStep ==
    ASSUME ReceivingInv, NEW c \in Clients, CommitCancel(c) \/ CommitDelete(c)
    PROVE  ReceivingInv'
<1>1. /\ Goes(c, Idle)
      /\ received' = received /\ rejected' = rejected /\ lowered' = lowered /\ task' = task
      /\ inbound' = inbound /\ whole' = whole /\ spoilt' = spoilt
      /\ ordered' = ordered /\ articles' = articles /\ edits' = edits
      /\ \/ order' = [order EXCEPT !.status = "cancelled"]
         \/ order' = [order EXCEPT !.deleted = TRUE]
  BY DEF CommitCancel, CommitDelete, lineVars, taskVars, otherVars
<1>2. /\ tx'[c] = Idle /\ LocksInv'
      /\ \A d \in Clients \ {c} : tx'[d] = tx[d]
      /\ tx' = [d \in Clients |-> tx'[d]]
  BY <1>1, GoesIdle
<1>3. TypesInv'
  BY <1>1, <1>2 DEF ReceivingInv, TypesInv, OrderStatuses, TaskRow, KnownItems, Item
<1>4. InboundInv' /\ \A t \in Tasks : TaskInv(t)'
  BY <1>1 DEF ReceivingInv, InboundInv, TaskInv, Exists
<1>5. order'.status \in {"cancelled", order.status}
  BY <1>1 DEF ReceivingInv, TypesInv
<1>6. OrderInv'
  BY <1>1, <1>5 DEF ReceivingInv, OrderInv, WithinOrdered, Linked, AllIn, In, Ordered, SoleTask
<1>7. ASSUME NEW d \in Clients PROVE ReadInv(d)' /\ WrittenInv(d)'
  <2>1. CASE d = c
    BY <2>1, <1>2, IdleStands
  <2>2. CASE d # c
    <3>1. ReadInv(d)'
      BY <1>1, <1>2, <2>2 DEF ReceivingInv, ReadInv, Exists
    <3>2. Grown /\ Linked \subseteq Linked'
      BY <1>1, LinesStay DEF Linked
    <3>3. WrittenInv(d)'
      BY <1>1, <1>2, <2>2, <3>2, OthersStand
    <3>. QED
      BY <3>1, <3>3
  <2>. QED
    BY <2>1, <2>2
<1>. QED
  BY <1>2, <1>3, <1>4, <1>6, <1>7 DEF ReceivingInv

-----------------------------------------------------------------------------
(* Tasks made and edited.  A task that is made gets a row nobody had read  *)
(* or locked, an edited one a row nobody has locked.                       *)

LEMMA FreshIsKnown ==
    ASSUME ReceivingAssumption, NEW q \in [Skus -> Amounts]
    PROVE  Fresh(q) \in KnownItems /\ \A s \in Skus : ~Done(Fresh(q)[s])
BY DEF Fresh, FreshItem, KnownItems, Item, Optional, Amounts, Done

(* So do the items a client sends, once their lines are opened.            *)
LEMMA OpenedIsKnown ==
    ASSUME ReceivingAssumption, NEW items \in Sent
    PROVE  Opened(items) \in KnownItems /\ \A s \in Skus : ~Done(Opened(items)[s])
<1>1. items \in [Skus -> Item]
  OBVIOUS
<1>2. ASSUME NEW s \in Skus
      PROVE  Opened(items)[s] \in Item /\ Opened(items)[s].status \in {"none", "open"}
  BY <1>1 DEF Opened, Lines, Item
<1>. QED
  BY <1>2 DEF Opened, KnownItems, Done

(* A step that gives one task a new row, and leaves the lines of the order *)
(* and the places of all but at most one idle client as they were.         *)
LEMMA RowChanges ==
    ASSUME ReceivingInv, NEW t \in Tasks, NEW row \in TaskRow,
           task' = [task EXCEPT ![t] = row], row.status # "none",
           row.linked \/ ~task[t].linked,
           UNCHANGED <<received, rejected, lowered, ordered>>,
           LocksInv',
           \A u \in Tasks \ {t} : /\ whole'[u] = whole[u]
                                  /\ u \in spoilt <=> u \in spoilt',
           \A c \in Clients :
              \/ tx'[c] = Idle
              \/ tx'[c] = tx[c] /\ (tx[c].at = "written" => t # tx[c].task)
    PROVE  /\ task' \in [Tasks -> TaskRow]
           /\ \A c \in Clients : ReadInv(c)' /\ WrittenInv(c)'
<1>1. task \in [Tasks -> TaskRow]
  BY DEF ReceivingInv, TypesInv
<1>2. task' \in [Tasks -> TaskRow] /\ task'[t] = row /\ \A u \in Tasks \ {t} : task'[u] = task[u]
  BY <1>1
<1>3. Grown
  BY LinesStay
<1>4. Linked \subseteq Linked'
  BY <1>2 DEF Linked
<1>5. ASSUME NEW c \in Clients PROVE ReadInv(c)' /\ WrittenInv(c)'
  <2>1. CASE tx'[c] = Idle
    BY <2>1, IdleStands
  <2>2. CASE tx'[c] = tx[c] /\ (tx[c].at = "written" => t # tx[c].task)
    <3>1. ReadInv(c)'
      BY <1>2, <2>2 DEF ReceivingInv, ReadInv, Exists
    <3>2. ASSUME tx[c].at = "written"
          PROVE  /\ task'[tx[c].task] = task[tx[c].task]
                 /\ tx[c].task \notin spoilt' =>
                       tx[c].task \notin spoilt /\ whole'[tx[c].task] = whole[tx[c].task]
      BY <1>2, <2>2, <3>2 DEF ReceivingInv, WrittenInv, WroteTask
    <3>3. WrittenInv(c)'
      BY <1>3, <1>4, <2>2, <3>2, OthersStand
    <3>. QED
      BY <3>1, <3>3
  <2>. QED
    BY <2>1, <2>2
<1>. QED
  BY <1>2, <1>5

(* The number of a task is taken by no other.                              *)
LEMMA NumberStaysUnique ==
    ASSUME ReceivingInv, NEW t \in Tasks, NEW row \in TaskRow,
           task' = [task EXCEPT ![t] = row],
           row.inbound # task[t].inbound => InboundFree(row.inbound)
    PROVE  InboundInv'
<1>1. \A u \in Tasks : task'[u] = IF u = t THEN row ELSE task[u]
  BY DEF ReceivingInv, TypesInv
<1>. QED
  BY <1>1 DEF ReceivingInv, InboundInv, InboundFree

(* A task there is none of is not locked and has no stock.                 *)
LEMMA NoTaskIsFree ==
    ASSUME ReceivingInv, NEW t \in Tasks, task[t] = NoTask
    PROVE  /\ \A c \in Clients : tx[c].at = "written" => t # tx[c].task
           /\ ~task[t].linked
           /\ t \notin spoilt => inbound[t] = [s \in Skus |-> 0] /\ whole[t] = {}
<1>1. \A c \in Clients : tx[c].at = "written" => t # tx[c].task
  <2>1. ~Exists(t)
    BY DEF Exists, NoTask
  <2>. QED
    BY <2>1 DEF ReceivingInv, WrittenInv, WroteTask
<1>2. ASSUME t \notin spoilt PROVE inbound[t] = [s \in Skus |-> 0] /\ whole[t] = {}
  <2>1. \A s \in Skus : inbound[t][s] = 0 /\ s \notin whole[t]
    BY <1>2 DEF ReceivingInv, TaskInv, NoTask, Fresh, FreshItem, Booked, Done
  <2>. QED
    BY <2>1 DEF ReceivingInv, TypesInv
<1>. QED
  BY <1>1, <1>2 DEF NoTask

(* Submitting takes a task nothing refers to and links the order to it.    *)
LEMMA CommitSubmitStep ==
    ASSUME ReceivingInv, NEW c \in Clients, NEW t \in Tasks, CommitSubmit(c, t)
    PROVE  ReceivingInv'
<1>. DEFINE row == [status |-> "open", linked |-> TRUE, inbound |-> "order", items |-> Fresh(ordered)]
<1>1. /\ task[t] = NoTask /\ InboundFree("order") /\ Goes(c, Idle)
      /\ task' = [task EXCEPT ![t] = row]
      /\ order' = [order EXCEPT !.status = "submitted"]
      /\ received' = received /\ rejected' = rejected /\ lowered' = lowered /\ ordered' = ordered
      /\ inbound' = inbound /\ whole' = whole /\ spoilt' = spoilt /\ articles' = articles /\ edits' = edits
  BY DEF CommitSubmit, lineVars, otherVars
<1>2. TypesInv /\ OrderInv
  BY DEF ReceivingInv
<1>3. Fresh(ordered) \in KnownItems /\ \A s \in Skus : ~Done(Fresh(ordered)[s])
  BY <1>2, FreshIsKnown, ReceivingAssumption DEF TypesInv
<1>4. row \in TaskRow
  BY <1>3 DEF TaskRow, Statuses
<1>5. /\ tx'[c] = Idle /\ LocksInv'
      /\ \A d \in Clients \ {c} : tx'[d] = tx[d]
      /\ tx' = [d \in Clients |-> tx'[d]]
  BY <1>1, GoesIdle
<1>6. /\ \A d \in Clients : tx[d].at = "written" => t # tx[d].task
      /\ ~task[t].linked
      /\ t \notin spoilt => inbound[t] = [s \in Skus |-> 0] /\ whole[t] = {}
  BY <1>1, NoTaskIsFree
<1>7. task' \in [Tasks -> TaskRow] /\ \A d \in Clients : ReadInv(d)' /\ WrittenInv(d)'
  <2>1. \A d \in Clients : \/ tx'[d] = Idle
                           \/ tx'[d] = tx[d] /\ (tx[d].at = "written" => t # tx[d].task)
    BY <1>5, <1>6
  <2>2. row.status # "none" /\ row.linked
    OBVIOUS
  <2>. QED
    BY <1>1, <1>4, <1>5, <2>1, <2>2, RowChanges
<1>8. TypesInv'
  BY <1>1, <1>2, <1>5, <1>7 DEF TypesInv, OrderStatuses
<1>9. InboundInv'
  BY <1>1, <1>4, NumberStaysUnique
<1>10. \A u \in Tasks : task'[u] = IF u = t THEN row ELSE task[u]
  BY <1>1, <1>2 DEF TypesInv
<1>11. ASSUME NEW u \in Tasks PROVE TaskInv(u)'
  <2>1. CASE u = t
    <3>. DEFINE lines == Fresh(ordered)
    <3>1. row.items = lines /\ row.status # "none"
      OBVIOUS
    <3>. HIDE DEF row, lines
    <3>2. task'[u] = row /\ (task'[u]).status # "none"
      BY <1>10, <2>1, <3>1
    <3>3. Exists(u)'
      BY <3>2 DEF Exists
    <3>4. ASSUME u \notin spoilt', NEW s \in Skus
          PROVE  /\ inbound'[u][s] = 0 /\ s \notin whole'[u]
                 /\ Booked(task'[u].items, whole'[u], s) = 0
      <4>1. inbound'[u] = [k \in Skus |-> 0] /\ whole'[u] = {}
        BY <1>1, <1>6, <2>1, <3>4
      <4>2. lines[s].status \notin {"completed", "partial"}
        BY <1>3 DEF lines, Done
      <4>3. Booked(lines, whole'[u], s) = 0
        BY <4>2 DEF Booked
      <4>. QED
        BY <3>1, <3>2, <4>1, <4>3
    <3>. QED
      BY <3>3, <3>4 DEF TaskInv
  <2>2. CASE u # t
    BY <1>1, <1>10, <2>2 DEF ReceivingInv, TaskInv, Exists
  <2>. QED
    BY <2>1, <2>2
<1>12. OrderInv'
  <2>1. order'.status = "submitted"
    BY <1>1, <1>2 DEF TypesInv
  <2>2. t \in Linked' /\ Linked \subseteq Tasks /\ Linked' = Linked \cup {t} /\ t \notin Linked
    BY <1>6, <1>10 DEF Linked
  <2>3. SoleTask' => Linked = {}
    BY <2>2 DEF SoleTask
  <2>4. Linked = {} => ~(AllIn /\ Ordered # {})
    <3>1. ordered \in [Skus -> Nat]
      BY <1>2 DEF TypesInv, Amounts
    <3>. QED
      BY <1>2, <3>1 DEF OrderInv, AllIn, In, Ordered
  <2>5. AllIn' = AllIn /\ Ordered' = Ordered /\ WithinOrdered' = WithinOrdered
    BY <1>1 DEF AllIn, In, Ordered, WithinOrdered
  <2>. QED
    BY <1>1, <1>2, <2>1, <2>2, <2>3, <2>4, <2>5 DEF OrderInv
<1>. QED
  BY <1>5, <1>7, <1>8, <1>9, <1>11, <1>12 DEF ReceivingInv

(* What a step leaves to show that touches neither the order nor its       *)
(* lines, nor anybody's place.                                             *)
LEMMA OrderInvStays ==
    ASSUME ReceivingInv, UNCHANGED <<order, received, rejected, lowered, ordered>>, Linked' = Linked
    PROVE  OrderInv'
BY DEF ReceivingInv, OrderInv, WithinOrdered, AllIn, In, Ordered, SoleTask

(* A receiving task made by hand takes a task nothing refers to.           *)
LEMMA CreateStep ==
    ASSUME ReceivingInv, NEW t \in Tasks, NEW items \in Sent,
           NEW number \in {"order", "other"}, CreateReceivingTask(t, items, number)
    PROVE  ReceivingInv'
<1>. DEFINE row == [status |-> "open", linked |-> FALSE, inbound |-> number, items |-> Opened(items)]
<1>1. /\ task[t] = NoTask /\ InboundFree(number)
      /\ task' = [task EXCEPT ![t] = row]
      /\ order' = order /\ tx' = tx
      /\ received' = received /\ rejected' = rejected /\ lowered' = lowered /\ ordered' = ordered
      /\ inbound' = inbound /\ whole' = whole /\ spoilt' = spoilt /\ articles' = articles /\ edits' = edits
  BY DEF CreateReceivingTask, lineVars, otherVars
<1>2. TypesInv
  BY DEF ReceivingInv
<1>3. Opened(items) \in KnownItems /\ \A s \in Skus : ~Done(Opened(items)[s])
  BY OpenedIsKnown, ReceivingAssumption
<1>4. row \in TaskRow
  BY <1>3 DEF TaskRow, Statuses
<1>5. LocksInv'
  BY <1>1 DEF ReceivingInv, LocksInv, Locks
<1>6. /\ \A d \in Clients : tx[d].at = "written" => t # tx[d].task
      /\ ~task[t].linked
      /\ t \notin spoilt => inbound[t] = [s \in Skus |-> 0] /\ whole[t] = {}
  BY <1>1, NoTaskIsFree
<1>7. task' \in [Tasks -> TaskRow] /\ \A d \in Clients : ReadInv(d)' /\ WrittenInv(d)'
  <2>1. \A d \in Clients : \/ tx'[d] = Idle
                           \/ tx'[d] = tx[d] /\ (tx[d].at = "written" => t # tx[d].task)
    BY <1>1, <1>6
  <2>2. row.status # "none" /\ (row.linked \/ ~task[t].linked)
    BY <1>6
  <2>. QED
    BY <1>1, <1>4, <1>5, <2>1, <2>2, RowChanges
<1>8. TypesInv'
  BY <1>1, <1>2, <1>7 DEF TypesInv
<1>9. InboundInv'
  BY <1>1, <1>4, NumberStaysUnique
<1>10. \A u \in Tasks : task'[u] = IF u = t THEN row ELSE task[u]
  BY <1>1, <1>2 DEF TypesInv
<1>11. ASSUME NEW u \in Tasks PROVE TaskInv(u)'
  <2>1. CASE u = t
    <3>. DEFINE lines == Opened(items)
    <3>1. row.items = lines /\ row.status # "none"
      OBVIOUS
    <3>. HIDE DEF row, lines
    <3>2. task'[u] = row /\ (task'[u]).status # "none"
      BY <1>10, <2>1, <3>1
    <3>3. Exists(u)'
      BY <3>2 DEF Exists
    <3>4. ASSUME u \notin spoilt', NEW s \in Skus
          PROVE  /\ inbound'[u][s] = 0 /\ s \notin whole'[u]
                 /\ Booked(task'[u].items, whole'[u], s) = 0
      <4>1. inbound'[u] = [k \in Skus |-> 0] /\ whole'[u] = {}
        BY <1>1, <1>6, <2>1, <3>4
      <4>2. lines[s].status \notin {"completed", "partial"}
        BY <1>3 DEF lines, Done
      <4>3. Booked(lines, whole'[u], s) = 0
        BY <4>2 DEF Booked
      <4>. QED
        BY <3>1, <3>2, <4>1, <4>3
    <3>. QED
      BY <3>3, <3>4 DEF TaskInv
  <2>2. CASE u # t
    BY <1>1, <1>10, <2>2 DEF ReceivingInv, TaskInv, Exists
  <2>. QED
    BY <2>1, <2>2
<1>12. OrderInv'
  <2>1. Linked' = Linked
    BY <1>6, <1>10 DEF Linked
  <2>. QED
    BY <1>1, <2>1, OrderInvStays
<1>. QED
  BY <1>5, <1>7, <1>8, <1>9, <1>11, <1>12 DEF ReceivingInv

(* An update writes the row of a task that no completion has locked.       *)
LEMMA UpdateStep ==
    ASSUME ReceivingInv, NEW t \in Tasks, NEW new \in TaskRow, UpdateReceivingTask(t, new),
           new.status # "none"
    PROVE  ReceivingInv'
<1>1. /\ task[t] # NoTask /\ \A c \in Clients : t \notin Locks(c)
      /\ edits' \in {edits, edits + 1} /\ edits' <= MaxEdits
      /\ new.linked = task[t].linked
      /\ new.inbound # task[t].inbound => InboundFree(new.inbound)
      /\ task' = [task EXCEPT ![t] = new]
      /\ spoilt' = IF new.items = task[t].items THEN spoilt ELSE spoilt \cup {t}
      /\ inbound' = [inbound EXCEPT ![t] = IF t \in spoilt' THEN [s \in Skus |-> 0] ELSE @]
      /\ whole' = [whole EXCEPT ![t] = IF t \in spoilt' THEN {} ELSE @]
      /\ order' = order /\ tx' = tx
      /\ received' = received /\ rejected' = rejected /\ lowered' = lowered
      /\ ordered' = ordered /\ articles' = articles
  BY DEF UpdateReceivingTask, lineVars
<1>2. TypesInv
  BY DEF ReceivingInv
<1>3. LocksInv'
  BY <1>1 DEF ReceivingInv, LocksInv, Locks
<1>4. task' \in [Tasks -> TaskRow] /\ \A d \in Clients : ReadInv(d)' /\ WrittenInv(d)'
  <2>1. \A d \in Clients : tx[d].at = "written" => t # tx[d].task
    BY <1>1 DEF ReceivingInv, WrittenInv, WroteTask, Locks
  <2>2. new.linked \/ ~task[t].linked
    BY <1>1
  <2>3. \A u \in Tasks \ {t} : whole'[u] = whole[u] /\ (u \in spoilt <=> u \in spoilt')
    BY <1>1, <1>2 DEF TypesInv
  <2>. QED
    BY <1>1, <1>3, <2>1, <2>2, <2>3, RowChanges
<1>5. inbound' \in [Tasks -> [Skus -> -MaxInbound .. MaxInbound]]
  <2>1. [s \in Skus |-> 0] \in [Skus -> -MaxInbound .. MaxInbound]
    BY ReceivingAssumption
  <2>. QED
    BY <1>1, <1>2, <2>1 DEF TypesInv
<1>6. TypesInv'
  <2>1. edits' \in 0 .. MaxEdits
    BY <1>1, <1>2, ReceivingAssumption DEF TypesInv
  <2>2. spoilt' \subseteq Tasks /\ whole' \in [Tasks -> SUBSET Skus]
    BY <1>1, <1>2 DEF TypesInv
  <2>. QED
    BY <1>1, <1>2, <1>4, <1>5, <2>1, <2>2 DEF TypesInv
<1>7. InboundInv'
  BY <1>1, NumberStaysUnique
<1>8. \A u \in Tasks : task'[u] = IF u = t THEN new ELSE task[u]
  BY <1>1, <1>2 DEF TypesInv
<1>9. ASSUME NEW u \in Tasks PROVE TaskInv(u)'
  <2>1. u # t => inbound'[u] = inbound[u] /\ whole'[u] = whole[u]
    BY <1>1, <1>2 DEF TypesInv
  <2>2. CASE u # t
    BY <1>1, <1>8, <2>1, <2>2 DEF ReceivingInv, TaskInv, Exists
  <2>3. CASE u = t
    <3>1. Exists(t)'
      BY <1>8 DEF Exists
    <3>2. ASSUME t \notin spoilt'
          PROVE  /\ inbound'[t] = inbound[t] /\ whole'[t] = whole[t]
                 /\ new.items = task[t].items /\ t \notin spoilt
      BY <1>1, <1>2, <3>2 DEF TypesInv
    <3>. QED
      BY <1>8, <2>3, <3>1, <3>2 DEF ReceivingInv, TaskInv
  <2>. QED
    BY <2>2, <2>3
<1>10. OrderInv'
  <2>1. Linked' = Linked
    BY <1>1, <1>8 DEF Linked
  <2>. QED
    BY <1>1, <2>1, OrderInvStays
<1>. QED
  BY <1>3, <1>4, <1>6, <1>7, <1>9, <1>10 DEF ReceivingInv

(* Every form of UpdateReceivingTask keeps the invariant.                  *)
LEMMA EditTaskStep ==
    ASSUME ReceivingInv, NEW t \in Tasks, EditTask(t)
    PROVE  ReceivingInv'
<1>1. task[t] \in TaskRow
  BY DEF ReceivingInv, TypesInv
<1>2. task[t] # NoTask => task[t].status # "none"
  BY DEF ReceivingInv, TaskInv, Exists
<1>3. task[t] # NoTask
  BY DEF EditTask, UpdateReceivingTask
<1>4. ASSUME NEW status \in EditStatuses,
             UpdateReceivingTask(t, [task[t] EXCEPT !.status = status])
      PROVE  ReceivingInv'
  <2>. DEFINE new == [task[t] EXCEPT !.status = status]
  <2>1. status \in Statuses
    BY ReceivingAssumption
  <2>2. new \in TaskRow /\ new.status # "none" /\ new.items = task[t].items
    BY <1>1, <2>1 DEF TaskRow, Statuses, Terminal
  <2>. QED
    BY <1>4, <2>2, UpdateStep
<1>5. ASSUME NEW number \in {"order", "other"},
             UpdateReceivingTask(t, [task[t] EXCEPT !.inbound = number])
      PROVE  ReceivingInv'
  <2>. DEFINE new == [task[t] EXCEPT !.inbound = number]
  <2>1. new \in TaskRow /\ new.status # "none" /\ new.items = task[t].items
    BY <1>1, <1>2, <1>3 DEF TaskRow
  <2>. QED
    BY <1>5, <2>1, UpdateStep
<1>6. ASSUME NEW items \in Sent, UpdateReceivingTask(t, [task[t] EXCEPT !.items = items])
      PROVE  ReceivingInv'
  <2>. DEFINE new == [task[t] EXCEPT !.items = items]
  <2>1. items \in KnownItems
    BY ReceivingAssumption DEF KnownItems
  <2>2. new \in TaskRow /\ new.status # "none"
    BY <1>1, <1>2, <1>3, <2>1 DEF TaskRow
  <2>. QED
    BY <1>6, <2>2, UpdateStep
<1>. QED
  BY <1>4, <1>5, <1>6 DEF EditTask

(* So does whatever is done to a task by hand.                             *)
LEMMA ByHandStep ==
    ASSUME ReceivingInv, NEW t \in Tasks, ByHand(t)
    PROVE  ReceivingInv'
BY EditTaskStep, CreateStep DEF ByHand, ImportReceivingTaskFromExcel

(* The deletion of an article changes no line, task or stock.              *)
LEMMA DeleteArticleStep ==
    ASSUME ReceivingInv, NEW s \in Skus, DeleteArticle(s)
    PROVE  ReceivingInv'
<1>1. /\ order' = order /\ tx' = tx /\ task' = task
      /\ inbound' = inbound /\ whole' = whole /\ spoilt' = spoilt
      /\ received' = received /\ rejected' = rejected /\ lowered' = lowered /\ ordered' = ordered
      /\ articles' = articles \ {s} /\ edits' = edits + 1 /\ edits < MaxEdits
  BY DEF DeleteArticle, lineVars, taskVars
<1>2. TypesInv'
  <2>1. edits' \in 0 .. MaxEdits
    BY <1>1, ReceivingAssumption DEF ReceivingInv, TypesInv
  <2>. QED
    BY <1>1, <2>1 DEF ReceivingInv, TypesInv, TaskRow, KnownItems, Item
<1>3. LocksInv' /\ InboundInv'
  BY <1>1 DEF ReceivingInv, LocksInv, Locks, InboundInv
<1>4. OrderInv'
  BY <1>1, OrderInvStays DEF Linked
<1>5. \A t \in Tasks : TaskInv(t)'
  BY <1>1 DEF ReceivingInv, TaskInv, Exists
<1>6. ASSUME NEW c \in Clients PROVE ReadInv(c)' /\ WrittenInv(c)'
  <2>1. ReadInv(c)'
    BY <1>1 DEF ReceivingInv, ReadInv, Exists
  <2>2. Grown /\ Linked \subseteq Linked'
    BY <1>1, LinesStay DEF Linked
  <2>3. WrittenInv(c)'
    BY <1>1, <2>2, OthersStand
  <2>. QED
    BY <2>1, <2>3
<1>. QED
  BY <1>2, <1>3, <1>4, <1>5, <1>6 DEF ReceivingInv

-----------------------------------------------------------------------------
(* The completions.                                                        *)

(* The lines stay within what was ordered.                                 *)
LEMMA LinesAreWithin ==
    ASSUME ReceivingInv, NEW s \in Skus
    PROVE  /\ received[s] \in Int /\ rejected[s] \in Int /\ ordered[s] \in Nat
           /\ received[s] <= ordered[s] /\ received[s] + rejected[s] <= ordered[s]
BY DEF ReceivingInv, TypesInv, OrderInv, WithinOrdered, Amounts

(* What a completion makes of a line never exceeds what was ordered of it, *)
(* whatever is reported, and is no less than it was unless the report is   *)
(* negative.                                                               *)
LEMMA LineGrows ==
    ASSUME ReceivingInv, NEW s \in Skus, NEW item,
           Counted(item) \in Int, OrZero(item.rejected) \in Int
    PROVE  /\ NewReceived(s, item) \in Int /\ NewRejected(s, item) \in Int
           /\ ~Takes(item) =>
                 /\ received[s] <= NewReceived(s, item)
                 /\ received[s] + rejected[s] <= NewReceived(s, item) + NewRejected(s, item)
           /\ NewReceived(s, item) <= ordered[s]
           /\ NewReceived(s, item) + NewRejected(s, item) <= ordered[s]
<1>. DEFINE r == received[s]
            j == rejected[s]
            e == ordered[s]
            a == Counted(item)
            m == OrZero(item.rejected)
            r2 == Least(r + a, e)
            j2 == Least(j + m, e - r2)
<1>1. r \in Int /\ j \in Int /\ e \in Nat /\ a \in Int /\ m \in Int /\ r <= e /\ r + j <= e
  BY LinesAreWithin
<1>2. NewReceived(s, item) = r2 /\ NewRejected(s, item) = j2 /\ (~Takes(item) => a >= 0 /\ m >= 0)
  BY <1>1 DEF NewReceived, NewRejected, Takes
<1>. HIDE DEF r, j, e, a, m
<1>3. r2 \in Int /\ r2 <= e /\ (a >= 0 => r <= r2)
  BY <1>1 DEF Least
<1>4. j2 \in Int /\ r2 + j2 <= e
  BY <1>1, <1>3 DEF Least
<1>5. a >= 0 /\ m >= 0 => r + j <= r2 + j2
  BY <1>1 DEF Least
<1>. HIDE DEF r2, j2
<1>. QED
  BY <1>2, <1>3, <1>4, <1>5 DEF r, j, e

(* The verdict of a transaction that sees these lines.                     *)
LEMMA VerdictTells ==
    ASSUME NEW rec, NEW rej,
           \A s \in Ordered : /\ rec[s] \in Int /\ rej[s] \in Int /\ ordered[s] \in Nat
                              /\ rec[s] + rej[s] <= ordered[s]
    PROVE  /\ Verdict(rec, rej) \in {"none", "partial", "completed"}
           /\ Verdict(rec, rej) = "completed" <=> \A s \in Ordered : rec[s] + rej[s] = ordered[s]
           /\ Verdict(rec, rej) = "partial" => \E s \in Ordered : rec[s] + rej[s] = ordered[s]
<1>1. \A s \in Ordered : ordered[s] <= rec[s] + rej[s] <=> rec[s] + rej[s] = ordered[s]
  OBVIOUS
<1>. QED
  BY <1>1 DEF Verdict

(* The common step of both completions: the request holds its locks, has   *)
(* stock and task to commit, and what it will commit agrees with what it   *)
(* counted.                                                                *)
LEMMA WriteStep ==
    ASSUME ReceivingInv, NEW c \in Clients, tx[c].at = "read",
           NEW new, NEW counted, NEW come, NEW lost \in BOOLEAN,
           Write(c, new, counted, come, lost),
           new.items \in KnownItems, new.status \in Statuses \cup {"as is"},
           DOMAIN counted \subseteq Skus,
           \A s \in DOMAIN counted :
              Counted(counted[s]) \in Int /\ OrZero(counted[s].rejected) \in Int,
           come \in [Skus -> Int], new.whole \subseteq Skus,
           ~lost /\ tx[c].task \notin spoilt /\ tx[c].read.items = task[tx[c].task].items
              => Accounts(tx[c].task, new, come)
    PROVE  ReceivingInv'
<1>. DEFINE t    == tx[c].task
            rows == Updated(counted, task[t].linked)
            rec  == [s \in Skus |-> IF s \in rows THEN NewReceived(s, counted[s]) ELSE received[s]]
            rej  == [s \in Skus |-> IF s \in rows THEN NewRejected(s, counted[s]) ELSE rejected[s]]
            verdict == IF task[t].linked THEN Verdict(rec, rej) ELSE "none"
            missed == lost \/ tx[c].read.items # task[t].items
            takes == {s \in rows : Takes(counted[s])}
            step == [at |-> "written", task |-> t, locks |-> {t} \cup rows,
                     new |-> new, come |-> come, received |-> [s \in rows |-> rec[s]],
                     rejected |-> [s \in rows |-> rej[s]], takes |-> takes, verdict |-> verdict, lost |-> missed]
<1>1. /\ \A row \in {t} \cup rows : Free(c, row)
      /\ Goes(c, step)
      /\ UNCHANGED <<order, lineVars, taskVars, otherVars>>
  BY Zenon DEF Write
<1>2. /\ tx'[c].at = "written" /\ tx'[c].task = t /\ tx'[c].locks = {t} \cup rows
      /\ tx'[c].new = new /\ tx'[c].come = come
      /\ tx'[c].received = [s \in rows |-> rec[s]] /\ tx'[c].rejected = [s \in rows |-> rej[s]]
      /\ tx'[c].verdict = verdict /\ tx'[c].lost = missed /\ tx'[c].takes = takes
  <2>. DEFINE locks == {t} \cup rows
              wrec  == [s \in rows |-> rec[s]]
              wrej  == [s \in rows |-> rej[s]]
  <2>1. Goes(c, [at |-> "written", task |-> t, locks |-> locks, new |-> new, come |-> come,
                 received |-> wrec, rejected |-> wrej, takes |-> takes, verdict |-> verdict,
                 lost |-> missed])
    BY <1>1
  <2>. HIDE DEF t, locks, wrec, wrej, verdict, missed, takes
  <2>2. /\ tx'[c].at = "written" /\ tx'[c].task = t /\ tx'[c].locks = locks
        /\ tx'[c].new = new /\ tx'[c].come = come
        /\ tx'[c].received = wrec /\ tx'[c].rejected = wrej
        /\ tx'[c].verdict = verdict /\ tx'[c].lost = missed /\ tx'[c].takes = takes
    BY <2>1 DEF Goes, ReceivingInv, TypesInv
  <2>. QED
    BY <2>2 DEF locks, wrec, wrej
<1>3. /\ task' = task /\ ordered' = ordered /\ received' = received /\ rejected' = rejected
      /\ whole' = whole /\ spoilt' = spoilt /\ lowered' = lowered
  BY <1>1 DEF lineVars, taskVars, otherVars
<1>4. t \in Tasks /\ Exists(t)
  BY DEF ReceivingInv, ReadInv
<1>5. rows \subseteq Skus /\ rows \subseteq Ordered /\ rows \subseteq DOMAIN counted
  BY DEF Updated, Ordered
<1>6. ~task[t].linked => rows = {}
  BY DEF Updated
<1>7. \A s \in Skus : received[s] \in Int /\ rejected[s] \in Int /\ ordered[s] \in Nat
                      /\ received[s] + rejected[s] <= ordered[s]
  BY LinesAreWithin
<1>8. \A s \in rows : /\ NewReceived(s, counted[s]) \in Int /\ NewRejected(s, counted[s]) \in Int
                      /\ s \notin takes =>
                            /\ received[s] <= NewReceived(s, counted[s])
                            /\ received[s] + rejected[s]
                                  <= NewReceived(s, counted[s]) + NewRejected(s, counted[s])
                      /\ NewReceived(s, counted[s]) <= ordered[s]
                      /\ NewReceived(s, counted[s]) + NewRejected(s, counted[s]) <= ordered[s]
  BY <1>5, LineGrows
<1>9. \A s \in Skus : rec[s] \in Int /\ rej[s] \in Int /\ rec[s] + rej[s] <= ordered[s]
  BY <1>7, <1>8
<1>. HIDE DEF rows, takes
<1>10. WroteTask(c)'
  <2>1. tx'[c].locks = {tx'[c].task} \cup DOMAIN tx'[c].received
    BY <1>2
  <2>2. ASSUME ~tx'[c].lost, t \notin spoilt PROVE Accounts(t, new, come)
    <3>1. ~lost /\ tx[c].read.items = task[t].items
      BY <1>2, <2>2
    <3>. QED
      BY <2>2, <3>1
  <2>. HIDE DEF missed, verdict
  <2>. QED
    BY <1>2, <1>3, <1>4, <2>1, <2>2 DEF WroteTask, Exists, Accounts
<1>11. WroteLines(c)'
  <2>1. \A s \in rows : rec[s] = NewReceived(s, counted[s]) /\ rej[s] = NewRejected(s, counted[s])
    BY <1>5
  <2>2. ~task[t].linked => verdict = "none"
    OBVIOUS
  <2>. HIDE DEF rec, rej, verdict, missed
  <2>3. takes \subseteq Skus
    BY <1>5 DEF takes
  <2>. QED
    BY <1>2, <1>3, <1>5, <1>6, <1>8, <2>1, <2>2, <2>3 DEF WroteLines
<1>12. Judged(c)'
  <2>1. \A s \in Skus : ReceivedAfter(c, s)' = rec[s] /\ RejectedAfter(c, s)' = rej[s]
    <3>1. \A s \in Skus \ rows : rec[s] = received[s] /\ rej[s] = rejected[s]
      OBVIOUS
    <3>. HIDE DEF rec, rej, verdict, missed
    <3>. QED
      BY <1>2, <1>3, <1>5, <3>1 DEF ReceivedAfter, RejectedAfter
  <2>2. verdict = IF task[t].linked THEN Verdict(rec, rej) ELSE "none"
    OBVIOUS
  <2>. HIDE DEF rec, rej, verdict, missed
  <2>3. /\ Verdict(rec, rej) \in {"none", "partial", "completed"}
        /\ Verdict(rec, rej) = "completed" <=> \A s \in Ordered : rec[s] + rej[s] = ordered[s]
        /\ Verdict(rec, rej) = "partial" => \E s \in Ordered : rec[s] + rej[s] = ordered[s]
    BY <1>7, <1>9, VerdictTells DEF Ordered
  <2>4. Ordered' = Ordered /\ \A s \in Ordered : Settled(c, s)' <=> rec[s] + rej[s] = ordered[s]
    BY <1>3, <2>1 DEF Settled, Ordered
  <2>5. CASE task[t].linked
    BY <1>2, <1>3, <2>2, <2>3, <2>4, <2>5 DEF Judged
  <2>6. CASE ~task[t].linked
    BY <1>2, <1>3, <2>2, <2>6 DEF Judged
  <2>. QED
    BY <2>5, <2>6
<1>. HIDE DEF rec, rej, verdict, missed
<1>13. WrittenInv(c)' /\ ReadInv(c)'
  BY <1>2, <1>10, <1>11, <1>12 DEF WrittenInv, ReadInv
<1>14. \A d \in Clients \ {c} : Locks(c)' \cap Locks(d) = {}
  BY <1>1, <1>2 DEF Free, Locks
<1>. HIDE DEF step
<1>. QED
  BY <1>1, <1>13, <1>14, OnlyTxChanges

(* What an item counts is a number, whatever has been reported of it.      *)
LEMMA ItemCounts ==
    ASSUME ReceivingAssumption, NEW item \in Item
    PROVE  /\ Counted(item) \in Int /\ OrZero(item.rejected) \in Int /\ item.expected \in Int
BY DEF Item, Optional, Counted, OrZero

(* A client's line counts, as it is received, for what it says.            *)
LEMMA RequestCounts ==
    ASSUME ReceivingAssumption, NEW asked \in Requests, NEW s \in DOMAIN asked
    PROVE  /\ s \in Skus /\ asked[s] \in Request
           /\ Backfilled(asked[s]) \in Request
           /\ Counted(Backfilled(asked[s])) \in Int
           /\ OrZero(Backfilled(asked[s]).rejected) \in Nat
<1>1. s \in Skus /\ asked[s] \in Request
  <2>1. PICK k \in Skus : asked \in [{k} -> Request]
    BY DEF ReceivingAssumption
  <2>. QED
    BY <2>1
<1>2. Backfilled(asked[s]) \in Request
  BY <1>1, ReceivingAssumption DEF Backfilled, Request, Optional, OrZero
<1>. QED
  BY <1>1, <1>2, ReceivingAssumption DEF Request, Optional, Counted, OrZero

(* The line it makes of an open one: what is booked is what was accepted.  *)
LEMMA ReceivedIsKnown ==
    ASSUME ReceivingAssumption, NEW item \in Item, NEW request \in Request
    PROVE  /\ Received(item, request) \in Item
           /\ Received(item, request).accepted \in Nat
           /\ Done(Received(item, request))
           /\ Counted(Received(item, request)) = Received(item, request).accepted
<1>1. request.expected \in Nat /\ request.accepted \in Nat \cup {Absent}
      /\ OrZero(request.rejected) \in Nat /\ Absent \notin Int
  BY ReceivingAssumption DEF Request, Optional, OrZero
<1>2. Received(item, request).accepted \in Nat
  BY <1>1 DEF Received
<1>3. Received(item, request).status \in {"partial", "completed"}
  BY DEF Received
<1>4. Received(item, request).received \in Nat
  BY <1>1 DEF Received
<1>5. Received(item, request) \in Item
  BY <1>1, <1>2, <1>3, <1>4 DEF Received, Item, Optional
<1>6. Received(item, request).accepted # Absent
  BY <1>1, <1>2
<1>. QED
  BY <1>2, <1>3, <1>5, <1>6 DEF Booked, Counted, Done

(* Completing one line counts the items of that line only.                 *)
LEMMA CompleteReceivingLineStep ==
    ASSUME ReceivingInv, NEW c \in Clients, CompleteReceivingLine(c)
    PROVE  ReceivingInv'
<1>1. tx[c].at = "read" /\ tx[c].read.items \in KnownItems
      /\ tx[c].read.status \in Statuses \cup {"none"}
  BY DEF CompleteReceivingLine, ReceivingInv, ReadInv
<1>2. PICK s \in articles \cap DOMAIN tx[c].request :
        LET read    == tx[c].read
            request == Backfilled(tx[c].request[s])
            items   == [read.items EXCEPT ![s] = Received(@, request)]
            closing == Closing(AcceptedDiffers(items))
        IN  /\ LineOpen(read.items[s])
            /\ Write(c,
                 [items |-> items, whole |-> {},
                  status |-> IF Processed(items) /\ isValidReceivingTransition(read.status, closing)
                             THEN closing ELSE "as is"],
                 [k \in {s} |-> request],
                 [k \in Skus |-> IF k = s THEN items[s].accepted ELSE 0], FALSE)
  BY DEF CompleteReceivingLine
<1>. DEFINE read    == tx[c].read
            request == Backfilled(tx[c].request[s])
            items   == [read.items EXCEPT ![s] = Received(@, request)]
            closing == Closing(AcceptedDiffers(items))
            status  == IF Processed(items) /\ isValidReceivingTransition(read.status, closing)
                       THEN closing ELSE "as is"
            new     == [items |-> items, whole |-> {}, status |-> status]
            counted == [k \in {s} |-> request]
            come    == [k \in Skus |-> IF k = s THEN items[s].accepted ELSE 0]
<1>3. LineOpen(read.items[s]) /\ Write(c, new, counted, come, FALSE)
  BY <1>2
<1>4. tx[c].request \in Requests
  <2>1. tx[c].request = Everything \/ tx[c].request \in Requests
    BY <1>1 DEF ReceivingInv, ReadInv
  <2>2. DOMAIN Everything = {}
    BY DEF Everything
  <2>. QED
    BY <2>1, <2>2
<1>5. s \in Skus /\ request \in Request /\ Counted(request) \in Int /\ OrZero(request.rejected) \in Nat
  BY <1>4, RequestCounts, ReceivingAssumption
<1>6. read.items[s] \in Item /\ \A k \in Skus : read.items[k] \in Item
  BY <1>1, <1>5 DEF KnownItems
<1>7. items[s] = Received(read.items[s], request) /\ \A k \in Skus \ {s} : items[k] = read.items[k]
  BY <1>1, <1>5 DEF KnownItems
<1>8. /\ items[s] \in Item /\ items[s].accepted \in Nat
      /\ Done(items[s]) /\ Counted(items[s]) = items[s].accepted
  <2>. HIDE DEF items, request, read
  <2>1. /\ Received(read.items[s], request) \in Item
        /\ Received(read.items[s], request).accepted \in Nat
        /\ Done(Received(read.items[s], request))
        /\ Counted(Received(read.items[s], request)) = Received(read.items[s], request).accepted
    BY <1>5, <1>6, ReceivedIsKnown, ReceivingAssumption
  <2>. QED
    BY <1>7, <2>1
<1>9. items \in KnownItems
  BY <1>1, <1>5, <1>7, <1>8 DEF KnownItems
<1>10. status \in Statuses \cup {"as is"}
  BY DEF Closing, Statuses, Terminal
<1>11. come \in [Skus -> Int]
  BY <1>8
<1>12. ~Done(read.items[s])
  BY <1>3 DEF LineOpen, Done
<1>13. ASSUME tx[c].task \notin spoilt, read.items = task[tx[c].task].items
       PROVE  Accounts(tx[c].task, new, come)
  <2>. DEFINE t == tx[c].task
  <2>1. \A k \in Skus : Booked(read.items, whole[t], k) \in Int
    <3>1. ASSUME NEW k \in Skus PROVE Booked(read.items, whole[t], k) \in Int
      <4>1. read.items[k] \in Item
        BY <1>6
      <4>2. Counted(read.items[k]) \in Int /\ read.items[k].expected \in Int
        BY <4>1, ItemCounts, ReceivingAssumption
      <4>. QED
        BY <4>2 DEF Booked
    <3>. QED
      BY <3>1
  <2>2. \A k \in Skus \ {s} : come[k] = 0
    OBVIOUS
  <2>3. come[s] = items[s].accepted
    BY <1>5
  <2>4. t \in Tasks
    BY <1>1 DEF ReceivingInv, ReadInv
  <2>5. \A k \in Skus : k \in whole[t] => Done(read.items[k])
    BY <1>13, <2>4 DEF ReceivingInv, TaskInv
  <2>6. s \notin whole[t]
    BY <1>5, <1>12, <2>5
  <2>7. new.items = items /\ whole[t] \cup new.whole = whole[t]
    OBVIOUS
  <2>. HIDE DEF come, items, read, new, t
  <2>8. ASSUME NEW k \in Skus
        PROVE  /\ Booked(items, whole[t], k) = Booked(read.items, whole[t], k) + come[k]
               /\ k \in whole[t] => Done(items[k])
    <3>1. CASE k = s
      <4>1. Booked(items, whole[t], k) = items[s].accepted
        BY <1>8, <2>6, <3>1 DEF Booked, Done
      <4>2. Booked(read.items, whole[t], k) = 0
        BY <1>12, <2>6, <3>1 DEF Booked, Done
      <4>. QED
        BY <1>8, <2>3, <2>6, <3>1, <4>1, <4>2
    <3>2. CASE k # s
      BY <1>7, <2>1, <2>2, <2>5, <3>2 DEF Booked
    <3>. QED
      BY <3>1, <3>2
  <2>. QED
    BY <1>13, <2>7, <2>8 DEF Accounts, t
<1>14. DOMAIN counted = {s} /\ counted[s] = request
  OBVIOUS
<1>15. new.items = items /\ new.status = status /\ new.whole = {}
  OBVIOUS
<1>. HIDE DEF read, request, items, status, new, counted, come
<1>16. /\ new.items \in KnownItems /\ new.status \in Statuses \cup {"as is"}
       /\ new.whole \subseteq Skus
  BY <1>9, <1>10, <1>15
<1>17. /\ DOMAIN counted \subseteq Skus
       /\ \A k \in DOMAIN counted :
            Counted(counted[k]) \in Int /\ OrZero(counted[k].rejected) \in Int
  BY <1>5, <1>14
<1>18. ~FALSE /\ tx[c].task \notin spoilt /\ tx[c].read.items = task[tx[c].task].items
        => Accounts(tx[c].task, new, come)
  BY <1>13 DEF read
<1>. QED
  BY <1>1, <1>3, <1>11, <1>16, <1>17, <1>18, WriteStep

(* Completing everything books what was expected of the lines still open.  *)
LEMMA AllReceivedIsKnown ==
    ASSUME ReceivingAssumption, NEW items \in KnownItems
    PROVE  /\ AllReceived(items) \in KnownItems
           /\ \A s \in Skus \ Todo(items) : AllReceived(items)[s] = items[s]
           /\ \A s \in Todo(items) :
                 /\ Done(AllReceived(items)[s])
                 /\ AllReceived(items)[s].expected = items[s].expected
                 /\ items[s].expected \in Int /\ ~Done(items[s])
<1>1. \A s \in Skus : items[s] \in Item
  BY DEF KnownItems
<1>2. Todo(items) \subseteq Skus /\ \A s \in Todo(items) : ~Done(items[s])
  BY DEF Todo, Lines, LineOpen, Done
<1>3. ASSUME NEW s \in Todo(items)
      PROVE  /\ AllReceived(items)[s] \in Item /\ Done(AllReceived(items)[s])
             /\ AllReceived(items)[s].expected = items[s].expected
             /\ items[s].expected \in Int /\ ~Done(items[s])
  <2>1. s \in Skus /\ items[s] \in Item /\ ~Done(items[s])
    BY <1>1, <1>2
  <2>2. items[s].expected \in Int
    BY <2>1 DEF Item
  <2>3. AllReceived(items)[s] = [items[s] EXCEPT !.status = "completed", !.received = items[s].expected]
    BY <2>1 DEF AllReceived
  <2>4. /\ AllReceived(items)[s] \in Item
        /\ AllReceived(items)[s].status = "completed"
        /\ AllReceived(items)[s].expected = items[s].expected
    BY <2>1, <2>2, <2>3 DEF Item, Optional
  <2>. QED
    BY <2>1, <2>2, <2>4 DEF Done
<1>4. \A s \in Skus \ Todo(items) : AllReceived(items)[s] = items[s]
  BY DEF AllReceived
<1>5. AllReceived(items) = [s \in Skus |-> AllReceived(items)[s]]
  BY DEF AllReceived
<1>6. AllReceived(items) \in KnownItems
  <2>1. \A s \in Skus : AllReceived(items)[s] \in Item
    BY <1>1, <1>3, <1>4
  <2>. QED
    BY <1>5, <2>1 DEF KnownItems
<1>. QED
  BY <1>3, <1>4, <1>6

(* Completing the task counts every item not yet counted.                  *)
LEMMA CompleteFullTaskStep ==
    ASSUME ReceivingInv, NEW c \in Clients, CompleteFullTask(c)
    PROVE  ReceivingInv'
<1>. DEFINE read    == tx[c].read
            items   == AllReceived(read.items)
            todo    == Todo(read.items)
            new     == [items |-> items, whole |-> todo, status |-> FullStatus(items)]
            counted == [s \in Lines(items) |-> items[s]]
            come    == Come(items, todo \cap articles)
            lost    == ~(todo \subseteq articles)
<1>1. tx[c].at = "read" /\ Write(c, new, counted, come, lost)
  BY DEF CompleteFullTask, Full
<1>2. read.items \in KnownItems
  BY <1>1 DEF ReceivingInv, ReadInv
<1>3. /\ items \in KnownItems
      /\ \A s \in Skus \ todo : items[s] = read.items[s]
      /\ \A s \in todo : /\ Done(items[s]) /\ items[s].expected = read.items[s].expected
                         /\ read.items[s].expected \in Int /\ ~Done(read.items[s])
  BY <1>2, AllReceivedIsKnown, ReceivingAssumption
<1>4. \A s \in Skus : items[s] \in Item /\ items[s].expected \in Int
  BY <1>3 DEF KnownItems, Item
<1>5. todo \subseteq Skus /\ \A s \in todo : items[s].expected = read.items[s].expected
  BY <1>2 DEF Todo, Lines, AllReceived, KnownItems, Item
<1>6. come \in [Skus -> Int]
  BY <1>4 DEF Come
<1>7. DOMAIN counted \subseteq Skus /\ \A s \in DOMAIN counted :
         Counted(counted[s]) \in Int /\ OrZero(counted[s].rejected) \in Int
  BY <1>4, ItemCounts, ReceivingAssumption DEF Lines
<1>8. ASSUME ~lost, tx[c].task \notin spoilt, read.items = task[tx[c].task].items
      PROVE  Accounts(tx[c].task, new, come)
  <2>. DEFINE t == tx[c].task
  <2>1. todo \cap articles = todo
    BY <1>8
  <2>2. \A s \in Skus : come[s] = IF s \in todo THEN items[s].expected ELSE 0
    BY <2>1 DEF Come
  <2>3. \A s \in Skus : Booked(items, whole[t], s) \in Int
    <3>1. ASSUME NEW s \in Skus PROVE Booked(items, whole[t], s) \in Int
      <4>1. items[s] \in Item
        BY <1>4
      <4>2. Counted(items[s]) \in Int /\ items[s].expected \in Int
        BY <4>1, ItemCounts, ReceivingAssumption
      <4>. QED
        BY <4>2 DEF Booked
    <3>. QED
      BY <3>1
  <2>4. t \in Tasks
    BY <1>1 DEF ReceivingInv, ReadInv
  <2>5. \A s \in Skus : s \in whole[t] => Done(read.items[s])
    BY <1>8, <2>4 DEF ReceivingInv, TaskInv
  <2>6. new.items = items /\ new.whole = todo
    OBVIOUS
  <2>. HIDE DEF come, items, read, todo, new, t
  <2>7. ASSUME NEW s \in Skus
        PROVE  /\ Booked(items, whole[t] \cup todo, s)
                     = Booked(read.items, whole[t], s) + come[s]
               /\ s \in whole[t] \cup todo => Done(items[s])
    <3>1. CASE s \in todo
      <4>1. Booked(items, whole[t] \cup todo, s) = read.items[s].expected
        BY <1>3, <3>1 DEF Booked, Done
      <4>2. Booked(read.items, whole[t], s) = 0
        BY <1>3, <3>1 DEF Booked, Done
      <4>. QED
        BY <1>3, <1>5, <2>2, <3>1, <4>1, <4>2
    <3>2. CASE s \notin todo
      <4>1. s \in whole[t] \cup todo <=> s \in whole[t]
        BY <3>2
      <4>2. items[s] = read.items[s] /\ come[s] = 0
        BY <1>3, <2>2, <3>2
      <4>3. Booked(items, whole[t] \cup todo, s) = Booked(read.items, whole[t], s)
        BY <4>1, <4>2 DEF Booked
      <4>4. Booked(read.items, whole[t], s) \in Int
        BY <2>3, <4>2 DEF Booked
      <4>. QED
        BY <2>5, <4>1, <4>2, <4>3, <4>4
    <3>. QED
      BY <3>1, <3>2
  <2>. QED
    BY <1>8, <2>6, <2>7 DEF Accounts, t
<1>9. new.items = items /\ new.status \in Statuses /\ new.whole = todo
  BY DEF FullStatus, Closing, Statuses, Terminal
<1>10. lost \in BOOLEAN
  OBVIOUS
<1>. HIDE DEF items, todo, new, counted, come, lost
<1>. QED
  BY <1>1, <1>3, <1>5, <1>6, <1>7, <1>8, <1>9, <1>10, WriteStep DEF read

(* What is booked before an error loses the task's account, not its row.   *)
LEMMA FailFullTaskStep ==
    ASSUME ReceivingInv, NEW c \in Clients, FailFullTask(c)
    PROVE  ReceivingInv'
<1>. DEFINE t == tx[c].task
            items == tx[c].read.items
<1>1. PICK booked \in SUBSET (Todo(items) \cap articles) :
         /\ Fits(t, Come(items, booked)) /\ Spoils(t, TRUE) /\ Books(t, Come(items, booked))
         /\ whole' = [whole EXCEPT ![t] = {}]
  BY DEF FailFullTask
<1>2. /\ Goes(c, Idle) /\ order' = order /\ task' = task
      /\ received' = received /\ rejected' = rejected /\ lowered' = lowered
      /\ ordered' = ordered /\ articles' = articles /\ edits' = edits
  BY DEF FailFullTask, lineVars, otherVars
<1>3. t \in Tasks
  BY DEF FailFullTask, Full, ReceivingInv, ReadInv
<1>4. TypesInv
  BY DEF ReceivingInv
<1>5. spoilt' = spoilt \cup {t}
  BY <1>1 DEF Spoils
<1>6. inbound' = [inbound EXCEPT ![t] = [s \in Skus |-> 0]]
  BY <1>1, <1>5 DEF Books
<1>7. /\ inbound' \in [Tasks -> [Skus -> -MaxInbound .. MaxInbound]]
      /\ whole' \in [Tasks -> SUBSET Skus]
  <2>1. [s \in Skus |-> 0] \in [Skus -> -MaxInbound .. MaxInbound]
    BY ReceivingAssumption
  <2>. QED
    BY <1>1, <1>4, <1>6, <2>1 DEF TypesInv
<1>8. /\ tx'[c] = Idle /\ LocksInv'
      /\ \A d \in Clients \ {c} : tx'[d] = tx[d]
      /\ tx' = [d \in Clients |-> tx'[d]]
  BY <1>2, GoesIdle
<1>9. TypesInv'
  BY <1>2, <1>3, <1>4, <1>5, <1>7, <1>8 DEF TypesInv, TaskRow, KnownItems, Item
<1>10. InboundInv'
  BY <1>2 DEF ReceivingInv, InboundInv
<1>11. OrderInv'
  BY <1>2, OrderInvStays DEF Linked
<1>12. ASSUME NEW u \in Tasks PROVE TaskInv(u)'
  <2>1. CASE u = t
    BY <1>2, <1>5, <2>1 DEF ReceivingInv, TaskInv, Exists
  <2>2. CASE u # t
    <3>1. inbound'[u] = inbound[u] /\ whole'[u] = whole[u]
      BY <1>1, <1>4, <1>6, <2>2 DEF TypesInv
    <3>. QED
      BY <1>2, <1>5, <3>1 DEF ReceivingInv, TaskInv, Exists
  <2>. QED
    BY <2>1, <2>2
<1>13. ASSUME NEW d \in Clients PROVE ReadInv(d)' /\ WrittenInv(d)'
  <2>1. CASE d = c
    BY <1>8, <2>1, IdleStands
  <2>2. CASE d # c
    <3>1. ReadInv(d)'
      BY <1>2, <1>8, <2>2 DEF ReceivingInv, ReadInv, Exists
    <3>2. Grown /\ Linked \subseteq Linked'
      BY <1>2, LinesStay DEF Linked
    <3>3. ASSUME tx[d].at = "written", tx[d].task \notin spoilt'
          PROVE  tx[d].task \notin spoilt /\ whole'[tx[d].task] = whole[tx[d].task]
      <4>1. tx[d].task \in Tasks \ {t}
        BY <1>5, <3>3 DEF ReceivingInv, WrittenInv, WroteTask
      <4>. QED
        BY <1>1, <1>4, <1>5, <3>3, <4>1 DEF TypesInv
    <3>4. WrittenInv(d)'
      BY <1>2, <1>8, <2>2, <3>2, <3>3, OthersStand
    <3>. QED
      BY <3>1, <3>4
  <2>. QED
    BY <2>1, <2>2
<1>. QED
  BY <1>8, <1>9, <1>10, <1>11, <1>12, <1>13 DEF ReceivingInv

(* A commit leaves behind what its transaction wrote.                      *)
LEMMA CommitStep ==
    ASSUME ReceivingInv, NEW c \in Clients, Commit(c)
    PROVE  ReceivingInv'
<1>. DEFINE t == tx[c].task
            new == tx[c].new
            come == tx[c].come
<1>1. tx[c].at = "written" /\ Goes(c, Idle) /\ Fits(t, come)
      /\ Spoils(t, tx[c].lost) /\ Books(t, come)
      /\ whole' = [whole EXCEPT ![t] = IF t \in spoilt' THEN {} ELSE @ \cup new.whole]
  BY DEF Commit
<1>2. /\ task' = [task EXCEPT ![t].items = new.items,
                              ![t].status = IF new.status = "as is" THEN @ ELSE new.status]
      /\ received' = [s \in Skus |-> ReceivedAfter(c, s)]
      /\ rejected' = [s \in Skus |-> RejectedAfter(c, s)]
      /\ lowered' = lowered \cup tx[c].takes
      /\ order' = [order EXCEPT !.status = Advanced(@, tx[c].verdict)]
      /\ ordered' = ordered /\ articles' = articles /\ edits' = edits
  BY DEF Commit, otherVars, ReceivedAfter, RejectedAfter
<1>3. TypesInv /\ OrderInv
  BY DEF ReceivingInv
<1>4. WroteTask(c) /\ WroteLines(c) /\ Judged(c)
  BY <1>1 DEF ReceivingInv, WrittenInv
<1>5. t \in Tasks /\ Exists(t) /\ task[t] \in TaskRow
      /\ new.items \in KnownItems /\ new.status \in Statuses \cup {"as is"} /\ come \in [Skus -> Int]
      /\ new.whole \subseteq Skus
  BY <1>3, <1>4 DEF WroteTask, TypesInv
<1>6. /\ tx'[c] = Idle /\ LocksInv'
      /\ \A d \in Clients \ {c} : tx'[d] = tx[d]
      /\ tx' = [d \in Clients |-> tx'[d]]
  BY <1>1, GoesIdle
(* The task.                                                               *)
<1>7. /\ \A u \in Tasks \ {t} : task'[u] = task[u]
      /\ task'[t].items = new.items /\ task'[t].status \in Statuses
      /\ task'[t].linked = task[t].linked /\ task'[t].inbound = task[t].inbound
      /\ task' \in [Tasks -> TaskRow]
  <2>. DEFINE status == IF new.status = "as is" THEN task[t].status ELSE new.status
              row == [task[t] EXCEPT !.items = new.items, !.status = status]
  <2>1. status \in Statuses
    BY <1>5 DEF Exists, TaskRow
  <2>2. task' = [task EXCEPT ![t] = row]
    BY <1>2, <1>3, <1>5 DEF TypesInv, TaskRow
  <2>. HIDE DEF status
  <2>3. /\ row \in TaskRow /\ row.items = new.items /\ row.status = status
        /\ row.linked = task[t].linked /\ row.inbound = task[t].inbound
    BY <1>5, <2>1 DEF TaskRow
  <2>. HIDE DEF row
  <2>. QED
    BY <1>3, <1>5, <2>1, <2>2, <2>3 DEF TypesInv
<1>8. Linked' = Linked
  BY <1>7, <1>5 DEF Linked
<1>9. \A u \in Tasks : Exists(u) => Exists(u)'
  BY <1>7 DEF Exists, Statuses, Terminal
(* What came in.                                                           *)
<1>10. spoilt' \subseteq Tasks /\ spoilt \subseteq spoilt' /\ spoilt' \subseteq spoilt \cup {t}
       /\ (t \notin spoilt' => ~tx[c].lost)
  BY <1>1, <1>3, <1>5 DEF Spoils, TypesInv
<1>11. inbound' = [inbound EXCEPT ![t] = [s \in Skus |-> IF t \in spoilt' THEN 0 ELSE inbound[t][s] + come[s]]]
  BY <1>1 DEF Books
<1>12. /\ inbound' \in [Tasks -> [Skus -> -MaxInbound .. MaxInbound]]
       /\ whole' \in [Tasks -> SUBSET Skus]
  <2>1. \A s \in Skus : inbound[t][s] + come[s] \in -MaxInbound .. MaxInbound
    BY <1>1 DEF Fits
  <2>2. 0 \in -MaxInbound .. MaxInbound
    BY ReceivingAssumption
  <2>3. [s \in Skus |-> IF t \in spoilt' THEN 0 ELSE inbound[t][s] + come[s]]
          \in [Skus -> -MaxInbound .. MaxInbound]
    BY <2>1, <2>2
  <2>4. inbound' \in [Tasks -> [Skus -> -MaxInbound .. MaxInbound]]
    BY <1>3, <1>11, <2>3 DEF TypesInv
  <2>5. whole[t] \cup new.whole \subseteq Skus
    BY <1>3, <1>5 DEF TypesInv
  <2>6. whole' \in [Tasks -> SUBSET Skus]
    BY <1>1, <1>3, <2>5 DEF TypesInv
  <2>. QED
    BY <2>4, <2>6
<1>13. ASSUME NEW u \in Tasks PROVE TaskInv(u)'
  <2>1. CASE u # t
    <3>1. inbound'[u] = inbound[u] /\ whole'[u] = whole[u]
      BY <1>1, <1>3, <1>11, <2>1 DEF TypesInv
    <3>. QED
      BY <1>7, <1>10, <2>1, <3>1 DEF ReceivingInv, TaskInv, Exists
  <2>2. CASE u = t
    <3>1. Exists(u)'
      BY <1>5, <1>9, <2>2
    <3>2. ASSUME t \notin spoilt', NEW s \in Skus
          PROVE  /\ inbound'[t][s] = Booked(new.items, whole'[t], s)
                 /\ s \in whole'[t] => Done(new.items[s])
      <4>1. inbound'[t][s] = inbound[t][s] + come[s]
        BY <1>3, <1>5, <1>11, <3>2 DEF TypesInv
      <4>2. inbound[t][s] = Booked(task[t].items, whole[t], s)
        BY <1>5, <1>10, <3>2 DEF ReceivingInv, TaskInv
      <4>3. whole'[t] = whole[t] \cup new.whole
        BY <1>1, <1>3, <1>5, <3>2 DEF TypesInv
      <4>4. Accounts(t, new, come)
        BY <1>4, <1>10, <3>2 DEF WroteTask
      <4>5. /\ Booked(new.items, whole[t] \cup new.whole, s)
                  = Booked(task[t].items, whole[t], s) + come[s]
            /\ s \in whole[t] \cup new.whole => Done(new.items[s])
        BY <4>4 DEF Accounts
      <4>. QED
        BY <4>1, <4>2, <4>3, <4>5
    <3>3. task'[u].items = new.items
      BY <1>7, <2>2
    <3>. QED
      BY <2>2, <3>1, <3>2, <3>3 DEF TaskInv
  <2>. QED
    BY <2>1, <2>2
(* The lines.                                                              *)
<1>14. ASSUME NEW s \in Skus
       PROVE  /\ received'[s] = ReceivedAfter(c, s) /\ rejected'[s] = RejectedAfter(c, s)
              /\ received'[s] \in Int /\ rejected'[s] \in Int
              /\ s \notin lowered' =>
                    /\ received[s] <= received'[s]
                    /\ received[s] + rejected[s] <= received'[s] + rejected'[s]
              /\ received'[s] <= ordered[s]
              /\ received'[s] + rejected'[s] <= ordered[s]
  <2>1. /\ received[s] \in Int /\ rejected[s] \in Int /\ ordered[s] \in Nat
        /\ received[s] <= ordered[s] /\ received[s] + rejected[s] <= ordered[s]
    BY LinesAreWithin
  <2>2. received'[s] = ReceivedAfter(c, s) /\ rejected'[s] = RejectedAfter(c, s)
    BY <1>2
  <2>3. CASE s \in DOMAIN tx[c].received
    BY <1>2, <1>4, <2>2, <2>3 DEF WroteLines, ReceivedAfter, RejectedAfter
  <2>4. CASE s \notin DOMAIN tx[c].received
    BY <2>1, <2>2, <2>4 DEF ReceivedAfter, RejectedAfter
  <2>. QED
    BY <2>2, <2>3, <2>4
<1>15. received' \in [Skus -> Int] /\ rejected' \in [Skus -> Int]
  <2>1. /\ received' = [s \in Skus |-> received'[s]]
        /\ rejected' = [s \in Skus |-> rejected'[s]]
    BY <1>2
  <2>. QED
    BY <1>14, <2>1
<1>16. Grown
  BY <1>2, <1>14, <1>15 DEF Grown, WithinOrdered
<1>17. ~task[t].linked => received' = received /\ rejected' = rejected /\ tx[c].verdict = "none"
  <2>. SUFFICES ASSUME ~task[t].linked
                PROVE  received' = received /\ rejected' = rejected /\ tx[c].verdict = "none"
    OBVIOUS
  <2>1. DOMAIN tx[c].received = {} /\ tx[c].verdict = "none"
    BY <1>4 DEF WroteLines
  <2>2. \A s \in Skus : received'[s] = received[s] /\ rejected'[s] = rejected[s]
    BY <1>14, <2>1 DEF ReceivedAfter, RejectedAfter
  <2>. QED
    BY <1>3, <1>15, <2>1, <2>2 DEF TypesInv
(* The order.                                                              *)
<1>18. Ordered' = Ordered /\ Ordered \subseteq Skus
       /\ \A s \in Ordered : Settled(c, s) <=> received'[s] + rejected'[s] = ordered[s]
  BY <1>2, <1>14 DEF Ordered, Settled
<1>19. /\ \A s \in Skus \ lowered' : In(s) => In(s)'
       /\ lowered \subseteq lowered' /\ lowered' \subseteq Skus
  <2>1. ASSUME NEW s \in Skus \ lowered', In(s)
        PROVE  In(s)'
    <3>1. /\ received[s] + rejected[s] = ordered[s] /\ ordered'[s] = ordered[s]
          /\ received[s] + rejected[s] <= received'[s] + rejected'[s]
          /\ received'[s] + rejected'[s] <= ordered[s]
      BY <1>2, <1>14, <2>1 DEF In
    <3>2. received'[s] + rejected'[s] \in Int /\ ordered[s] \in Nat
      BY <1>14, LinesAreWithin
    <3>3. received'[s] + rejected'[s] = ordered[s]
      BY <3>1, <3>2
    <3>. QED
      BY <3>1, <3>3 DEF In
  <2>2. lowered \subseteq lowered' /\ lowered' \subseteq Skus
    BY <1>2, <1>3, <1>4 DEF TypesInv, WroteLines
  <2>. QED
    BY <2>1, <2>2
<1>20. order'.status = Advanced(order.status, tx[c].verdict) /\ order' \in [status : OrderStatuses, deleted : BOOLEAN]
  <2>1. Advanced(order.status, tx[c].verdict) \in OrderStatuses
    BY <1>3, <1>4 DEF TypesInv, Judged, Advanced, OrderStatuses
  <2>. QED
    BY <1>2, <1>3, <2>1 DEF TypesInv
<1>21. OrderInv'
  <2>1. ASSUME order'.status = "completed", NEW s \in Ordered \ lowered' PROVE In(s)'
    <3>1. CASE order.status = "completed"
      BY <1>3, <1>18, <1>19, <3>1 DEF OrderInv
    <3>2. CASE order.status # "completed"
      <4>1. tx[c].verdict = "completed"
        BY <1>20, <2>1, <3>2 DEF Advanced
      <4>. QED
        BY <1>2, <1>4, <1>18, <1>19, <4>1 DEF Judged, In
    <3>. QED
      BY <3>1, <3>2
  <2>2. ASSUME order'.status = "partial"
        PROVE  \E s \in Ordered : In(s)' \/ s \in lowered'
    <3>1. CASE order.status = "partial"
      <4>1. PICK s \in Ordered : In(s) \/ s \in lowered
        BY <1>3, <3>1 DEF OrderInv
      <4>2. In(s)' \/ s \in lowered'
        BY <1>18, <1>19, <4>1
      <4>. QED
        BY <4>2
    <3>2. CASE order.status # "partial"
      <4>1. tx[c].verdict = "partial"
        BY <1>20, <2>2, <3>2 DEF Advanced
      <4>. QED
        BY <1>2, <1>4, <1>18, <1>19, <4>1 DEF Judged, In
    <3>. QED
      BY <3>1, <3>2
  <2>3. ASSUME AllIn', Ordered # {}, SoleTask
        PROVE  order'.status \in {"completed", "cancelled"}
    <3>1. CASE task[t].linked
      <4>1. \A s \in Ordered : Settled(c, s)
        BY <1>2, <1>18, <2>3 DEF AllIn, In
      <4>2. tx[c].verdict = "completed"
        BY <1>4, <2>3, <3>1, <4>1 DEF Judged
      <4>. QED
        BY <1>20, <4>2 DEF Advanced
    <3>2. CASE ~task[t].linked
      <4>1. AllIn
        BY <1>2, <1>17, <1>18, <2>3, <3>2 DEF AllIn, In
      <4>2. order'.status = order.status
        BY <1>17, <1>20, <3>2 DEF Advanced
      <4>. QED
        BY <1>3, <2>3, <4>1, <4>2 DEF OrderInv
    <3>. QED
      BY <3>1, <3>2
  <2>4. ASSUME Linked = {}, NEW s \in Skus PROVE received'[s] + rejected'[s] = 0
    <3>1. ~task[t].linked
      BY <1>5, <2>4 DEF Linked
    <3>. QED
      BY <1>3, <1>17, <2>4, <3>1 DEF OrderInv
  <2>5. SoleTask' = SoleTask
    BY <1>8 DEF SoleTask
  <2>6. WithinOrdered'
    BY <1>16 DEF Grown
  <2>7. \A s \in Skus : received'[s] <= ordered'[s]
    BY <1>2, <1>14
  <2>. QED
    BY <1>2, <1>8, <1>18, <2>7, <2>1, <2>2, <2>3, <2>4, <2>5, <2>6 DEF OrderInv
<1>22. TypesInv'
  BY <1>2, <1>3, <1>6, <1>7, <1>10, <1>12, <1>15, <1>19, <1>20 DEF TypesInv
<1>23. InboundInv'
  <2>1. \A u \in Tasks : task'[u].inbound = task[u].inbound
    BY <1>7
  <2>. QED
    BY <2>1 DEF ReceivingInv, InboundInv
(* The others.                                                             *)
<1>24. ASSUME NEW d \in Clients PROVE ReadInv(d)' /\ WrittenInv(d)'
  <2>1. CASE d = c
    BY <1>6, <2>1, IdleStands
  <2>2. CASE d # c
    <3>1. tx'[d] = tx[d]
      BY <1>6, <2>2
    <3>2. ReadInv(d)'
      BY <1>9, <3>1 DEF ReceivingInv, ReadInv
    <3>3. ASSUME tx[d].at = "written"
          PROVE  /\ t # tx[d].task /\ tx[d].task \in Tasks
                 /\ tx[d].task \notin DOMAIN tx[c].received
                 /\ DOMAIN tx[d].received \cap DOMAIN tx[c].received = {}
                 /\ DOMAIN tx[d].received \subseteq Skus
      <4>1. WroteTask(d) /\ WroteLines(d)
        BY <3>3 DEF ReceivingInv, WrittenInv
      <4>2. tx[c].locks \cap tx[d].locks = {}
        BY <1>1, <2>2, <3>3 DEF ReceivingInv, LocksInv, Locks
      <4>. QED
        BY <1>4, <4>1, <4>2 DEF WroteTask, WroteLines
    <3>4. ASSUME tx[d].at = "written"
          PROVE  /\ task'[tx[d].task] = task[tx[d].task]
                 /\ tx[d].task \notin spoilt' =>
                       tx[d].task \notin spoilt /\ whole'[tx[d].task] = whole[tx[d].task]
                 /\ \A s \in DOMAIN tx[d].received : /\ received'[s] = received[s]
                                                     /\ rejected'[s] = rejected[s]
      <4>1. task'[tx[d].task] = task[tx[d].task]
        BY <1>7, <3>3, <3>4
      <4>2. \A s \in DOMAIN tx[d].received : received'[s] = received[s] /\ rejected'[s] = rejected[s]
        BY <1>14, <3>3, <3>4 DEF ReceivedAfter, RejectedAfter
      <4>3. tx[d].task \notin spoilt' =>
                tx[d].task \notin spoilt /\ whole'[tx[d].task] = whole[tx[d].task]
        BY <1>1, <1>3, <1>10, <3>3, <3>4 DEF TypesInv
      <4>. QED
        BY <4>1, <4>2, <4>3
    <3>5. ASSUME tx[d].at = "written", SoleTask, task[tx[d].task].linked
          PROVE  received' = received /\ rejected' = rejected
      <4>1. ~task[t].linked
        BY <1>5, <3>3, <3>5 DEF SoleTask, Linked
      <4>. QED
        BY <1>17, <4>1
    <3>6. WrittenInv(d)'
      BY <1>2, <1>8, <1>16, <3>1, <3>4, <3>5, OthersStand
    <3>. QED
      BY <3>2, <3>6
  <2>. QED
    BY <2>1, <2>2
<1>. QED
  BY <1>6, <1>13, <1>21, <1>22, <1>23, <1>24 DEF ReceivingInv

-----------------------------------------------------------------------------
(* The invariant only speaks of the module's variables.                    *)
LEMMA StutterStep == ReceivingInv /\ UNCHANGED vars => ReceivingInv'
<1>. SUFFICES ASSUME ReceivingInv, UNCHANGED vars PROVE ReceivingInv'
  OBVIOUS
<1>1. /\ order' = order /\ tx' = tx /\ task' = task
      /\ inbound' = inbound /\ whole' = whole /\ spoilt' = spoilt
      /\ received' = received /\ rejected' = rejected /\ lowered' = lowered
      /\ ordered' = ordered /\ articles' = articles /\ edits' = edits
  BY DEF vars, lineVars, taskVars, otherVars
<1>2. TypesInv'
  BY <1>1 DEF ReceivingInv, TypesInv, TaskRow, KnownItems, Item
<1>3. LocksInv' /\ InboundInv'
  BY <1>1 DEF ReceivingInv, LocksInv, Locks, InboundInv
<1>4. OrderInv'
  BY <1>1, OrderInvStays DEF Linked
<1>5. \A t \in Tasks : TaskInv(t)'
  BY <1>1 DEF ReceivingInv, TaskInv, Exists
<1>6. ASSUME NEW c \in Clients PROVE ReadInv(c)' /\ WrittenInv(c)'
  <2>1. ReadInv(c)'
    BY <1>1 DEF ReceivingInv, ReadInv, Exists
  <2>2. Grown /\ Linked \subseteq Linked'
    BY <1>1, LinesStay DEF Linked
  <2>3. WrittenInv(c)'
    BY <1>1, <2>2, OthersStand
  <2>. QED
    BY <2>1, <2>3
<1>. QED
  BY <1>2, <1>3, <1>4, <1>5, <1>6 DEF ReceivingInv

(* Every step of every request keeps the invariant.                        *)
LEMMA NextReceivingInv == ReceivingInv /\ [Next]_vars => ReceivingInv'
<1>. SUFFICES ASSUME ReceivingInv, [Next]_vars PROVE ReceivingInv'
  OBVIOUS
<1>1. ASSUME NEW c \in Clients, Orders(c) PROVE ReceivingInv'
  BY <1>1, BeginOrderStep, CommitSubmitStep, CancelDeleteStep DEF Orders
<1>2. ASSUME NEW c \in Clients, Completes(c) PROVE ReceivingInv'
  BY <1>2, CompleteReceivingLineStep, CompleteFullTaskStep, FailFullTaskStep, CommitStep DEF Completes
<1>3. ASSUME NEW c \in Clients, Rollback(c) PROVE ReceivingInv'
  BY <1>3, RollbackStep
<1>4. ASSUME NEW c \in Clients, NEW t \in Tasks, BeginCompletion(c, t) PROVE ReceivingInv'
  BY <1>4, BeginStep
<1>5. ASSUME NEW t \in Tasks, ByHand(t) PROVE ReceivingInv'
  BY <1>5, ByHandStep
<1>6. ASSUME NEW s \in Skus, DeleteArticle(s) PROVE ReceivingInv'
  BY <1>6, DeleteArticleStep
<1>7. UNCHANGED vars => ReceivingInv'
  BY StutterStep
<1>. QED
  BY <1>1, <1>2, <1>3, <1>4, <1>5, <1>6, <1>7 DEF Next

(* Every reachable state satisfies the inductive invariant.                *)
THEOREM ReceivingInvariant == Spec => []ReceivingInv
<1>1. Init => ReceivingInv
  BY InitReceivingInv
<1>2. ReceivingInv /\ [Next]_vars => ReceivingInv'
  BY NextReceivingInv
<1>. QED
  BY <1>1, <1>2, PTL DEF Spec

(* Lines, tasks and movements stay in their ranges: what a receipt adds to *)
(* a line of the order is clamped to what was ordered.                     *)
THEOREM ReceivingTypes == Spec => []TypeOK
<1>1. ReceivingInv => TypeOK
  <2>. SUFFICES ASSUME ReceivingInv PROVE TypeOK
    OBVIOUS
  <2>1. TypesInv
    BY DEF ReceivingInv
  <2>2. \A s \in Skus : received[s] \in Int /\ received[s] <= MaxQuantity
    <3>1. \A s \in Skus : ordered[s] <= MaxQuantity
      BY <2>1 DEF TypesInv, Amounts
    <3>. QED
      BY <3>1, LinesAreWithin, ReceivingAssumption
  <2>3. received \in [Skus -> {n \in Int : n <= MaxQuantity}] /\ rejected \in [Skus -> Int]
    BY <2>1, <2>2 DEF TypesInv
  <2>5. task \in [Tasks -> [status : Statuses \cup {"none"}, linked : BOOLEAN,
                            inbound : {"none", "order", "other"}, items : [Skus -> Item]]]
    BY <2>1 DEF TypesInv, TaskRow, KnownItems
  <2>. QED
    BY <2>1, <2>3, <2>5 DEF TypesInv, TypeOK
<1>. QED
  BY <1>1, ReceivingInvariant, PTL

(* However many receipts repeat, overlap and count lines twice, and        *)
(* whatever numbers they bring, the order shows no more units received and *)
(* rejected than were ordered.                                             *)
THEOREM ReceiptsStayWithinOrdered == Spec => []WithinOrdered
<1>1. ReceivingInv => WithinOrdered
  BY DEF ReceivingInv, OrderInv
<1>. QED
  BY <1>1, ReceivingInvariant, PTL

(* What came in for a line is what it says was accepted, or expected if it *)
(* was received with the whole task, whatever a client made its items say  *)
(* beforehand: a commit books for the items it read only what it found     *)
(* them to be when it wrote them, or the account of the task is lost in    *)
(* one of the ways Spoils lists.                                           *)
THEOREM StockFollowsLines == Spec => []StockIsWhatLinesSay
<1>1. ReceivingInv => StockIsWhatLinesSay
  BY DEF ReceivingInv, TaskInv, StockIsWhatLinesSay
<1>. QED
  BY <1>1, ReceivingInvariant, PTL

(* The order has one task unless somebody renumbers one, it is completed   *)
(* only when all has come, and with one task also as soon as all has come: *)
(* receipts that overlap do not miss each other's lines.                   *)
THEOREM OrderIsToldByReceipts == Spec => []OrderFollowsReceipts
<1>1. ReceivingInv => OneTask
  <2>. SUFFICES ASSUME ReceivingInv, \A t \in Linked : task[t].inbound = "order"
                PROVE  Cardinality(Linked) <= 1
    BY DEF OneTask
  <2>1. \A t, u \in Linked : t = u
    BY DEF ReceivingInv, InboundInv, Linked
  <2>2. CASE Linked = {}
    BY <2>2, FS_EmptySet
  <2>3. CASE Linked # {}
    <3>1. PICK t : Linked = {t}
      BY <2>1, <2>3
    <3>. QED
      BY <3>1, FS_Singleton
  <2>. QED
    BY <2>2, <2>3
<1>2. Cardinality(Linked) <= 1 => SoleTask
  <2>. SUFFICES ASSUME Cardinality(Linked) <= 1, NEW t \in Linked, NEW u \in Linked, t # u
                PROVE  FALSE
    BY DEF SoleTask
  <2>1. IsFiniteSet(Linked)
    BY FS_Subset, ReceivingAssumption DEF Linked
  <2>2. Cardinality({t, u}) = 2
    <3>1. Cardinality({t}) = 1 /\ IsFiniteSet({t}) /\ u \notin {t}
      BY FS_Singleton
    <3>2. Cardinality({t} \cup {u}) = 2
      BY <3>1, FS_AddElement
    <3>3. {t} \cup {u} = {t, u}
      OBVIOUS
    <3>. QED
      BY <3>2, <3>3
  <2>3. {t, u} \subseteq Linked
    OBVIOUS
  <2>4. Cardinality({t, u}) <= Cardinality(Linked) /\ Cardinality(Linked) \in Nat
    BY <2>1, <2>3, FS_Subset, FS_CardinalityType
  <2>. QED
    BY <2>2, <2>4
<1>3. ReceivingInv => StatusTellsWhatCame
  BY <1>2 DEF ReceivingInv, OrderInv, StatusTellsWhatCame
<1>. QED
  BY <1>1, <1>3, ReceivingInvariant, PTL DEF OrderFollowsReceipts

(* No step takes anything off a line of the order, unless a negative       *)
(* quantity was counted for it.                                            *)
LEMMA LinesOnlyAdd ==
    ReceivingInv /\ [Next]_vars =>
        \A s \in Skus \ lowered' :
            /\ received'[s] >= received[s]
            /\ received'[s] + rejected'[s] >= received[s] + rejected[s]
<1>. DEFINE Adds == \A s \in Skus \ lowered' : /\ received'[s] >= received[s]
                                   /\ received'[s] + rejected'[s] >= received[s] + rejected[s]
<1>. SUFFICES ASSUME ReceivingInv, [Next]_vars PROVE Adds
  OBVIOUS
<1>1. CASE received' = received /\ rejected' = rejected
  BY <1>1, LinesAreWithin
<1>2. ASSUME NEW c \in Clients, Commit(c) PROVE Adds
  <2>. SUFFICES ASSUME NEW s \in Skus \ lowered'
                PROVE  /\ received'[s] >= received[s]
                       /\ received'[s] + rejected'[s] >= received[s] + rejected[s]
    OBVIOUS
  <2>1. received'[s] = ReceivedAfter(c, s) /\ rejected'[s] = RejectedAfter(c, s)
    BY <1>2 DEF Commit, ReceivedAfter, RejectedAfter
  <2>2. WroteLines(c)
    BY <1>2 DEF Commit, ReceivingInv, WrittenInv
  <2>3. received[s] \in Int /\ rejected[s] \in Int /\ s \notin tx[c].takes
    BY <1>2, LinesAreWithin DEF Commit
  <2>4. CASE s \in DOMAIN tx[c].received
    BY <2>1, <2>2, <2>3, <2>4 DEF WroteLines, ReceivedAfter, RejectedAfter
  <2>5. CASE s \notin DOMAIN tx[c].received
    BY <2>1, <2>3, <2>5 DEF ReceivedAfter, RejectedAfter
  <2>. QED
    BY <2>4, <2>5
<1>3. ASSUME NEW c \in Clients, Orders(c) PROVE Adds
  BY <1>1, <1>3 DEF Orders, BeginSubmit, BeginCancel, CommitCancel, BeginDelete, CommitDelete,
                    CommitSubmit, lineVars
<1>4. ASSUME NEW c \in Clients, CompleteReceivingLine(c) PROVE Adds
  BY <1>1, <1>4 DEF CompleteReceivingLine, Write, lineVars
<1>5. ASSUME NEW c \in Clients, CompleteFullTask(c) \/ FailFullTask(c) PROVE Adds
  BY <1>1, <1>5 DEF CompleteFullTask, FailFullTask, Write, lineVars
<1>6. ASSUME NEW c \in Clients, Rollback(c) PROVE Adds
  BY <1>1, <1>6 DEF Rollback, lineVars
<1>7. ASSUME NEW c \in Clients, NEW t \in Tasks, BeginCompletion(c, t) PROVE Adds
  BY <1>1, <1>7 DEF BeginCompletion, Begin, lineVars
<1>8. ASSUME NEW t \in Tasks, ByHand(t) PROVE Adds
  BY <1>1, <1>8 DEF ByHand, EditTask, UpdateReceivingTask, CreateReceivingTask,
                    ImportReceivingTaskFromExcel, lineVars
<1>9. ASSUME NEW s \in Skus, DeleteArticle(s) PROVE Adds
  BY <1>1, <1>9 DEF DeleteArticle, lineVars
<1>10. UNCHANGED vars => Adds
  BY <1>1 DEF vars, lineVars
<1>. QED
  BY <1>2, <1>3, <1>4, <1>5, <1>6, <1>7, <1>8, <1>9, <1>10 DEF Next, Completes

(* What the order has accounted for on a line is never lost again: no two  *)
(* receipts overwrite each other's lines.  Only a negative quantity that a *)
(* client sends takes from a line, and nothing but that.                   *)
THEOREM ReceiptsOnlyAdd == Spec => AccountedNeverShrinks
<1>1. ReceivingInv /\ [Next]_vars
      => [\A s \in Skus \ lowered' : /\ received'[s] >= received[s]
                                     /\ received'[s] + rejected'[s] >= received[s] + rejected[s]]_vars
  BY LinesOnlyAdd
<1>. QED
  BY <1>1, ReceivingInvariant, PTL DEF Spec, AccountedNeverShrinks

=============================================================================

-------------------------- MODULE PickingTasksProofs --------------------------
(***************************************************************************)
(* Proofs about PickingTasks, for every set of tasks, rows and articles,   *)
(* every initial stock and every set of quantities a client may ask for.   *)
(***************************************************************************)
EXTENDS PickingTasks, StockSumsProofs

-----------------------------------------------------------------------------
(* Types.                                                                  *)

LEMMA LinesAreQuantities ==
    \A a \in Lines : a \in [Rows -> Int]
<1>1. Quantities \cup {0} \subseteq Int
  BY RowsAssumption
<1>. QED
  BY <1>1 DEF Lines

LEMMA OrdinaryLinesAreNatural ==
    \A a \in OrdinaryLines : a \in [Rows -> Nat]
<1>. SUFFICES ASSUME NEW a \in OrdinaryLines PROVE a \in [Rows -> Nat]
  OBVIOUS
<1>1. a \in [Rows -> Int] /\ \A r \in Rows : a[r] >= 0
  BY LinesAreQuantities DEF OrdinaryLines
<1>2. a = [r \in Rows |-> a[r]] /\ \A r \in Rows : a[r] \in Nat
  BY <1>1
<1>. QED
  BY <1>2

LEMMA WithoutLegacyType ==
    ASSUME NEW a \in [Rows -> Int], NEW L
    PROVE  WithoutLegacy(a, L) \in [Rows -> Int]
BY DEF WithoutLegacy

(* The reservation helpers return counters: GREATEST(0, .) keeps what is   *)
(* released a natural number, the CHECK constraint what is reserved.       *)
LEMMA ReleaseType ==
    ASSUME NEW res \in [Rows -> Nat], NEW a \in [Rows -> Int]
    PROVE  releaseReservations(res, a) \in [Rows -> Nat]
BY DEF releaseReservations

LEMMA ReserveType ==
    ASSUME NEW res \in [Rows -> Nat], NEW a \in [Rows -> Int], NEW p, CanReserve(res, a, p)
    PROVE  applyReservations(res, a) \in [Rows -> Nat]
<1>1. ASSUME NEW r \in Rows PROVE res[r] + a[r] \in Nat
  <2>1. CASE a[r] = 0
    BY <2>1
  <2>2. CASE a[r] # 0
    <3>1. res[r] + a[r] >= 0
      BY <2>2 DEF CanReserve, Listed
    <3>. QED
      BY <3>1
  <2>. QED
    BY <2>1, <2>2
<1>. QED
  BY <1>1 DEF applyReservations

LEMMA TouchType ==
    ASSUME age \in [Tasks -> Ages], NEW t \in Tasks, Touch(t)
    PROVE  age' \in [Tasks -> Ages]
BY DEF Touch, Ages

LEMMA RereserveType ==
    ASSUME TypeOK, NEW t \in Tasks, NEW res \in [Rows -> Nat],
           NEW a \in [Rows -> Int], NEW p, NEW L, Rereserve(t, res, a, p, L)
    PROVE  reserved' \in [Rows -> Nat]
<1>. DEFINE free  == releaseReservations(res, alloc[t])
            typed == WithoutLegacy(a, L)
<1>1. free \in [Rows -> Nat] /\ typed \in [Rows -> Int]
  BY ReleaseType, WithoutLegacyType DEF TypeOK
<1>2. CASE status[t] = "in_progress"
  <2>1. CanReserve(free, typed, WithoutLegacy(p, L)) /\ reserved' = applyReservations(free, typed)
    BY <1>2 DEF Rereserve
  <2>. QED
    BY <1>1, <2>1, ReserveType
<1>3. CASE status[t] # "in_progress"
  BY <1>3 DEF Rereserve
<1>. QED
  BY <1>2, <1>3

LEMMA ReservedAfterCancelType ==
    ASSUME TypeOK, NEW t \in Tasks, NEW next
    PROVE  ReservedAfterCancel(t, next) \in [Rows -> Nat]
BY ReleaseType DEF ReservedAfterCancel, TypeOK

LEMMA ReplaceItemsType ==
    ASSUME TypeOK, NEW t \in Tasks, NEW a \in [Rows -> Int], NEW p \in [Rows -> Int],
           NEW L \in SUBSET Rows, ReplaceItems(t, a, p, L)
    PROVE  /\ alloc' \in [Tasks -> [Rows -> Int]]
           /\ picked' \in [Tasks -> [Rows -> Int]]
           /\ legacy' \in [Tasks -> SUBSET Rows]
           /\ done' \in [Tasks -> SUBSET Skus]
BY DEF ReplaceItems, TypeOK

LEMMA ShipAllocationsType ==
    ASSUME TypeOK, NEW t \in Tasks, NEW a \in [Rows -> Int], NEW p \in [Rows -> Int],
           ShipAllocations(t, a, p)
    PROVE  /\ quantity' \in [Rows -> Int]
           /\ reserved' \in [Rows -> Nat]
           /\ shipped' \in [Tasks -> [Rows -> Int]]
<1>1. quantity' \in [Rows -> Int]
  BY DEF ShipAllocations, TypeOK
<1>2. reserved' \in [Rows -> Nat]
  BY ReleaseType DEF ShipAllocations, TypeOK
<1>3. shipped' \in [Tasks -> [Rows -> Int]]
  <2>1. [r \in Rows |-> shipped[t][r] + p[r]] \in [Rows -> Int]
    BY DEF TypeOK
  <2>. QED
    BY <2>1 DEF ShipAllocations, TypeOK
<1>. QED
  BY <1>1, <1>2, <1>3

(* The cron job's SUMs are quantities.                                     *)
LEMMA StaleSums ==
    ASSUME TypeOK
    PROVE  [r \in Rows |-> NetOver(StaleInProgress, InAllocations, r)] \in [Rows -> Int]
<1>1. IsFiniteSet(StaleInProgress)
  BY RowsAssumption, FS_Subset DEF StaleInProgress, InProgress
<1>2. ASSUME NEW r \in Rows PROVE NetOver(StaleInProgress, InAllocations, r) \in Int
  <2>1. \A t \in StaleInProgress : InAllocations[t][r] \in Int
    BY DEF StaleInProgress, InProgress, InAllocations, WithoutLegacy, TypeOK
  <2>. QED
    BY <1>1, <2>1, NetType
<1>. QED
  BY <1>2

(* Every step is one of the handlers, with arguments of the right types.   *)
LEMMA NextIsAHandler ==
    ASSUME Next
    PROVE  \/ \E t \in Tasks, a \in [Rows -> Int] : CreatePickingTask(t, a)
           \/ \E t \in Tasks : StartPickingTask(t)
           \/ \E t \in Tasks, next \in Statuses : UpdateStatus(t, next)
           \/ \E t \in Tasks, a, p \in [Rows -> Int], L \in SUBSET Rows : UpdateItems(t, a, p, L)
           \/ \E t \in Tasks, next \in Statuses, a, p \in [Rows -> Int], L \in SUBSET Rows :
                UpdateStatusAndItems(t, next, a, p, L)
           \/ \E t \in Tasks : UpdateOtherFields(t)
           \/ \E t \in Tasks, s \in Skus, a, p \in [Rows -> Int] : CompletePickingLine(t, s, a, p)
           \/ \E t \in Tasks : CompletePickingTask(t)
           \/ \E t \in Tasks : CancelSalesOrder(t)
           \/ RunStaleReservationsCleanup
           \/ \E t \in Tasks : SevenDaysPass(t)
           \/ \E r \in Rows : LotExpires(r)
<1>1. OrdinaryStatuses \subseteq Statuses
  BY DEF OrdinaryStatuses, Statuses
<1>2. OrdinaryLines \subseteq Lines /\ Lines \subseteq [Rows -> Int]
  BY LinesAreQuantities DEF OrdinaryLines
<1>3. \A a : ReasonablePicks(a) \subseteq [Rows -> Int]
  BY <1>2 DEF ReasonablePicks
<1>4. \A a, p : LegacyRows(a, p) \subseteq SUBSET Rows
  BY DEF LegacyRows
<1>5. {} \in SUBSET Rows
  OBVIOUS
<1>6. CASE TaskNext
  <2>1. ASSUME NEW t \in Tasks, EditsItems(t)
        PROVE  \/ \E a, p \in [Rows -> Int], L \in SUBSET Rows : UpdateItems(t, a, p, L)
               \/ \E next \in Statuses, a, p \in [Rows -> Int], L \in SUBSET Rows :
                    UpdateStatusAndItems(t, next, a, p, L)
    <3>0. PICK a \in OrdinaryLines : \E p \in ReasonablePicks(a) :
            \/ UpdateItems(t, a, p, {})
            \/ \E next \in OrdinaryStatuses \ {"cancelled"} : UpdateStatusAndItems(t, next, a, p, {})
      BY <2>1 DEF EditsItems
    <3>1. PICK p \in ReasonablePicks(a) :
            \/ UpdateItems(t, a, p, {})
            \/ \E next \in OrdinaryStatuses \ {"cancelled"} : UpdateStatusAndItems(t, next, a, p, {})
      BY <3>0
    <3>2. a \in [Rows -> Int] /\ p \in [Rows -> Int]
      BY <1>2, <1>3
    <3>. QED
      BY <1>1, <1>5, <3>1, <3>2
  <2>2. ASSUME NEW t \in Tasks, NEW a \in OrdinaryLines,
               CreatePickingTask(t, a) \/ ImportPickingTaskFromExcel(t, a)
        PROVE  \E b \in [Rows -> Int] : CreatePickingTask(t, b)
    BY <1>2, <2>2 DEF ImportPickingTaskFromExcel
  <2>. QED
    BY <1>1, <1>6, <2>1, <2>2 DEF TaskNext
<1>7. CASE ~TaskNext
  <2>1. ASSUME NEW t \in Tasks, NEW a \in Lines,
               CreatePickingTask(t, a) \/ ImportPickingTaskFromExcel(t, a)
        PROVE  \E b \in [Rows -> Int] : CreatePickingTask(t, b)
    BY <1>2, <2>1 DEF ImportPickingTaskFromExcel
  <2>2. ASSUME NEW t \in Tasks, NEW a \in Lines, NEW p \in Lines,
               \/ \E L \in LegacyRows(a, p) :
                    \/ UpdateItems(t, a, p, L)
                    \/ \E next \in Statuses : UpdateStatusAndItems(t, next, a, p, L)
               \/ \E s \in Skus : CompletePickingLine(t, s, a, p)
        PROVE  \/ \E b, c \in [Rows -> Int], L \in SUBSET Rows : UpdateItems(t, b, c, L)
               \/ \E next \in Statuses, b, c \in [Rows -> Int], L \in SUBSET Rows :
                    UpdateStatusAndItems(t, next, b, c, L)
               \/ \E s \in Skus, b, c \in [Rows -> Int] : CompletePickingLine(t, s, b, c)
    BY <1>2, <1>4, <2>2
  <2>. QED
    BY <1>7, <2>1, <2>2 DEF Next
<1>. QED
  BY <1>6, <1>7

LEMMA InitTypeOK == Init => TypeOK
BY RowsAssumption DEF Init, TypeOK, Nothing, Statuses, Ages

LEMMA NextTypeOK == TypeOK /\ [Next]_vars => TypeOK'
<1>. SUFFICES ASSUME TypeOK, [Next]_vars PROVE TypeOK'
  OBVIOUS
<1>1. ASSUME NEW t \in Tasks, NEW a \in [Rows -> Int], CreatePickingTask(t, a) PROVE TypeOK'
  BY <1>1 DEF CreatePickingTask, TypeOK, Statuses, stock
<1>2. ASSUME NEW t \in Tasks, StartPickingTask(t) PROVE TypeOK'
  <2>1. reserved' \in [Rows -> Nat]
    BY <1>2, ReserveType DEF StartPickingTask, TypeOK
  <2>. QED
    BY <1>2, <2>1, TouchType DEF StartPickingTask, TypeOK, Statuses
<1>3. ASSUME NEW t \in Tasks, NEW next \in Statuses, UpdateStatus(t, next) PROVE TypeOK'
  <2>1. reserved' \in [Rows -> Nat]
    BY <1>3, ReservedAfterCancelType DEF UpdateStatus
  <2>. QED
    BY <1>3, <2>1, TouchType DEF UpdateStatus, MoveStatus, TypeOK
<1>4. ASSUME NEW t \in Tasks, NEW a \in [Rows -> Int], NEW p \in [Rows -> Int],
             NEW L \in SUBSET Rows, UpdateItems(t, a, p, L)
      PROVE  TypeOK'
  <2>1. reserved' \in [Rows -> Nat]
    BY <1>4, RereserveType DEF UpdateItems, TypeOK
  <2>. QED
    BY <1>4, <2>1, TouchType, ReplaceItemsType DEF UpdateItems, TypeOK
<1>5. ASSUME NEW t \in Tasks, NEW next \in Statuses, NEW a \in [Rows -> Int], NEW p \in [Rows -> Int],
             NEW L \in SUBSET Rows, UpdateStatusAndItems(t, next, a, p, L)
      PROVE  TypeOK'
  <2>1. reserved' \in [Rows -> Nat]
    BY <1>5, RereserveType, ReservedAfterCancelType DEF UpdateStatusAndItems
  <2>. QED
    BY <1>5, <2>1, TouchType, ReplaceItemsType DEF UpdateStatusAndItems, MoveStatus, TypeOK
<1>6. ASSUME NEW t \in Tasks, UpdateOtherFields(t) PROVE TypeOK'
  BY <1>6, TouchType DEF UpdateOtherFields, TypeOK, stock
<1>7. ASSUME NEW t \in Tasks, NEW s \in Skus, NEW a \in [Rows -> Int], NEW p \in [Rows -> Int],
             CompletePickingLine(t, s, a, p)
      PROVE  TypeOK'
  <2>1. /\ [r \in Rows |-> IF r \in RowsOf(s) THEN a[r] ELSE alloc[t][r]] \in [Rows -> Int]
        /\ [r \in Rows |-> IF r \in RowsOf(s) THEN p[r] ELSE picked[t][r]] \in [Rows -> Int]
    BY DEF TypeOK
  <2>2. alloc' \in [Tasks -> [Rows -> Int]] /\ picked' \in [Tasks -> [Rows -> Int]]
    BY <1>7, <2>1 DEF CompletePickingLine, TypeOK
  <2>3. done' \in [Tasks -> SUBSET Skus] /\ legacy' \in [Tasks -> SUBSET Rows]
    BY <1>7 DEF CompletePickingLine, TypeOK
  <2>4. ShipAllocations(t, a, p) /\ Touch(t) /\ UNCHANGED <<expired, status>>
    BY <1>7 DEF CompletePickingLine
  <2>. QED
    BY <2>2, <2>3, <2>4, TouchType, ShipAllocationsType DEF TypeOK
<1>8. ASSUME NEW t \in Tasks, CompletePickingTask(t) PROVE TypeOK'
  <2>1. FinalStatus(t) \in Statuses
    BY DEF FinalStatus, Statuses
  <2>2. ShipAllocations(t, alloc[t], picked[t])
    BY <1>8 DEF CompletePickingTask
  <2>3. alloc[t] \in [Rows -> Int] /\ picked[t] \in [Rows -> Int]
    BY DEF TypeOK
  <2>4. quantity' \in [Rows -> Int] /\ reserved' \in [Rows -> Nat] /\ shipped' \in [Tasks -> [Rows -> Int]]
    BY <2>2, <2>3, ShipAllocationsType
  <2>. QED
    BY <1>8, <2>1, <2>4, TouchType DEF CompletePickingTask, TypeOK
<1>9. ASSUME NEW t \in Tasks, CancelSalesOrder(t) PROVE TypeOK'
  BY <1>9, TouchType DEF CancelSalesOrder, TypeOK, stock, Statuses
<1>10. CASE RunStaleReservationsCleanup
  <2>2. reserved' \in [Rows -> Nat]
    BY <1>10, StaleSums, ReleaseType DEF RunStaleReservationsCleanup, TypeOK
  <2>. QED
    BY <1>10, <2>2 DEF RunStaleReservationsCleanup, TypeOK, Statuses, Ages
<1>11. ASSUME NEW t \in Tasks, SevenDaysPass(t) PROVE TypeOK'
  BY <1>11 DEF SevenDaysPass, TypeOK, stock, Ages
<1>12. ASSUME NEW r \in Rows, LotExpires(r) PROVE TypeOK'
  BY <1>12 DEF LotExpires, TypeOK, stock, taskVars
<1>13. CASE UNCHANGED vars
  BY <1>13 DEF vars, TypeOK
<1>. QED
  BY <1>1, <1>2, <1>3, <1>4, <1>5, <1>6, <1>7, <1>8, <1>9, <1>10, <1>11, <1>12, <1>13, NextIsAHandler

(* Whatever the endpoints are asked, the state keeps its types; reserved_qty *)
(* in particular never violates chk_reserved_non_negative.                 *)
THEOREM TypeCorrect == Spec => []TypeOK
BY InitTypeOK, NextTypeOK, PTL DEF Spec

-----------------------------------------------------------------------------
(* Terminal statuses.                                                      *)

LEMMA TransitionsStartOpen ==
    ASSUME NEW current \in Terminal, NEW next, isValidPickingTransition(current, next)
    PROVE  next = current
BY DEF isValidPickingTransition, validPickingTransitions, Terminal, Completed

LEMMA TerminalStep ==
    TypeOK /\ [Next]_vars => \A t \in Tasks : status[t] \in Terminal => status'[t] = status[t]
<1>. SUFFICES ASSUME TypeOK, [Next]_vars, NEW u \in Tasks, status[u] \in Terminal
              PROVE  status'[u] = status[u]
  OBVIOUS
<1>. USE DEF Terminal, Completed
<1>1. ASSUME NEW t \in Tasks, NEW a, CreatePickingTask(t, a) PROVE status'[u] = status[u]
  BY <1>1 DEF CreatePickingTask, TypeOK
<1>2. ASSUME NEW t \in Tasks, StartPickingTask(t) PROVE status'[u] = status[u]
  BY <1>2 DEF StartPickingTask, TypeOK
<1>3. ASSUME NEW t \in Tasks, NEW next, MoveStatus(t, next) PROVE status'[u] = status[u]
  BY <1>3, TransitionsStartOpen DEF MoveStatus, TypeOK
<1>4. ASSUME NEW t \in Tasks, CompletePickingTask(t) PROVE status'[u] = status[u]
  BY <1>4 DEF CompletePickingTask, Completable, TypeOK
<1>5. ASSUME NEW t \in Tasks, CancelSalesOrder(t) PROVE status'[u] = status[u]
  BY <1>5 DEF CancelSalesOrder, TypeOK
<1>6. CASE RunStaleReservationsCleanup
  <2>1. u \notin StaleInProgress \cup StaleWaiting
    BY DEF StaleInProgress, StaleWaiting, InProgress
  <2>. QED
    BY <1>6, <2>1 DEF RunStaleReservationsCleanup
<1>7. CASE UNCHANGED status
  BY <1>7
<1>8. CASE UNCHANGED vars
  BY <1>8 DEF vars
<1>. QED
  BY <1>1, <1>2, <1>3, <1>4, <1>5, <1>6, <1>7, <1>8, NextIsAHandler
     DEF UpdateStatus, UpdateItems, UpdateStatusAndItems, UpdateOtherFields,
         CompletePickingLine, SevenDaysPass, LotExpires, taskVars

(* Whatever the endpoints are asked, handler after handler, a task that    *)
(* reached a terminal status keeps it.                                     *)
THEOREM TerminalStatusesAreFinal == Spec => TerminalIsFinal
<1>1. TypeOK /\ [Next]_vars
        => [\A t \in Tasks : status[t] \in Terminal => status'[t] = status[t]]_vars
  BY TerminalStep
<1>. QED
  BY <1>1, TypeCorrect, PTL DEF Spec, TerminalIsFinal

-----------------------------------------------------------------------------
(* Over-reservation.                                                       *)

LEMMA ReleaseShrinks ==
    ASSUME NEW res \in [Rows -> Nat], NEW a \in [Rows -> Int], NEW r \in Rows, a[r] >= 0
    PROVE  releaseReservations(res, a)[r] <= res[r]
BY DEF releaseReservations

LEMMA RereserveWithinStock ==
    ASSUME TypeOK, NEW t \in Tasks, NEW res \in [Rows -> Nat],
           NEW a \in [Rows -> Int], NEW p, NEW L, Rereserve(t, res, a, p, L),
           NEW r \in Rows, res[r] <= reserved[r], reserved'[r] > reserved[r], alloc[t][r] >= 0
    PROVE  reserved'[r] <= quantity[r]
<1>. DEFINE free  == releaseReservations(res, alloc[t])
            typed == WithoutLegacy(a, L)
<1>1. status[t] = "in_progress"
  BY DEF Rereserve, TypeOK
<1>2. CanReserve(free, typed, WithoutLegacy(p, L)) /\ reserved' = applyReservations(free, typed)
  BY <1>1 DEF Rereserve
<1>3. free \in [Rows -> Nat] /\ free[r] <= res[r] /\ typed \in [Rows -> Int]
  BY ReleaseType, ReleaseShrinks, WithoutLegacyType DEF TypeOK
<1>. HIDE DEF free, typed
<1>4. reserved'[r] = free[r] + typed[r]
  BY <1>2 DEF applyReservations
<1>5. typed[r] > 0
  BY <1>3, <1>4 DEF TypeOK
<1>6. quantity[r] - free[r] >= typed[r]
  BY <1>2, <1>3, <1>5 DEF CanReserve, Listed
<1>. QED
  BY <1>3, <1>4, <1>6 DEF TypeOK

LEMMA ReservedAfterCancelShrinks ==
    ASSUME TypeOK, NEW t \in Tasks, NEW next, NEW r \in Rows, alloc[t][r] >= 0
    PROVE  ReservedAfterCancel(t, next)[r] <= reserved[r]
<1>1. releaseReservations(reserved, alloc[t])[r] <= reserved[r]
  BY ReleaseShrinks DEF TypeOK
<1>2. reserved[r] <= reserved[r]
  BY DEF TypeOK
<1>. QED
  BY <1>1, <1>2 DEF ReservedAfterCancel

(* A sum of the cron job is negative only if one of its tasks allocates a  *)
(* negative quantity.                                                      *)
LEMMA StaleSumsAreNatural ==
    ASSUME TypeOK, NEW r \in Rows, \A t \in Tasks : alloc[t][r] >= 0
    PROVE  NetOver(StaleInProgress, InAllocations, r) >= 0
<1>1. IsFiniteSet(StaleInProgress)
  BY RowsAssumption, FS_Subset DEF StaleInProgress, InProgress
<1>2. \A t \in StaleInProgress : InAllocations[t][r] \in Nat
  BY DEF StaleInProgress, InProgress, InAllocations, WithoutLegacy, TypeOK
<1>3. SumOver(StaleInProgress, InAllocations, r) \in Nat
  BY <1>1, <1>2, SumType
<1>. QED
  BY <1>1, <1>2, <1>3, NetOfNaturals

GrowsWithinStock(r) ==
    reserved'[r] > reserved[r]
        => \/ reserved'[r] <= quantity'[r]
           \/ \E t \in Tasks : SpeaksOfDebt(t, r) \/ SpeaksOfDebt(t, r)'

LEMMA GrowthStep ==
    TypeOK /\ [Next]_vars => \A r \in Rows : GrowsWithinStock(r)
<1>. SUFFICES ASSUME TypeOK, [Next]_vars, NEW r \in Rows, reserved'[r] > reserved[r],
                     \A t \in Tasks : ~SpeaksOfDebt(t, r) /\ ~SpeaksOfDebt(t, r)'
              PROVE  reserved'[r] <= quantity'[r]
  BY DEF GrowsWithinStock
<1>0. /\ reserved[r] \in Nat /\ reserved \in [Rows -> Nat] /\ reserved' # reserved
      /\ \A t \in Tasks : alloc[t] \in [Rows -> Int] /\ alloc[t][r] \in Int /\ alloc[t][r] >= 0
  BY DEF TypeOK, SpeaksOfDebt
<1>1. ASSUME NEW t \in Tasks, StartPickingTask(t) PROVE reserved'[r] <= quantity'[r]
  <2>1. reserved'[r] = reserved[r] + alloc[t][r]
    BY <1>1 DEF StartPickingTask, applyReservations
  <2>2. quantity[r] - reserved[r] >= alloc[t][r]
    BY <1>0, <1>1, <2>1 DEF StartPickingTask, CanReserve, Listed
  <2>3. quantity'[r] = quantity[r] /\ quantity[r] \in Int
    BY <1>1 DEF StartPickingTask, TypeOK
  <2>. QED
    BY <1>0, <2>1, <2>2, <2>3
<1>2. ASSUME NEW t \in Tasks, NEW next, UpdateStatus(t, next) PROVE FALSE
  BY <1>0, <1>2, ReservedAfterCancelShrinks, ReservedAfterCancelType DEF UpdateStatus
<1>3. ASSUME NEW t \in Tasks, NEW a \in [Rows -> Int], NEW p, NEW L, UpdateItems(t, a, p, L)
      PROVE  reserved'[r] <= quantity'[r]
  BY <1>0, <1>3, RereserveWithinStock DEF UpdateItems
<1>4. ASSUME NEW t \in Tasks, NEW next, NEW a \in [Rows -> Int], NEW p, NEW L,
             UpdateStatusAndItems(t, next, a, p, L)
      PROVE  reserved'[r] <= quantity'[r]
  BY <1>0, <1>4, RereserveWithinStock, ReservedAfterCancelShrinks, ReservedAfterCancelType
     DEF UpdateStatusAndItems
<1>5. ASSUME NEW t \in Tasks, NEW a \in [Rows -> Int], NEW p, ShipAllocations(t, a, p), a[r] >= 0
      PROVE  FALSE
  BY <1>0, <1>5, ReleaseShrinks, ReleaseType DEF ShipAllocations
<1>6. CASE RunStaleReservationsCleanup
  <2>. DEFINE back == [x \in Rows |-> NetOver(StaleInProgress, InAllocations, x)]
  <2>1. back \in [Rows -> Int] /\ back[r] >= 0
    BY <1>0, StaleSums, StaleSumsAreNatural
  <2>2. reserved' = releaseReservations(reserved, back)
    BY <1>6 DEF RunStaleReservationsCleanup
  <2>. QED
    BY <1>0, <2>1, <2>2, ReleaseShrinks, ReleaseType
<1>7. ASSUME NEW t \in Tasks, CompletePickingTask(t) PROVE FALSE
  BY <1>0, <1>5, <1>7 DEF CompletePickingTask
<1>8. ASSUME NEW t \in Tasks, NEW s, NEW a \in [Rows -> Int], NEW p, CompletePickingLine(t, s, a, p)
      PROVE  FALSE
  <2>1. CASE a[r] = 0
    BY <1>5, <1>8, <2>1 DEF CompletePickingLine
  <2>2. CASE a[r] # 0
    <3>1. r \in RowsOf(s)
      BY <1>8, <2>2 DEF CompletePickingLine, Listed
    <3>2. alloc'[t][r] = a[r]
      BY <1>8, <3>1 DEF CompletePickingLine, TypeOK
    <3>3. a[r] >= 0
      BY <3>2 DEF SpeaksOfDebt
    <3>. QED
      BY <1>5, <1>8, <3>3 DEF CompletePickingLine
  <2>. QED
    BY <2>1, <2>2
<1>. QED
  BY <1>0, <1>1, <1>2, <1>3, <1>4, <1>6, <1>7, <1>8, NextIsAHandler
     DEF vars, stock, CreatePickingTask, UpdateOtherFields,
         CancelSalesOrder, SevenDaysPass, LotExpires

(* Whatever the endpoints are asked, negative quantities included, a row's *)
(* reservation grows beyond the row's stock, oversold or not, only where a *)
(* negative quantity is allocated.                                         *)
THEOREM ReservationsGrowWithinStock == Spec => ReservationGrowsWithinStock
<1>1. TypeOK /\ [Next]_vars
        => [\A r \in Rows : reserved'[r] > reserved[r]
                => \/ reserved'[r] <= quantity'[r]
                   \/ \E t \in Tasks : SpeaksOfDebt(t, r) \/ SpeaksOfDebt(t, r)']_vars
  BY GrowthStep DEF GrowsWithinStock
<1>. QED
  BY <1>1, TypeCorrect, PTL DEF Spec, ReservationGrowsWithinStock

-----------------------------------------------------------------------------
(* Stock and movements.                                                    *)

LEMMA InitStockAccounted == Init => StockAccounted
<1>. SUFFICES ASSUME Init, NEW r \in Rows
              PROVE  quantity[r] + NetOver(Tasks, shipped, r) = InitialStock[r]
  BY DEF StockAccounted
<1>1. \A t \in Tasks : shipped[t][r] = 0
  BY DEF Init, Nothing
<1>2. NetOver(Tasks, shipped, r) = 0
  BY <1>1, RowsAssumption, SumOfZeros, NetOfNaturals
<1>. QED
  BY <1>2, RowsAssumption DEF Init

(* Completing allocations moves units from the row to the ledger.          *)
LEMMA ShippingAccounted ==
    ASSUME TypeOK, StockAccounted, NEW t \in Tasks,
           NEW a \in [Rows -> Int], NEW p \in [Rows -> Int], ShipAllocations(t, a, p)
    PROVE  StockAccounted'
<1>. SUFFICES ASSUME NEW r \in Rows
              PROVE  quantity'[r] + NetOver(Tasks, shipped', r) = InitialStock[r]
  BY DEF StockAccounted
<1>1. shipped' \in [Tasks -> [Rows -> Int]]
  BY ShipAllocationsType
<1>2. NetOver(Tasks, shipped', r) = NetOver(Tasks, shipped, r) - shipped[t][r] + shipped'[t][r]
  <2>1. \A u \in Tasks \ {t} : shipped'[u][r] = shipped[u][r]
    BY DEF ShipAllocations, TypeOK
  <2>2. \A u \in Tasks : shipped[u][r] \in Int /\ shipped'[u][r] \in Int
    BY <1>1 DEF TypeOK
  <2>. QED
    BY <2>1, <2>2, RowsAssumption, NetChange
<1>3. shipped'[t][r] = shipped[t][r] + p[r]
  BY DEF ShipAllocations, TypeOK
<1>4. quantity'[r] = quantity[r] - p[r]
  BY DEF ShipAllocations, TypeOK
<1>5. quantity[r] + NetOver(Tasks, shipped, r) = InitialStock[r]
  BY DEF StockAccounted
<1>6. /\ quantity[r] \in Int /\ p[r] \in Int /\ shipped[t][r] \in Int
      /\ NetOver(Tasks, shipped, r) \in Int
  <2>1. \A u \in Tasks : shipped[u][r] \in Int
    BY DEF TypeOK
  <2>2. NetOver(Tasks, shipped, r) \in Int
    BY <2>1, RowsAssumption, NetType
  <2>. QED
    BY <2>1, <2>2 DEF TypeOK
<1>. QED
  BY <1>2, <1>3, <1>4, <1>5, <1>6

LEMMA StockAccountedStep == TypeOK /\ StockAccounted /\ [Next]_vars => StockAccounted'
<1>. SUFFICES ASSUME TypeOK, StockAccounted, [Next]_vars PROVE StockAccounted'
  OBVIOUS
<1>1. ASSUME NEW t \in Tasks, CompletePickingTask(t) PROVE StockAccounted'
  BY <1>1, ShippingAccounted DEF CompletePickingTask, TypeOK
<1>2. ASSUME NEW t \in Tasks, NEW s, NEW a \in [Rows -> Int], NEW p \in [Rows -> Int],
             CompletePickingLine(t, s, a, p)
      PROVE  StockAccounted'
  BY <1>2, ShippingAccounted DEF CompletePickingLine
<1>3. CASE UNCHANGED <<quantity, shipped>>
  BY <1>3 DEF StockAccounted
<1>. QED
  BY <1>1, <1>2, <1>3, NextIsAHandler
     DEF vars, stock, CreatePickingTask, StartPickingTask, UpdateStatus, UpdateItems,
         UpdateStatusAndItems, UpdateOtherFields, CancelSalesOrder,
         RunStaleReservationsCleanup, SevenDaysPass, LotExpires

(* Whatever the endpoints are asked, the outbound movements account for    *)
(* every unit that left a row.                                             *)
THEOREM StockIsAccounted == Spec => []StockAccounted
BY InitStockAccounted, StockAccountedStep, TypeCorrect, PTL DEF Spec

-----------------------------------------------------------------------------
(* The documented lifecycle.                                               *)

(* Its steps, with what the lifecycle says of their arguments.             *)
LEMMA TaskNextIsAHandler ==
    ASSUME TaskNext
    PROVE  \/ \E t \in Tasks, a \in OrdinaryLines : CreatePickingTask(t, a)
           \/ \E t \in Tasks : StartPickingTask(t)
           \/ \E t \in Tasks, next \in OrdinaryStatuses : UpdateStatus(t, next)
           \/ \E t \in Tasks, a, p \in OrdinaryLines :
                /\ status[t] \notin Terminal
                /\ \A r \in Rows : p[r] <= a[r]
                /\ \/ UpdateItems(t, a, p, {})
                   \/ \E next \in {"open", "assigned"} : UpdateStatusAndItems(t, next, a, p, {})
           \/ \E t \in Tasks : UpdateOtherFields(t)
           \/ \E t \in Tasks : CompletePickingTask(t)
           \/ \E t \in Tasks : SevenDaysPass(t)
           \/ RunStaleReservationsCleanup
           \/ \E r \in Rows : LotExpires(r)
<1>1. OrdinaryStatuses \ {"cancelled"} = {"open", "assigned"}
  BY DEF OrdinaryStatuses
<1>2. ASSUME NEW t \in Tasks, EditsItems(t)
      PROVE  \E a, p \in OrdinaryLines :
                /\ \A r \in Rows : p[r] <= a[r]
                /\ \/ UpdateItems(t, a, p, {})
                   \/ \E next \in {"open", "assigned"} : UpdateStatusAndItems(t, next, a, p, {})
  BY <1>1, <1>2 DEF EditsItems, ReasonablePicks
<1>. QED
  BY <1>2 DEF TaskNext, ImportPickingTaskFromExcel

(* The sum over the tasks in progress is the sum of what all tasks hold.   *)
LEMMA HeldSum ==
    ASSUME NEW st, NEW al \in [Tasks -> [Rows -> Nat]], NEW r \in Rows
    PROVE  SumOver({t \in Tasks : st[t] = "in_progress"}, al, r)
             = SumOver(Tasks, [t \in Tasks |-> IF st[t] = "in_progress" THEN al[t] ELSE Nothing], r)
<1>. DEFINE In  == {t \in Tasks : st[t] = "in_progress"}
            Out == Tasks \ In
            h   == [t \in Tasks |-> IF st[t] = "in_progress" THEN al[t] ELSE Nothing]
<1>1. IsFiniteSet(In) /\ IsFiniteSet(Out)
  BY RowsAssumption, FS_Subset
<1>2. In \cup Out = Tasks /\ In \cap Out = {}
  OBVIOUS
<1>3. \A t \in Tasks : h[t][r] \in Nat
  BY DEF Nothing
<1>4. SumOver(In \cup Out, h, r) = SumOver(In, h, r) + SumOver(Out, h, r)
  BY <1>1, <1>2, <1>3, SumDisjoint
<1>5. SumOver(Out, h, r) = 0
  BY SumOfZeros DEF Nothing
<1>6. SumOver(In, h, r) = SumOver(In, al, r)
  BY SumCongruence
<1>7. SumOver(In, h, r) \in Nat
  BY <1>1, <1>3, SumType
<1>8. SumOver(Tasks, h, r) = SumOver(In, al, r) + 0
  BY <1>2, <1>4, <1>5, <1>6, Zenon
<1>. QED
  BY <1>6, <1>7, <1>8

(* In the lifecycle no quantity is negative and every item has allocations.*)
LEMMA LifecycleTypes ==
    ASSUME PicksWithinAllocations
    PROVE  /\ alloc \in [Tasks -> [Rows -> Nat]]
           /\ picked \in [Tasks -> [Rows -> Nat]]
           /\ \A t \in Tasks : legacy[t] = {}
<1>1. OrdinaryLines \subseteq [Rows -> Nat]
  BY OrdinaryLinesAreNatural
<1>. QED
  BY <1>1 DEF PicksWithinAllocations

LEMMA HeldType ==
    ASSUME PicksWithinAllocations
    PROVE  Held \in [Tasks -> [Rows -> Nat]]
BY LifecycleTypes DEF Held, Nothing

LEMMA BalancedHeld ==
    ASSUME PicksWithinAllocations, ReservationsBalanced, NEW r \in Rows
    PROVE  reserved[r] = SumOver(Tasks, Held, r)
BY HeldSum, LifecycleTypes DEF ReservationsBalanced, InProgress, Held

LEMMA HeldBalanced ==
    ASSUME PicksWithinAllocations, \A r \in Rows : reserved[r] = SumOver(Tasks, Held, r)
    PROVE  ReservationsBalanced
BY HeldSum, LifecycleTypes DEF ReservationsBalanced, InProgress, Held

(* A balanced counter covers each holder, and each set of holders.         *)
LEMMA HeldIsReserved ==
    ASSUME PicksWithinAllocations, ReservationsBalanced, NEW r \in Rows
    PROVE  /\ \A t \in Tasks : Held[t][r] <= reserved[r]
           /\ \A S \in SUBSET Tasks : SumOver(S, Held, r) \in Nat /\ SumOver(S, Held, r) <= reserved[r]
<1>1. \A t \in Tasks : Held[t][r] \in Nat
  BY HeldType
<1>2. ASSUME NEW S \in SUBSET Tasks
      PROVE  SumOver(S, Held, r) \in Nat /\ SumOver(S, Held, r) <= reserved[r]
  <2>1. IsFiniteSet(S)
    BY RowsAssumption, FS_Subset
  <2>. QED
    BY <1>1, <2>1, RowsAssumption, BalancedHeld, SumMonotonic, SumType
<1>3. ASSUME NEW t \in Tasks PROVE Held[t][r] <= reserved[r]
  BY <1>1, <1>2, SumSingle
<1>. QED
  BY <1>2, <1>3

(* The three ways in which a step of the lifecycle changes what is held.   *)
Exchanges(t, a) ==
    /\ Held' = [Held EXCEPT ![t] = a]
    /\ \A r \in Rows : reserved'[r] = reserved[r] - Held[t][r] + a[r]
    /\ \A r \in Rows : a[r] > 0 => a[r] <= quantity[r] - reserved[r] + Held[t][r]
    /\ quantity' = quantity

GivesBack(S) ==
    /\ Held' = [t \in Tasks |-> IF t \in S THEN Nothing ELSE Held[t]]
    /\ \A r \in Rows : reserved'[r] = reserved[r] - SumOver(S, Held, r)
    /\ quantity' = quantity

TakesOut(t, p) ==
    /\ Held' = [Held EXCEPT ![t] = Nothing]
    /\ \A r \in Rows : reserved'[r] = reserved[r] - Held[t][r]
    /\ \A r \in Rows : p[r] <= Held[t][r]
    /\ quantity' = [r \in Rows |-> quantity[r] - p[r]]

Rests == UNCHANGED <<Held, reserved, quantity>>

LEMMA StartEffect ==
    ASSUME LifecycleInv, NEW t \in Tasks, StartPickingTask(t)
    PROVE  Exchanges(t, alloc[t])
<1>. USE DEF LifecycleInv
<1>1. Held[t] = Nothing
  BY DEF StartPickingTask, Held
<1>2. Held' = [Held EXCEPT ![t] = alloc[t]]
  BY DEF StartPickingTask, Held, TypeOK
<1>3. ASSUME NEW r \in Rows
      PROVE  reserved'[r] = reserved[r] - Held[t][r] + alloc[t][r]
  BY <1>1, LifecycleTypes DEF StartPickingTask, applyReservations, TypeOK, Nothing
<1>4. ASSUME NEW r \in Rows, alloc[t][r] > 0
      PROVE  alloc[t][r] <= quantity[r] - reserved[r] + Held[t][r]
  <2>1. quantity[r] - reserved[r] >= alloc[t][r]
    BY <1>4, LifecycleTypes DEF StartPickingTask, CanReserve, Listed
  <2>2. quantity[r] \in Int /\ reserved[r] \in Nat /\ alloc[t][r] \in Nat /\ Held[t][r] = 0
    BY <1>1, LifecycleTypes DEF TypeOK, Nothing
  <2>. QED
    BY <2>1, <2>2
<1>. QED
  BY <1>2, <1>3, <1>4 DEF Exchanges, StartPickingTask

(* In the lifecycle only cancelling moves a task out of in_progress by a   *)
(* bare status, and what it releases is what the task holds.               *)
LEMMA UpdateStatusEffect ==
    ASSUME LifecycleInv, NEW t \in Tasks, NEW next \in OrdinaryStatuses, UpdateStatus(t, next)
    PROVE  Rests \/ Exchanges(t, Nothing)
<1>. USE DEF LifecycleInv
<1>1. CASE status[t] # "in_progress"
  <2>1. next # "in_progress"
    BY DEF OrdinaryStatuses
  <2>2. reserved' = reserved
    BY <1>1 DEF UpdateStatus, ReservedAfterCancel
  <2>3. Held' = Held
    BY <1>1, <2>1 DEF UpdateStatus, MoveStatus, Held, TypeOK
  <2>. QED
    BY <2>2, <2>3 DEF Rests, UpdateStatus
<1>2. CASE status[t] = "in_progress"
  <2>1. next = "cancelled"
    BY <1>2 DEF OrdinaryStatuses, UpdateStatus, MoveStatus, isValidPickingTransition,
                validPickingTransitions
  <2>2. reserved' = releaseReservations(reserved, alloc[t])
    BY <1>2, <2>1 DEF UpdateStatus, ReservedAfterCancel
  <2>3. Held[t] = alloc[t]
    BY <1>2 DEF Held
  <2>4. Held' = [Held EXCEPT ![t] = Nothing]
    BY <2>1 DEF UpdateStatus, MoveStatus, Held, TypeOK
  <2>5. ASSUME NEW r \in Rows PROVE reserved'[r] = reserved[r] - Held[t][r] + Nothing[r]
    <3>1. Held[t][r] <= reserved[r] /\ Held[t][r] \in Nat /\ reserved[r] \in Nat
      BY HeldIsReserved, HeldType DEF TypeOK
    <3>2. reserved'[r] = reserved[r] - Held[t][r]
      BY <2>2, <2>3, <3>1 DEF releaseReservations
    <3>. QED
      BY <3>1, <3>2 DEF Nothing
  <2>. QED
    BY <2>4, <2>5 DEF Exchanges, UpdateStatus, Nothing
<1>. QED
  BY <1>1, <1>2

LEMMA UpdateItemsEffect ==
    ASSUME LifecycleInv, NEW t \in Tasks, NEW a \in OrdinaryLines, NEW p \in OrdinaryLines,
           UpdateItems(t, a, p, {})
    PROVE  Rests \/ Exchanges(t, a)
<1>. USE DEF LifecycleInv
<1>0. a \in [Rows -> Nat] /\ WithoutLegacy(a, {}) = a
  <2>1. a \in [Rows -> Nat]
    BY OrdinaryLinesAreNatural
  <2>. QED
    BY <2>1 DEF WithoutLegacy
<1>1. CASE status[t] # "in_progress"
  BY <1>1 DEF UpdateItems, Rereserve, ReplaceItems, Held, TypeOK, Rests
<1>2. CASE status[t] = "in_progress"
  <2>. DEFINE free == releaseReservations(reserved, alloc[t])
  <2>1. /\ CanReserve(free, a, WithoutLegacy(p, {}))
        /\ reserved' = applyReservations(free, a)
    BY <1>0, <1>2 DEF UpdateItems, Rereserve
  <2>2. Held[t] = alloc[t]
    BY <1>2 DEF Held
  <2>3. Held' = [Held EXCEPT ![t] = a]
    BY <1>2 DEF UpdateItems, ReplaceItems, Held, TypeOK
  <2>4. ASSUME NEW r \in Rows PROVE free[r] = reserved[r] - Held[t][r]
    BY <2>2, HeldIsReserved, HeldType DEF releaseReservations, TypeOK
  <2>5. ASSUME NEW r \in Rows PROVE reserved'[r] = reserved[r] - Held[t][r] + a[r]
    BY <2>1, <2>4 DEF applyReservations
  <2>6. ASSUME NEW r \in Rows, a[r] > 0
        PROVE  a[r] <= quantity[r] - reserved[r] + Held[t][r]
    <3>1. quantity[r] - free[r] >= a[r]
      BY <1>0, <2>1, <2>6 DEF CanReserve, Listed
    <3>2. quantity[r] \in Int /\ reserved[r] \in Nat /\ Held[t][r] \in Nat /\ a[r] \in Nat
      BY <1>0, HeldType DEF TypeOK
    <3>. HIDE DEF free
    <3>. QED
      BY <2>4, <3>1, <3>2
  <2>. QED
    BY <2>3, <2>5, <2>6 DEF Exchanges, UpdateItems
<1>. QED
  BY <1>1, <1>2

LEMMA UpdateBothEffect ==
    ASSUME LifecycleInv, NEW t \in Tasks, NEW next \in {"open", "assigned"},
           NEW a \in OrdinaryLines, NEW p \in OrdinaryLines, UpdateStatusAndItems(t, next, a, p, {})
    PROVE  Rests
<1>1. status[t] # "in_progress"
  BY DEF UpdateStatusAndItems, MoveStatus, isValidPickingTransition, validPickingTransitions
<1>2. reserved' = reserved
  BY <1>1 DEF UpdateStatusAndItems, Rereserve, ReservedAfterCancel
<1>. QED
  BY <1>1, <1>2 DEF UpdateStatusAndItems, MoveStatus, ReplaceItems, Held, TypeOK, LifecycleInv, Rests

LEMMA CompleteEffect ==
    ASSUME LifecycleInv, NEW t \in Tasks, CompletePickingTask(t)
    PROVE  TakesOut(t, picked[t])
<1>. USE DEF LifecycleInv
<1>1. status[t] = "in_progress" /\ Held[t] = alloc[t]
  BY DEF CompletePickingTask, Completable, Held
<1>2. Held' = [Held EXCEPT ![t] = Nothing]
  <2>1. status'[t] # "in_progress"
    BY DEF CompletePickingTask, FinalStatus, TypeOK
  <2>. QED
    BY <2>1 DEF CompletePickingTask, Held, TypeOK
<1>3. ASSUME NEW r \in Rows PROVE reserved'[r] = reserved[r] - Held[t][r]
  BY <1>1, HeldIsReserved, HeldType
     DEF CompletePickingTask, ShipAllocations, releaseReservations, TypeOK
<1>4. ASSUME NEW r \in Rows PROVE picked[t][r] <= Held[t][r]
  BY <1>1 DEF PicksWithinAllocations
<1>5. quantity' = [r \in Rows |-> quantity[r] - picked[t][r]]
  BY DEF CompletePickingTask, ShipAllocations
<1>. QED
  BY <1>2, <1>3, <1>4, <1>5 DEF TakesOut

(* The cron job gives back what the stale tasks hold, no more and no less. *)
LEMMA CleanupEffect ==
    ASSUME LifecycleInv, RunStaleReservationsCleanup
    PROVE  GivesBack(StaleInProgress)
<1>. USE DEF LifecycleInv
<1>1. Held' = [t \in Tasks |-> IF t \in StaleInProgress THEN Nothing ELSE Held[t]]
  BY DEF RunStaleReservationsCleanup, StaleInProgress, StaleWaiting, InProgress, Held, TypeOK
<1>2. ASSUME NEW r \in Rows
      PROVE  reserved'[r] = reserved[r] - SumOver(StaleInProgress, Held, r)
  <2>0. \A t \in StaleInProgress : InAllocations[t][r] = Held[t][r] /\ Held[t][r] \in Nat
    BY HeldType, LifecycleTypes DEF StaleInProgress, InProgress, Held, InAllocations, WithoutLegacy
  <2>1. NetOver(StaleInProgress, InAllocations, r) = SumOver(StaleInProgress, Held, r)
    <3>1. IsFiniteSet(StaleInProgress)
      BY RowsAssumption, FS_Subset DEF StaleInProgress, InProgress
    <3>2. NetOver(StaleInProgress, InAllocations, r) = SumOver(StaleInProgress, InAllocations, r)
      BY <2>0, <3>1, NetOfNaturals
    <3>3. SumOver(StaleInProgress, InAllocations, r) = SumOver(StaleInProgress, Held, r)
      BY <2>0, SumCongruence
    <3>. QED
      BY <3>2, <3>3
  <2>2. StaleInProgress \in SUBSET Tasks
    BY DEF StaleInProgress, InProgress
  <2>3. SumOver(StaleInProgress, Held, r) \in Nat /\ SumOver(StaleInProgress, Held, r) <= reserved[r]
    BY <2>2, HeldIsReserved
  <2>. QED
    BY <2>1, <2>3 DEF RunStaleReservationsCleanup, releaseReservations, TypeOK
<1>. QED
  BY <1>1, <1>2 DEF GivesBack, RunStaleReservationsCleanup

(* Every step of the lifecycle is one of the four.                         *)
LEMMA LifecycleEffect ==
    ASSUME LifecycleInv, [TaskNext]_vars
    PROVE  \/ \E t \in Tasks, a \in OrdinaryLines : Exchanges(t, a)
           \/ GivesBack(StaleInProgress)
           \/ \E t \in Tasks : status[t] = "in_progress" /\ TakesOut(t, picked[t])
           \/ Rests
<1>. USE DEF LifecycleInv
<1>1. ASSUME NEW t \in Tasks, NEW a \in OrdinaryLines, CreatePickingTask(t, a) PROVE Rests
  BY <1>1 DEF CreatePickingTask, stock, Held, TypeOK, Rests
<1>2. ASSUME NEW t \in Tasks, StartPickingTask(t) PROVE \E a \in OrdinaryLines : Exchanges(t, a)
  BY <1>2, StartEffect DEF PicksWithinAllocations
<1>3. ASSUME NEW t \in Tasks, NEW next \in OrdinaryStatuses, UpdateStatus(t, next)
      PROVE  Rests \/ \E a \in OrdinaryLines : Exchanges(t, a)
  <2>1. Nothing \in OrdinaryLines
    BY DEF Nothing, Lines, OrdinaryLines
  <2>. QED
    BY <1>3, <2>1, UpdateStatusEffect
<1>4. CASE UNCHANGED <<stock, status, alloc>>
  BY <1>4 DEF Rests, Held, stock
<1>5. CASE UNCHANGED vars
  BY <1>5 DEF Rests, Held, vars
<1>6. ASSUME NEW t \in Tasks, CompletePickingTask(t)
      PROVE  status[t] = "in_progress" /\ TakesOut(t, picked[t])
  BY <1>6, CompleteEffect DEF CompletePickingTask, Completable
<1>. QED
  BY <1>1, <1>2, <1>3, <1>4, <1>5, <1>6, UpdateItemsEffect, UpdateBothEffect, CleanupEffect,
     TaskNextIsAHandler
     DEF UpdateOtherFields, SevenDaysPass, LotExpires, taskVars

-----------------------------------------------------------------------------
(* The invariant of the lifecycle.                                         *)

LEMMA InitLifecycleInv == Init => LifecycleInv
<1>. SUFFICES ASSUME Init PROVE LifecycleInv
  OBVIOUS
<1>1. TypeOK
  BY InitTypeOK
<1>2. PicksWithinAllocations
  BY DEF Init, PicksWithinAllocations, OrdinaryLines, Lines, Nothing
<1>3. \A r \in Rows : SumOver(InProgress, alloc, r) = 0
  BY SumOfZeros DEF Init, InProgress, Nothing
<1>4. ReservationsBalanced
  BY <1>3 DEF Init, ReservationsBalanced, Nothing
<1>5. NeverOversold
  BY RowsAssumption DEF Init, NeverOversold, Nothing
<1>6. ShipsOnce
  BY DEF Init, ShipsOnce, Completed
<1>. QED
  BY <1>1, <1>2, <1>4, <1>5, <1>6 DEF LifecycleInv

LEMMA BalancedStep ==
    ASSUME LifecycleInv, PicksWithinAllocations', [TaskNext]_vars
    PROVE  ReservationsBalanced'
<1>. USE DEF LifecycleInv
<1>a. alloc' \in [Tasks -> [Rows -> Nat]]
  BY OrdinaryLinesAreNatural DEF PicksWithinAllocations
<1>. SUFFICES ASSUME NEW r \in Rows PROVE reserved'[r] = SumOver(Tasks, Held', r)
  BY <1>a, HeldSum DEF ReservationsBalanced, InProgress, Held
<1>0. /\ reserved[r] = SumOver(Tasks, Held, r)
      /\ reserved[r] \in Nat
      /\ \A t \in Tasks : Held[t][r] \in Nat
  BY BalancedHeld, HeldType DEF TypeOK
<1>1. ASSUME NEW t \in Tasks, NEW a \in [Rows -> Nat], NEW new,
             new = [Held EXCEPT ![t] = a]
      PROVE  SumOver(Tasks, new, r) = SumOver(Tasks, Held, r) - Held[t][r] + a[r]
  <2>1. \A u \in Tasks : new[u][r] \in Nat
    BY <1>0, <1>1, HeldType
  <2>2. \A u \in Tasks \ {t} : new[u][r] = Held[u][r]
    BY <1>1, HeldType
  <2>3. new[t][r] = a[r]
    BY <1>1, HeldType
  <2>. QED
    BY <1>0, <2>1, <2>2, <2>3, RowsAssumption, SumChange
<1>2. ASSUME NEW t \in Tasks, NEW a \in OrdinaryLines, Exchanges(t, a)
      PROVE  reserved'[r] = SumOver(Tasks, Held', r)
  BY <1>0, <1>1, <1>2, OrdinaryLinesAreNatural DEF Exchanges
<1>3. ASSUME NEW t \in Tasks, TakesOut(t, picked[t])
      PROVE  reserved'[r] = SumOver(Tasks, Held', r)
  <2>1. SumOver(Tasks, Held', r) = SumOver(Tasks, Held, r) - Held[t][r] + Nothing[r]
    BY <1>1, <1>3 DEF TakesOut, Nothing
  <2>. QED
    BY <1>0, <1>3, <2>1 DEF TakesOut, Nothing
<1>4. CASE GivesBack(StaleInProgress)
  <2>. DEFINE S == StaleInProgress
              R == Tasks \ S
  <2>0. Held' = [t \in Tasks |-> IF t \in S THEN Nothing ELSE Held[t]]
    BY <1>4 DEF GivesBack
  <2>1. IsFiniteSet(S) /\ IsFiniteSet(R) /\ S \cup R = Tasks /\ S \cap R = {}
    BY RowsAssumption, FS_Subset DEF StaleInProgress, InProgress
  <2>2. SumOver(S \cup R, Held, r) = SumOver(S, Held, r) + SumOver(R, Held, r)
    BY <1>0, <2>1, SumDisjoint
  <2>3. \A t \in Tasks : Held'[t][r] \in Nat
    BY <1>0, <2>0 DEF Nothing
  <2>4. SumOver(S \cup R, Held', r) = SumOver(S, Held', r) + SumOver(R, Held', r)
    BY <2>1, <2>3, SumDisjoint
  <2>5. SumOver(S, Held', r) = 0
    <3>1. \A t \in S : Held'[t][r] = 0
      BY <2>0, <2>1 DEF Nothing
    <3>. QED
      BY <3>1, SumOfZeros
  <2>6. SumOver(R, Held', r) = SumOver(R, Held, r)
    <3>1. \A t \in R : Held'[t][r] = Held[t][r]
      BY <2>0
    <3>. QED
      BY <3>1, SumCongruence
  <2>7. SumOver(S, Held, r) \in Nat /\ SumOver(R, Held, r) \in Nat
    BY <1>0, <2>1, SumType
  <2>8. reserved'[r] = reserved[r] - SumOver(S, Held, r)
    BY <1>4 DEF GivesBack
  <2>9. SumOver(Tasks, Held, r) = SumOver(S, Held, r) + SumOver(R, Held, r)
    BY <2>1, <2>2, Zenon
  <2>10. SumOver(Tasks, Held', r) = 0 + SumOver(R, Held, r)
    BY <2>1, <2>4, <2>5, <2>6, Zenon
  <2>. HIDE DEF S, R
  <2>. QED
    BY <1>0, <2>7, <2>8, <2>9, <2>10
<1>5. CASE Rests
  BY <1>0, <1>5 DEF Rests
<1>. QED
  BY <1>2, <1>3, <1>4, <1>5, LifecycleEffect

LEMMA OversoldStep ==
    ASSUME LifecycleInv, TypeOK', [TaskNext]_vars
    PROVE  NeverOversold'
<1>. USE DEF LifecycleInv
<1>. SUFFICES ASSUME NEW r \in Rows PROVE reserved'[r] <= quantity'[r]
  BY DEF NeverOversold
<1>0. /\ reserved[r] <= quantity[r]
      /\ reserved[r] \in Nat /\ quantity[r] \in Int
      /\ \A t \in Tasks : Held[t][r] \in Nat /\ Held[t][r] <= reserved[r] /\ picked[t][r] \in Nat
  BY HeldType, HeldIsReserved, LifecycleTypes DEF NeverOversold, TypeOK
<1>1. ASSUME NEW t \in Tasks, NEW a \in OrdinaryLines, Exchanges(t, a)
      PROVE  reserved'[r] <= quantity'[r]
  <2>1. a[r] \in Nat
    BY OrdinaryLinesAreNatural
  <2>2. CASE a[r] > 0
    BY <1>0, <1>1, <2>1, <2>2 DEF Exchanges
  <2>3. CASE a[r] = 0
    BY <1>0, <1>1, <2>3 DEF Exchanges
  <2>. QED
    BY <2>1, <2>2, <2>3
<1>2. ASSUME NEW t \in Tasks, TakesOut(t, picked[t])
      PROVE  reserved'[r] <= quantity'[r]
  BY <1>0, <1>2 DEF TakesOut
<1>3. CASE GivesBack(StaleInProgress)
  <2>1. SumOver(StaleInProgress, Held, r) \in Nat
    BY HeldIsReserved DEF StaleInProgress, InProgress
  <2>. QED
    BY <1>0, <1>3, <2>1 DEF GivesBack
<1>4. CASE Rests
  BY <1>0, <1>4 DEF Rests
<1>. QED
  BY <1>1, <1>2, <1>3, <1>4, LifecycleEffect

LEMMA PicksStep ==
    ASSUME LifecycleInv, TypeOK', [TaskNext]_vars
    PROVE  PicksWithinAllocations'
<1>. USE DEF LifecycleInv
<1>1. ASSUME NEW t \in Tasks, NEW a \in OrdinaryLines, NEW p \in OrdinaryLines,
             \A r \in Rows : p[r] <= a[r], legacy' = [legacy EXCEPT ![t] = {}] \/ legacy' = legacy,
             alloc' = [alloc EXCEPT ![t] = a], picked' = [picked EXCEPT ![t] = p]
      PROVE  PicksWithinAllocations'
  BY <1>1 DEF PicksWithinAllocations
<1>2. ASSUME NEW t \in Tasks, NEW a \in OrdinaryLines, CreatePickingTask(t, a)
      PROVE  PicksWithinAllocations'
  <2>1. \A r \in Rows : a[r] <= a[r]
    BY OrdinaryLinesAreNatural
  <2>. QED
    BY <1>1, <1>2, <2>1 DEF CreatePickingTask
<1>3. CASE UNCHANGED <<alloc, picked, legacy>>
  BY <1>3 DEF PicksWithinAllocations
<1>4. CASE UNCHANGED vars
  BY <1>3, <1>4 DEF vars
<1>. QED
  BY <1>1, <1>2, <1>3, <1>4, TaskNextIsAHandler
     DEF StartPickingTask, UpdateStatus, UpdateItems, UpdateStatusAndItems, ReplaceItems,
         UpdateOtherFields, CompletePickingTask, SevenDaysPass, LotExpires, taskVars,
         RunStaleReservationsCleanup

(* Shipping what a task in progress picked, when none of it was shipped    *)
(* before.                                                                 *)
LEMMA ShipsPicks ==
    ASSUME LifecycleInv, NEW t \in Tasks, CompletePickingTask(t)
    PROVE  shipped' = [shipped EXCEPT ![t] = picked[t]]
<1>. USE DEF LifecycleInv
<1>1. shipped[t] = Nothing
  BY DEF CompletePickingTask, Completable, ShipsOnce, Completed
<1>2. ASSUME NEW r \in Rows
      PROVE  shipped[t][r] + picked[t][r] = picked[t][r]
  BY <1>1 DEF TypeOK, Nothing
<1>3. picked[t] = [r \in Rows |-> shipped[t][r] + picked[t][r]]
  BY <1>2 DEF TypeOK
<1>. QED
  BY <1>3 DEF CompletePickingTask, ShipAllocations

LEMMA ShipsOnceStep ==
    ASSUME LifecycleInv, TypeOK', [TaskNext]_vars
    PROVE  ShipsOnce'
<1>. USE DEF LifecycleInv
<1>0. ASSUME NEW t \in Tasks, NEW next \in OrdinaryStatuses, MoveStatus(t, next)
      PROVE  \A u \in Tasks : status'[u] \in Completed <=> status[u] \in Completed
  <2>1. next \notin Completed
    BY DEF OrdinaryStatuses, Completed
  <2>2. CASE status[t] \in Completed
    <3>1. next = status[t]
      BY <1>0, <2>2, TransitionsStartOpen DEF MoveStatus, Terminal
    <3>. QED
      BY <2>1, <2>2, <3>1
  <2>3. CASE status[t] \notin Completed
    BY <1>0, <2>1, <2>3 DEF MoveStatus, TypeOK
  <2>. QED
    BY <2>2, <2>3
<1>1. ASSUME UNCHANGED <<picked, shipped>>,
             \A u \in Tasks : status'[u] \in Completed <=> status[u] \in Completed
      PROVE  ShipsOnce'
  BY <1>1 DEF ShipsOnce
<1>2. ASSUME NEW t \in Tasks, NEW p, status[t] \notin Completed,
             picked' = [picked EXCEPT ![t] = p], UNCHANGED shipped,
             \A u \in Tasks : status'[u] \in Completed <=> status[u] \in Completed
      PROVE  ShipsOnce'
  BY <1>2 DEF ShipsOnce, TypeOK
<1>3. CASE UNCHANGED <<status, picked, shipped>>
  BY <1>1, <1>3
<1>4. CASE UNCHANGED vars
  BY <1>3, <1>4 DEF vars
<1>5. ASSUME NEW t \in Tasks, NEW a \in OrdinaryLines, CreatePickingTask(t, a) PROVE ShipsOnce'
  <2>1. \A u \in Tasks : status'[u] \in Completed <=> status[u] \in Completed
    BY <1>5 DEF CreatePickingTask, Completed, TypeOK
  <2>. QED
    BY <1>2, <1>5, <2>1 DEF CreatePickingTask, Completed
<1>6. ASSUME NEW t \in Tasks, StartPickingTask(t) PROVE ShipsOnce'
  <2>1. \A u \in Tasks : status'[u] \in Completed <=> status[u] \in Completed
    BY <1>6 DEF StartPickingTask, Completed, TypeOK
  <2>. QED
    BY <1>1, <1>6, <2>1 DEF StartPickingTask
<1>7. ASSUME NEW t \in Tasks, NEW next \in OrdinaryStatuses, UpdateStatus(t, next) PROVE ShipsOnce'
  BY <1>0, <1>1, <1>7 DEF UpdateStatus
<1>8. ASSUME NEW t \in Tasks, NEW a, NEW p, status[t] \notin Terminal,
             \/ UpdateItems(t, a, p, {})
             \/ \E next \in {"open", "assigned"} : UpdateStatusAndItems(t, next, a, p, {})
      PROVE  ShipsOnce'
  <2>1. \A u \in Tasks : status'[u] \in Completed <=> status[u] \in Completed
    BY <1>0, <1>8 DEF UpdateItems, UpdateStatusAndItems, OrdinaryStatuses
  <2>2. picked' = [picked EXCEPT ![t] = p] /\ UNCHANGED shipped
    BY <1>8 DEF UpdateItems, UpdateStatusAndItems, ReplaceItems
  <2>. QED
    BY <1>2, <1>8, <2>1, <2>2 DEF Terminal
<1>9. ASSUME NEW t \in Tasks, CompletePickingTask(t) PROVE ShipsOnce'
  <2>1. shipped' = [shipped EXCEPT ![t] = picked[t]] /\ picked' = picked
    BY <1>9, ShipsPicks DEF CompletePickingTask
  <2>2. status'[t] \in Completed /\ \A u \in Tasks \ {t} : status'[u] = status[u]
    BY <1>9 DEF CompletePickingTask, FinalStatus, Completed, TypeOK
  <2>. QED
    BY <2>1, <2>2 DEF ShipsOnce, TypeOK
<1>10. CASE RunStaleReservationsCleanup
  <2>1. \A u \in StaleInProgress \cup StaleWaiting : u \in Tasks /\ status[u] \notin Completed
    BY DEF StaleInProgress, StaleWaiting, InProgress, Completed
  <2>2. \A u \in Tasks : status'[u] \in Completed <=> status[u] \in Completed
    BY <1>10, <2>1 DEF RunStaleReservationsCleanup, Completed
  <2>. QED
    BY <1>1, <1>10, <2>2 DEF RunStaleReservationsCleanup
<1>. QED
  BY <1>3, <1>4, <1>5, <1>6, <1>7, <1>8, <1>9, <1>10, TaskNextIsAHandler
     DEF UpdateOtherFields, SevenDaysPass, LotExpires, taskVars

LEMMA LifecycleInvStep == LifecycleInv /\ [TaskNext]_vars => LifecycleInv'
<1>. SUFFICES ASSUME LifecycleInv, [TaskNext]_vars PROVE LifecycleInv'
  OBVIOUS
<1>1. TypeOK'
  BY NextTypeOK DEF LifecycleInv, Next
<1>. QED
  BY <1>1, PicksStep, BalancedStep, OversoldStep, ShipsOnceStep DEF LifecycleInv

(* Under the documented lifecycle (TaskSpec) the inductive invariant the   *)
(* two results below rest on holds in every reachable state.               *)
THEOREM LifecycleInvariant == TaskSpec => []LifecycleInv
BY InitLifecycleInv, LifecycleInvStep, PTL DEF TaskSpec

(* Under the documented lifecycle the counter of each row is the sum of    *)
(* the allocations of the tasks in progress.                               *)
THEOREM ReservationsStayBalanced == TaskSpec => []ReservationsBalanced
<1>1. LifecycleInv => ReservationsBalanced
  BY DEF LifecycleInv
<1>. QED
  BY <1>1, LifecycleInvariant, PTL

(* Under the documented lifecycle no row has more reserved than it holds.  *)
THEOREM RowsAreNeverOversold == TaskSpec => []NeverOversold
<1>1. LifecycleInv => NeverOversold
  BY DEF LifecycleInv
<1>. QED
  BY <1>1, LifecycleInvariant, PTL

(* Under the documented lifecycle a completed task ships its picks once.   *)
THEOREM TasksShipOnce == TaskSpec => []ShipsOnce
<1>1. LifecycleInv => ShipsOnce
  BY DEF LifecycleInv
<1>. QED
  BY <1>1, LifecycleInvariant, PTL

-----------------------------------------------------------------------------
(* The refinement of StockPromises.                                        *)

LEMMA InitPromises == Init => Promises!PromiseInit
BY DEF Init, Promises!PromiseInit, Promises!NoPromise, Held, Nothing

(* What the abstract specification calls free is what is not reserved.     *)
LEMMA FreeIsUnreserved ==
    ASSUME PicksWithinAllocations, ReservationsBalanced, NEW r \in Rows
    PROVE  Promises!Free(r) = quantity[r] - reserved[r]
BY BalancedHeld, Zenon
   DEF Promises!Free, Promises!SumOver, Promises!Units, Promises!Cardinality,
       SumOver, Units, Cardinality

LEMMA PromiseStep == LifecycleInv /\ [TaskNext]_vars => [Promises!PromiseNext]_<<quantity, Held>>
<1>. SUFFICES ASSUME LifecycleInv, [TaskNext]_vars
              PROVE  Promises!PromiseNext \/ UNCHANGED <<quantity, Held>>
  OBVIOUS
<1>. USE DEF LifecycleInv
<1>0. OrdinaryLines \subseteq [Rows -> (Quantities \cap Nat) \cup {0}]
  <2>1. ASSUME NEW a \in OrdinaryLines, NEW r \in Rows
        PROVE  a[r] \in (Quantities \cap Nat) \cup {0}
    BY OrdinaryLinesAreNatural DEF OrdinaryLines, Lines
  <2>. QED
    BY <2>1 DEF OrdinaryLines, Lines
<1>1. ASSUME NEW t \in Tasks, NEW a \in OrdinaryLines, Exchanges(t, a)
      PROVE  Promises!PromiseNext
  <2>1. Promises!Promise(t, a)
    BY <1>1, FreeIsUnreserved DEF Exchanges, Promises!Promise
  <2>. QED
    BY <1>0, <2>1 DEF Promises!PromiseNext
<1>2. CASE GivesBack(StaleInProgress)
  <2>1. Promises!Withdraw(StaleInProgress)
    BY <1>2 DEF GivesBack, Promises!Withdraw, Promises!NoPromise, Nothing
  <2>2. StaleInProgress \in SUBSET Tasks
    BY DEF StaleInProgress, InProgress
  <2>. QED
    BY <2>1, <2>2 DEF Promises!PromiseNext
<1>3. ASSUME NEW t \in Tasks, TakesOut(t, picked[t])
      PROVE  Promises!PromiseNext
  <2>1. Promises!Deliver(t, picked[t])
    BY <1>3 DEF TakesOut, Promises!Deliver, Promises!NoPromise, Nothing
  <2>2. picked[t] \in OrdinaryLines
    BY DEF PicksWithinAllocations
  <2>. QED
    BY <1>0, <2>1, <2>2 DEF Promises!PromiseNext
<1>4. CASE Rests
  BY <1>4 DEF Rests
<1>. QED
  BY <1>1, <1>2, <1>3, <1>4, LifecycleEffect

(* The documented lifecycle implements the abstract reservation of stock,  *)
(* for every number of tasks and rows and every initial stock.             *)
THEOREM LifecycleKeepsPromises == TaskSpec => KeepsPromises
<1>1. Init => Promises!PromiseInit
  BY InitPromises
<1>2. LifecycleInv /\ [TaskNext]_vars => [Promises!PromiseNext]_(Promises!pvars)
  BY PromiseStep DEF Promises!pvars
<1>. QED
  BY <1>1, <1>2, LifecycleInvariant, PTL DEF TaskSpec, KeepsPromises, Promises!PromiseSpec
=============================================================================

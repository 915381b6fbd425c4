---------------------------- MODULE PickSuggestions ----------------------------
(***************************************************************************)
(* From where an article is to be picked.  GetPickSuggestionsBySKU lists   *)
(* the article's rows of inventory that have stock to give, each once for  *)
(* every lot in it, the earliest expiration first, and allocatePickRows    *)
(* takes from them in turn.  What it suggests is what a picking task will  *)
(* then try to reserve.  Nothing keeps two rows of the article from having *)
(* one location, and both count what is taken by the location.             *)
(***************************************************************************)
EXTENDS Integers, FiniteSets, SequencesExt, StockSums

CONSTANTS Rows,         \* of inventory, numbered as they were created
          Locations, LocationOf,
          Stocks,       \* what rows have at first, and the lots they may come
                        \* to have: quantity, reserved, lots
          Wanted,       \* the quantities asked for, 0 for all there is
          Never         \* later than every expiration

VARIABLES inventory, answer

suggestionVars == <<inventory, answer>>

NoAnswer == [at |-> "none"]
Unlotted == [quantity |-> 0, expires |-> Never, lotted |-> FALSE]

Init == inventory \in [Rows -> Stocks] /\ answer = NoAnswer

Free(i) ==
    IF inventory[i].quantity > inventory[i].reserved
    THEN inventory[i].quantity - inventory[i].reserved ELSE 0

(* SUM of an amount for each of a set.                                     *)
SumOf(amounts, S) == SumOver(S, [s \in S |-> <<amounts[s]>>], 1)

-----------------------------------------------------------------------------
(* The LEFT JOINs: a row without lots comes once, without a lot.  A lot    *)
(* that is archived is not joined, and its row comes without a lot too.    *)
LotsOf(i) ==
    LET lots == inventory[i].lots
    IN  IF lots = <<>> THEN <<Unlotted>>
        ELSE [n \in DOMAIN lots |->
                 IF lots[n].archived THEN Unlotted
                 ELSE [quantity |-> lots[n].quantity, expires |-> lots[n].expires, lotted |-> TRUE]]

PickRows ==
    UNION {{[row |-> i, place |-> n, lot |-> LotsOf(i)[n]] : n \in DOMAIN LotsOf(i)} :
           i \in {k \in Rows : Free(k) > 0}}

At(r) == LocationOf[r.row]

\* Mutant of Before.
(* First in, first out.                                                    *)
CreatedBefore(r, s) == r.row <= s.row

(* ORDER BY expiration, with none at the end, then creation of the row.    *)
Before(r, s) ==
    \/ r.lot.expires < s.lot.expires
    \/ r.lot.expires = s.lot.expires /\ r.row <= s.row

Ordered == {rows \in SetToSeqs(PickRows) : \A m, n \in DOMAIN rows : m < n => Before(rows[m], rows[n])}

\* Mutant of LocationAvailable.
(* What earlier rows of the location took is forgotten.                    *)
LocationUntaken(r, taken) == Free(r.row)

(* What the row has less what was taken from any row of its location.      *)
LocationAvailable(r, taken) == IF Free(r.row) >= taken[At(r)] THEN Free(r.row) - taken[At(r)] ELSE 0

UpperBound(r, taken) ==
    LET available == LocationAvailable(r, taken)
    IN  IF r.lot.lotted /\ r.lot.quantity < available THEN r.lot.quantity ELSE available

\* Mutant of Limited.
(* Nothing is left to take when nothing was asked for.                     *)
LimitedAlways(qty, n, remaining) == IF n > remaining THEN remaining ELSE n

Limited(qty, n, remaining) == IF qty > 0 /\ n > remaining THEN remaining ELSE n

Untouched(qty) ==
    [given |-> [r \in PickRows |-> 0], taken |-> [l \in Locations |-> 0],
     remaining |-> IF qty > 0 THEN qty ELSE 0, total |-> 0]

(* What one pass of the loop makes of what the earlier ones did.           *)
Take(done, r, qty) ==
    LET n == Limited(qty, UpperBound(r, done.taken), done.remaining)
    IN  [given     |-> [done.given EXCEPT ![r] = @ + n],
         taken     |-> [done.taken EXCEPT ![At(r)] = @ + n],
         remaining |-> IF qty > 0 THEN done.remaining - n ELSE 0,
         total     |-> done.total + n]

(* A row from which nothing is taken is not in the answer: it is given 0.  *)
allocatePickRows(rows, qty) ==
    LET after[n \in 0 .. Len(rows)] ==
            IF n = 0 THEN Untouched(qty) ELSE Take(after[n - 1], rows[n], qty)
    IN  after[Len(rows)]

(* Rows of the same place in the order come in any.                        *)
GetPickSuggestionsBySKU(qty) ==
    /\ answer = NoAnswer
    /\ \E rows \in Ordered :
        LET all == allocatePickRows(rows, qty)
        IN  answer' = [at |-> "given", requested |-> qty, given |-> all.given, total |-> all.total,
                       sufficient |-> qty = 0 \/ all.total >= qty]
    /\ UNCHANGED inventory

(* A request that names no quantity, or none that can be read, asks for    *)
(* all there is, and so does one for less than nothing.                    *)
GetPickSuggestions == \E qty \in Wanted : GetPickSuggestionsBySKU(qty)

-----------------------------------------------------------------------------
GivenAt(l) == SumOf(answer.given, {r \in DOMAIN answer.given : At(r) = l})
GivenOf(i) == SumOf(answer.given, {r \in DOMAIN answer.given : r.row = i})

Allocations == {r \in DOMAIN answer.given : answer.given[r] > 0}

(* An UPDATE reserves an allocation in every row of its location that has  *)
(* enough: a row takes one after the other all that it has enough for.     *)
Fits(i, S) == SumOf(answer.given, S) <= Free(i)
TakenBy(i) ==
    LET here == {r \in Allocations : At(r) = LocationOf[i]}
    IN  {S \in SUBSET here : Fits(i, S) /\ \A r \in here \ S : ~Fits(i, S \cup {r})}

(* A task made of the answer is started: it reserves what was suggested,   *)
(* if a row takes each allocation.                                         *)
StartPickingTask ==
    /\ answer # NoAnswer
    /\ \E takes \in [Rows -> UNION {TakenBy(i) : i \in Rows}] :
        /\ \A i \in Rows : takes[i] \in TakenBy(i)
        /\ \A r \in Allocations : \E i \in Rows : r \in takes[i]
        /\ inventory' = [i \in Rows |->
                            [inventory[i] EXCEPT !.reserved = @ + SumOf(answer.given, takes[i])]]
    /\ answer' = NoAnswer

(* Which lots a row has is written by hand and checked against neither its *)
(* quantity nor other rows; an answer given before is then of the past.    *)
SetLots(i, lots) ==
    /\ inventory' = [inventory EXCEPT ![i].lots = lots]
    /\ answer' = IF answer = NoAnswer THEN answer ELSE [answer EXCEPT !.at = "outdated"]

\* The lots a row may have: a bound.
LotLists == {row.lots : row \in Stocks}

CreateInventoryLot(i) ==
    \E lots \in LotLists \ {<<>>} : Front(lots) = inventory[i].lots /\ SetLots(i, lots)

DeleteInventoryLot(i) ==
    \E n \in DOMAIN inventory[i].lots :
        LET lots == RemoveAt(inventory[i].lots, n) IN lots \in LotLists /\ SetLots(i, lots)

Next ==
    \/ GetPickSuggestions
    \/ StartPickingTask
    \/ \E i \in Rows : CreateInventoryLot(i) \/ DeleteInventoryLot(i)

Spec == Init /\ [][Next]_suggestionVars

-----------------------------------------------------------------------------
(* Types of the variables.                                                 *)
TypeOK ==
    /\ \A i \in Rows : inventory[i].quantity \in Nat /\ inventory[i].reserved \in Nat
    /\ \/ answer = NoAnswer
       \/ answer.requested \in Wanted /\ answer.total \in Nat /\ answer.sufficient \in BOOLEAN

(* However the lots and the stock of a location disagree, what is          *)
(* suggested there can be reserved, all of it: one of its rows has enough  *)
(* for the whole; and so after its lots are changed.                       *)
CanBeReserved ==
    answer # NoAnswer =>
        \A l \in Locations :
            GivenAt(l) > 0 => \E i \in Rows : LocationOf[i] = l /\ GivenAt(l) <= Free(i)

(* First expired, first out: nothing is suggested while something is left  *)
(* of a lot that expires earlier, in any row.  What is left of a row is    *)
(* what it has beyond all that its location gave.                          *)
LeftOf(r) == IF Free(r.row) <= GivenAt(At(r)) THEN 0 ELSE r.lot.quantity - answer.given[r]
EarliestFirst ==
    answer.at = "given" =>
        \A r, s \in PickRows :
            answer.given[s] > 0 /\ r.lot.expires < s.lot.expires => LeftOf(r) = 0

(* What can be had of a row: its free stock, and if all of it is in lots   *)
(* no more than is in them.                                                *)
Least(m, n) == IF m <= n THEN m ELSE n
InLots(i) == SumOf([n \in DOMAIN LotsOf(i) |-> LotsOf(i)[n].quantity], DOMAIN LotsOf(i))
Reachable(i) ==
    IF Unlotted \in {LotsOf(i)[n] : n \in DOMAIN LotsOf(i)} THEN Free(i) ELSE Least(Free(i), InLots(i))

(* All that is asked for is found, or every location gives what can be had *)
(* of any of its rows, which is all there is where it has only one; and no *)
(* row more than can be had.  Only then is an answer not sufficient.       *)
FindsWhatThereIs ==
    answer.at = "given" =>
        /\ answer.total = SumOf(answer.given, PickRows)
        /\ \A i \in Rows : GivenOf(i) <= Reachable(i)
        /\ answer.requested <= 0 \/ ~answer.sufficient =>
               \A i \in Rows : Reachable(i) <= GivenAt(LocationOf[i])
        /\ answer.requested > 0 =>
               answer.total <= answer.requested /\ (answer.sufficient <=> answer.total = answer.requested)
================================================================================

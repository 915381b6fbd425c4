--------------------------- MODULE StockMovesProofs ---------------------------
(***************************************************************************)
(* However transfers, adjustments, manual writes, imports and picking      *)
(* interleave, for any number of them, of rows and of locations: at every  *)
(* location whose account nothing spoils, the movements explain the stock  *)
(* and what picking holds is reserved and covered by the stock.            *)
(***************************************************************************)
EXTENDS StockMoves, FiniteSetTheorems, SequenceTheorems, WellFoundedInduction, TLAPS

-----------------------------------------------------------------------------
(* The inductive invariant.  What an open transfer has written is locked,  *)
(* so it differs from the committed rows by what the transfer moved so     *)
(* far; a request that remembers a row knows where it is, or was, for ids  *)
(* are not reused.                                                         *)

Line == Nat \ {0}
File == Seq([at : Locations, quantity : Int])
Header == [status : Statuses, from : Locations, to : Locations, lines : Seq(Line)]
OpenTransfer ==
    [op : {"transfer"}, transfer : Transfers, from : Locations, to : Locations, todo : Seq(Line),
     moved : Nat, read : {<<>>, <<0, NoRow>>} \cup (Ids \X Row),
     written : UNION {[S -> Row] : S \in SUBSET Ids}, overwrote : BOOLEAN]

StockTypes ==
    /\ rows \in [Ids -> Row \cup {NoRow}]
    /\ held \in [Locations -> 0 .. MaxHeld] /\ ledger \in [Locations -> Int]
    /\ loose \subseteq Locations /\ spoilt \subseteq Locations

HeaderInv ==
    /\ transfer \in [Transfers -> Header \cup {NoTransfer}]
    /\ \A t \in Transfers : transfer[t] # NoTransfer => transfer[t].from # transfer[t].to

(* The rows a client remembers, and where they are.                        *)
Claims(c, id, l) ==
    \/ tx[c].op = "adjust" /\ tx[c].id = id /\ tx[c].row.at = l
    \/ tx[c].op = "transfer" /\ id \in DOMAIN tx[c].written /\ tx[c].written[id].at = l
    \/ tx[c].op = "transfer" /\ tx[c].read # <<>> /\ tx[c].read[1] = id /\ tx[c].to = l

ClaimsInv ==
    \A c \in Clients, id \in Ids, l \in Locations : Claims(c, id, l) =>
        /\ rows[id].at \in {"nowhere", l}
        /\ \A d \in Clients, k \in Locations : Claims(d, id, k) => k = l

LocksInv ==
    \A c, d \in Clients : c # d => DOMAIN Written(c) \cap DOMAIN Written(d) = {}

RequestInv(c) ==
    /\ tx[c].op \in {"none", "transfer", "adjust", "count", "create", "import", "update"}
    /\ tx[c].op = "adjust" =>
        /\ tx[c].id \in Ids /\ tx[c].row \in Row /\ tx[c].change \in Int /\ tx[c].counted \in BOOLEAN
        /\ ~tx[c].counted => AdjustmentAllowed(tx[c].row, tx[c].change)
    /\ tx[c].op = "count" => tx[c].at \in Locations /\ tx[c].change \in Int
    /\ tx[c].op = "create" => tx[c].at \in Locations /\ tx[c].quantity \in Int
    /\ tx[c].op \in {"create", "import"} => tx[c].todo \in File
    /\ tx[c].op = "update" => tx[c].id \in Ids /\ tx[c].quantity \in Int /\ tx[c].reserved \in Nat

(* What a transfer took from the source so far.                            *)
Taken(x) == IF x.read = <<>> THEN x.moved ELSE x.moved + Head(x.todo)

(* What it wrote at a location.                                            *)
WrittenAt(x, l) == {id \in DOMAIN x.written : x.written[id].at = l}

TransferInv(x) ==
    /\ x \in OpenTransfer /\ x.from # x.to
    /\ x.todo = <<>> => x.read = <<>> /\ x.moved # 0
    /\ x.read = <<0, NoRow>> => x.moved = 0
    /\ x.read # <<>> /\ x.read # <<0, NoRow>> => x.read[2].at = x.to
    /\ DOMAIN x.written = WrittenAt(x, x.from) \cup WrittenAt(x, x.to)
    /\ Taken(x) = 0 => DOMAIN x.written = {}
    /\ x.moved = 0 <=> WrittenAt(x, x.to) = {}
    /\ \A id \in WrittenAt(x, x.from) : rows[id].at = x.from

SourceInv(x) ==
    x.from \notin spoilt /\ Taken(x) # 0 =>
        /\ At(rows, x.from) # {}
        /\ \A id \in At(rows, x.from) :
            /\ id \in DOMAIN x.written
            /\ x.written[id] = [rows[id] EXCEPT !.quantity = @ - Taken(x)]
            /\ rows[id].reserved <= x.written[id].quantity

DestinationInv(x) ==
    ~x.overwrote => \A id \in WrittenAt(x, x.to) :
        WrittenAt(x, x.to) = {id} =>
            x.written[id] = [at |-> x.to, quantity |-> rows[id].quantity + x.moved,
                             reserved |-> rows[id].reserved]

AccountInv(l) ==
    /\ \A i, j \in At(rows, l) : i = j
    /\ \A id \in At(rows, l) :
        /\ rows[id].quantity = ledger[l]
        /\ l \notin loose => rows[id].reserved = held[l] /\ held[l] <= ledger[l]
    /\ At(rows, l) = {} => ledger[l] = 0 /\ (l \notin loose => held[l] = 0)

OpenInv(c) ==
    tx[c].op = "transfer" => TransferInv(tx[c]) /\ SourceInv(tx[c]) /\ DestinationInv(tx[c])

MovesInv ==
    /\ StockTypes /\ HeaderInv /\ tx = [c \in Clients |-> tx[c]]
    /\ ClaimsInv /\ LocksInv
    /\ \A c \in Clients : RequestInv(c) /\ OpenInv(c)
    /\ \A l \in Locations \ spoilt : AccountInv(l)

-----------------------------------------------------------------------------
(* Rows at a location.                                                     *)

(* The query for one row finds a row when there is one.                    *)
LEMMA LeastIsIn ==
    ASSUME NEW S, S \subseteq Nat, S # {}
    PROVE  Min(S) \in S
<1>. DEFINE less == {p \in Nat \X Nat : p[1] < p[2]}
<1>1. IsWellFoundedOn(less, Nat)
  BY NatLessThanWellFounded DEF OpToRel
<1>2. \E x \in S : \A y \in S : ~ (<<y, x>> \in less)
  <2>. HIDE DEF less
  <2>. QED
    BY <1>1, WFMin, Zenon
<1>3. \A x, y \in Nat : <<y, x>> \in less <=> y < x
  OBVIOUS
<1>4. \A x, y \in S : ~ (<<y, x>> \in less) => x <= y
  BY <1>3
<1>5. \E x \in S : \A y \in S : x <= y
  BY <1>2, <1>4, Zenon
<1>. QED
  BY <1>5 DEF Min

(* More than one row is two or more.                                       *)
LEMMA TwoRows ==
    ASSUME MovesAssumption, NEW table, DOMAIN table = Ids, NEW l,
           Cardinality(At(table, l)) <= 1
    PROVE  \A i, j \in At(table, l) : i = j
<1>. SUFFICES ASSUME NEW i \in At(table, l), NEW j \in At(table, l), i # j
              PROVE  FALSE
  OBVIOUS
<1>1. IsFiniteSet(At(table, l)) /\ Cardinality(At(table, l)) \in Nat
  BY FS_Subset, FS_CardinalityType DEF MovesAssumption, At
<1>2. Cardinality({i, j}) = 2
  <2>1. IsFiniteSet({i}) /\ Cardinality({i}) = 1
    BY FS_Singleton
  <2>2. Cardinality({i} \cup {j}) = 2
    BY <2>1, FS_AddElement, 1 + 1 = 2
  <2>. QED
    BY <2>2
<1>3. Cardinality({i, j}) <= Cardinality(At(table, l))
  BY <1>1, FS_Subset
<1>. QED
  BY <1>1, <1>2, <1>3

(* No location is nowhere, so a row somewhere is a row.                    *)
LEMMA RowIsSomewhere ==
    ASSUME MovesInv, NEW id \in Ids
    PROVE  /\ rows[id] \in Row \/ rows[id] = NoRow
           /\ rows[id].quantity \in Int /\ rows[id].reserved \in Nat
           /\ \A l \in Locations : l # "nowhere"
           /\ \A l \in Locations : id \in At(rows, l) <=> rows[id].at = l
           /\ \A l \in Locations : rows[id].at = l => rows[id] \in Row
           /\ rows[id].at = "nowhere" <=> rows[id] = NoRow
BY MovesAssumption DEF MovesInv, StockTypes, Row, NoRow, At

-----------------------------------------------------------------------------
(* A step of one client.                                                   *)
LEMMA OneRequest ==
    ASSUME MovesInv, NEW c \in Clients, NEW x, tx' = [tx EXCEPT ![c] = x]
    PROVE  /\ tx'[c] = x
           /\ \A d \in Clients \ {c} : tx'[d] = tx[d]
           /\ tx' = [d \in Clients |-> tx'[d]]
<1>1. tx' = [d \in Clients |-> IF d = c THEN x ELSE tx[d]]
  BY DEF MovesInv
<1>. QED
  BY <1>1

(* A step that only changes what one request remembers and has written     *)
(* keeps the invariant, when the rows it remembers are where it thinks and *)
(* nobody else has locked them.                                            *)
LEMMA RequestMoves ==
    ASSUME MovesInv, NEW c \in Clients, NEW x, tx' = [tx EXCEPT ![c] = x],
           UNCHANGED stock, HeaderInv', RequestInv(c)', OpenInv(c)',
           \A id \in Ids, l \in Locations : Claims(c, id, l)' =>
              /\ rows[id].at \in {"nowhere", l}
              /\ \A d \in Clients \ {c}, k \in Locations : Claims(d, id, k) => k = l
              /\ \A k \in Locations : Claims(c, id, k)' => k = l,
           \A d \in Clients \ {c} : DOMAIN Written(c)' \cap DOMAIN Written(d) = {}
    PROVE  MovesInv'
<1>1. /\ tx'[c] = x
      /\ \A d \in Clients \ {c} : tx'[d] = tx[d]
      /\ tx' = [d \in Clients |-> tx'[d]]
  BY OneRequest
<1>2. /\ rows' = rows /\ held' = held /\ loose' = loose
      /\ ledger' = ledger /\ spoilt' = spoilt
  BY DEF stock, picking
<1>3. StockTypes'
  BY <1>2 DEF MovesInv, StockTypes
<1>4. ASSUME NEW d \in Clients PROVE RequestInv(d)' /\ OpenInv(d)'
  <2>1. CASE d = c
    BY <2>1
  <2>2. CASE d # c
    <3>1. tx'[d] = tx[d] /\ RequestInv(d) /\ OpenInv(d)
      BY <1>1, <2>2 DEF MovesInv
    <3>2. RequestInv(d)'
      BY <3>1 DEF RequestInv
    <3>3. OpenInv(d)'
      BY <3>1, <1>2 DEF OpenInv, TransferInv, SourceInv, DestinationInv, At
    <3>. QED
      BY <3>2, <3>3
  <2>. QED
    BY <2>1, <2>2
<1>5. \A d \in Clients \ {c} : /\ DOMAIN Written(d)' = DOMAIN Written(d)
                               /\ \A id \in Ids, l \in Locations : Claims(d, id, l)' <=> Claims(d, id, l)
  BY <1>1 DEF Written, Claims
<1>6. LocksInv'
  BY <1>5 DEF LocksInv, MovesInv
<1>7. ClaimsInv'
  <2>. SUFFICES ASSUME NEW d \in Clients, NEW id \in Ids, NEW l \in Locations, Claims(d, id, l)'
                PROVE  /\ rows'[id].at \in {"nowhere", l}
                       /\ \A e \in Clients, k \in Locations : Claims(e, id, k)' => k = l
    BY DEF ClaimsInv
  <2>1. CASE d = c
    BY <1>2, <1>5, <2>1
  <2>2. CASE d # c
    BY <1>2, <1>5, <2>2 DEF ClaimsInv, MovesInv
  <2>. QED
    BY <2>1, <2>2
<1>8. \A l \in Locations \ spoilt' : AccountInv(l)'
  BY <1>2 DEF MovesInv, AccountInv, At
<1>. QED
  BY <1>1, <1>3, <1>4, <1>6, <1>7, <1>8 DEF MovesInv

(* A step that changes rows keeps it, when no row changes that an open     *)
(* transfer wrote, none moves, and the accounts stay right.                *)
LEMMA RowsChange ==
    ASSUME MovesInv, StockTypes', HeaderInv', tx' = [d \in Clients |-> tx'[d]],
           spoilt \subseteq spoilt',
           \A d \in Clients : \/ tx'[d] = tx[d]
                              \/ tx'[d].op \in {"none", "import"} /\ RequestInv(d)',
           \A d \in Clients : tx'[d] = tx[d] =>
              /\ \A id \in DOMAIN Written(d) : rows'[id] = rows[id]
              /\ \A id \in Ids, l \in Locations : Claims(d, id, l) => rows'[id].at \in {"nowhere", l},
           \A l \in Locations \ spoilt' : AccountInv(l)'
    PROVE  MovesInv'
<1>1. ASSUME NEW d \in Clients PROVE RequestInv(d)' /\ OpenInv(d)'
  <2>1. CASE tx'[d] # tx[d]
    BY <2>1 DEF OpenInv
  <2>2. CASE tx'[d] = tx[d]
    <3>1. RequestInv(d)'
      BY <2>2 DEF MovesInv, RequestInv
    <3>2. ASSUME tx[d].op = "transfer" PROVE (TransferInv(tx[d]) /\ SourceInv(tx[d]) /\ DestinationInv(tx[d]))'
      <4>. PICK x : x = tx[d]
        OBVIOUS
      <4>1. \A id \in DOMAIN x.written : rows'[id] = rows[id]
        BY <2>2, <3>2 DEF Written
      <4>2. TransferInv(x) /\ SourceInv(x) /\ DestinationInv(x)
        BY <3>2 DEF MovesInv, OpenInv
      <4>3. tx'[d] = x /\ x.from \in Locations /\ DOMAIN x.written \subseteq Ids
        BY <2>2, <4>2 DEF TransferInv, OpenTransfer
      <4>4. TransferInv(x)'
        BY <4>1, <4>2 DEF TransferInv, WrittenAt
      <4>5. DestinationInv(x)'
        BY <4>1, <4>2 DEF DestinationInv, WrittenAt
      <4>6. SourceInv(x)'
        <5>. SUFFICES ASSUME x.from \notin spoilt', Taken(x) # 0
                      PROVE  /\ At(rows', x.from) # {}
                             /\ \A id \in At(rows', x.from) :
                                 /\ id \in DOMAIN x.written
                                 /\ x.written[id] = [rows'[id] EXCEPT !.quantity = @ - Taken(x)]
                                 /\ rows'[id].reserved <= x.written[id].quantity
          BY DEF SourceInv
        <5>1. x.from \notin spoilt
          OBVIOUS
        <5>2. PICK i \in At(rows, x.from) : TRUE
          BY <4>2, <5>1 DEF SourceInv
        <5>3. /\ i \in DOMAIN x.written
              /\ x.written[i] = [rows[i] EXCEPT !.quantity = @ - Taken(x)]
              /\ rows[i].reserved <= x.written[i].quantity
          BY <4>2, <5>1, <5>2 DEF SourceInv
        <5>4. i \in At(rows', x.from) /\ rows'[i] = rows[i]
          BY <4>1, <4>3, <5>2, <5>3 DEF At, StockTypes
        <5>5. \A j \in At(rows', x.from) : j = i
          BY <4>3, <5>4 DEF AccountInv
        <5>. QED
          BY <5>3, <5>4, <5>5
      <4>. QED
        BY <4>3, <4>4, <4>5, <4>6
    <3>. QED
      BY <2>2, <3>1, <3>2 DEF OpenInv
  <2>. QED
    BY <2>1, <2>2
<1>2. \A d \in Clients : DOMAIN Written(d)' = DOMAIN Written(d) \/ DOMAIN Written(d)' = {}
  BY DEF Written
<1>3. \A d \in Clients, id \in Ids, l \in Locations :
          Claims(d, id, l)' => tx'[d] = tx[d] /\ Claims(d, id, l)
  BY DEF Claims
<1>4. LocksInv'
  BY <1>2 DEF LocksInv, MovesInv
<1>5. ClaimsInv'
  BY <1>3 DEF ClaimsInv, MovesInv
<1>. QED
  BY <1>1, <1>4, <1>5 DEF MovesInv

-----------------------------------------------------------------------------
(* At first every row is the only one at its location.                     *)
LEMMA InitMovesInv == Init => MovesInv
<1>. SUFFICES ASSUME Init PROVE MovesInv
  OBVIOUS
<1>. USE MovesAssumption DEF Init
<1>1. PICK idOf \in [Locations -> Ids] :
        /\ \A k, l \in Locations : idOf[k] = idOf[l] => k = l
        /\ rows = [id \in Ids |->
            IF \E l \in Locations : idOf[l] = id /\ InitialStock[l] > 0
            THEN LET l == CHOOSE l \in Locations : idOf[l] = id
                 IN  [at |-> l, quantity |-> InitialStock[l], reserved |-> 0]
            ELSE NoRow]
  OBVIOUS
<1>2. ASSUME NEW id \in Ids
      PROVE  \/ rows[id] = NoRow /\ \A l \in Locations : idOf[l] = id => InitialStock[l] = 0
             \/ \E l \in Locations : /\ idOf[l] = id
                                     /\ rows[id] = [at |-> l, quantity |-> InitialStock[l], reserved |-> 0]
  <2>1. CASE \E l \in Locations : idOf[l] = id /\ InitialStock[l] > 0
    <3>1. PICK l \in Locations : idOf[l] = id
      BY <2>1
    <3>2. (CHOOSE k \in Locations : idOf[k] = id) = l
      BY <1>1, <3>1
    <3>. QED
      BY <1>1, <2>1, <3>1, <3>2
  <2>2. CASE ~ \E l \in Locations : idOf[l] = id /\ InitialStock[l] > 0
    <3>1. rows[id] = NoRow
      BY <1>1, <2>2
    <3>2. \A l \in Locations : InitialStock[l] \in Nat
      OBVIOUS
    <3>. QED
      BY <2>2, <3>1, <3>2
  <2>. QED
    BY <2>1, <2>2
<1>3. StockTypes
  <2>1. \A id \in Ids : rows[id] \in Row \cup {NoRow}
    BY <1>2 DEF Row
  <2>2. rows = [id \in Ids |-> rows[id]]
    BY <1>1
  <2>. QED
    BY <2>1, <2>2 DEF StockTypes
<1>4. HeaderInv
  BY DEF HeaderInv, NoTransfer
<1>5. \A c \in Clients : tx[c].op = "none"
  BY DEF NoTx
<1>6. ClaimsInv /\ LocksInv
  BY <1>5 DEF ClaimsInv, Claims, LocksInv, Written
<1>7. \A c \in Clients : RequestInv(c) /\ OpenInv(c)
  BY <1>5 DEF RequestInv, OpenInv
<1>8. ASSUME NEW l \in Locations PROVE AccountInv(l)
  <2>1. \A id \in At(rows, l) : id = idOf[l] /\ rows[id].quantity = InitialStock[l] /\ rows[id].reserved = 0
    <3>. SUFFICES ASSUME NEW id \in Ids, rows[id].at = l
                  PROVE  id = idOf[l] /\ rows[id].quantity = InitialStock[l] /\ rows[id].reserved = 0
      BY <1>3 DEF At, StockTypes
    <3>1. rows[id] # NoRow
      BY DEF NoRow
    <3>2. PICK k \in Locations :
              idOf[k] = id /\ rows[id] = [at |-> k, quantity |-> InitialStock[k], reserved |-> 0]
      BY <1>2, <3>1
    <3>. QED
      BY <3>2
  <2>2. At(rows, l) = {} => InitialStock[l] = 0
    <3>. SUFFICES ASSUME At(rows, l) = {} PROVE InitialStock[l] = 0
      OBVIOUS
    <3>1. idOf[l] \in Ids /\ rows[idOf[l]].at # l
      BY <1>3 DEF At, StockTypes
    <3>2. ASSUME NEW k \in Locations, idOf[k] = idOf[l] PROVE k = l
      BY <1>1, <3>2
    <3>3. CASE \A k \in Locations : idOf[k] = idOf[l] => InitialStock[k] = 0
      BY <3>3
    <3>4. CASE \E k \in Locations : /\ idOf[k] = idOf[l]
                                    /\ rows[idOf[l]] = [at |-> k, quantity |-> InitialStock[k], reserved |-> 0]
      BY <3>1, <3>2, <3>4
    <3>. QED
      BY <1>2, <3>1, <3>3, <3>4
  <2>. QED
    <3>1. ledger[l] = InitialStock[l] /\ held[l] = 0 /\ InitialStock[l] \in Nat
      OBVIOUS
    <3>2. \A i, j \in At(rows, l) : i = j
      <4>1. \A i \in At(rows, l) : i = idOf[l]
        BY <2>1
      <4>. QED
        BY <4>1
    <3>3. \A id \in At(rows, l) : rows[id].quantity = ledger[l] /\ rows[id].reserved = held[l]
      BY <2>1, <3>1
    <3>4. held[l] <= ledger[l] /\ (At(rows, l) = {} => ledger[l] = 0)
      BY <2>2, <3>1
    <3>. QED
      BY <3>1, <3>2, <3>3, <3>4 DEF AccountInv
<1>. QED
  BY <1>3, <1>4, <1>6, <1>7, <1>8 DEF MovesInv

-----------------------------------------------------------------------------
(* Requests that begin, end or go on without touching a row.               *)

(* Nothing depends on the headers but their own form.                      *)
LEMMA HeaderChanges ==
    ASSUME MovesInv, HeaderInv', UNCHANGED <<stock, tx>>
    PROVE  MovesInv'
<1>1. /\ rows' = rows /\ held' = held /\ loose' = loose
      /\ ledger' = ledger /\ spoilt' = spoilt /\ tx' = tx
  BY DEF stock, picking
<1>2. StockTypes' /\ ClaimsInv' /\ LocksInv'
  BY <1>1 DEF MovesInv, StockTypes, ClaimsInv, Claims, LocksInv, Written
<1>3. \A c \in Clients : RequestInv(c)' /\ OpenInv(c)'
  BY <1>1 DEF MovesInv, RequestInv, OpenInv, TransferInv, SourceInv, DestinationInv, At
<1>4. \A l \in Locations \ spoilt' : AccountInv(l)'
  BY <1>1 DEF MovesInv, AccountInv, At
<1>. QED
  BY <1>1, <1>2, <1>3, <1>4 DEF MovesInv

(* Every edit of a transfer's header or lines leaves a header.             *)
LEMMA EditTransferStep ==
    ASSUME MovesInv, NEW t \in Transfers, EditTransfer(t)
    PROVE  MovesInv'
<1>1. HeaderInv
  BY DEF MovesInv
<1>2. ASSUME NEW value \in Header \cup {NoTransfer}, value # NoTransfer => value.from # value.to,
             SetTransfer(t, value)
      PROVE  MovesInv'
  <2>1. HeaderInv'
    BY <1>1, <1>2 DEF HeaderInv, SetTransfer
  <2>. QED
    BY <1>2, <2>1, HeaderChanges DEF SetTransfer
<1>3. ASSUME NEW from \in Locations, NEW to \in Locations, NEW lines \in LineChoices,
             CreateStockTransfer(t, from, to, lines)
      PROVE  MovesInv'
  <2>1. PICK n \in 0 .. Len(lines) : SetTransfer(t,
            [status |-> "draft", from |-> from, to |-> to, lines |-> SubSeq(lines, 1, n)])
    BY <1>3 DEF CreateStockTransfer
  <2>2. lines \in Seq(Line)
    BY MovesAssumption DEF Line
  <2>3. SubSeq(lines, 1, n) \in Seq(Line)
    BY <2>2
  <2>. QED
    BY <1>2, <1>3, <2>1, <2>3 DEF CreateStockTransfer, Header, Statuses
<1>4. ASSUME NEW from \in Locations, NEW to \in Locations, NEW status \in Statuses,
             UpdateStockTransfer(t, from, to, status)
      PROVE  MovesInv'
  BY <1>1, <1>2, <1>4 DEF UpdateStockTransfer, Header, HeaderInv
<1>5. ASSUME DeleteStockTransfer(t) PROVE MovesInv'
  BY <1>2, <1>5 DEF DeleteStockTransfer
<1>6. ASSUME NEW lines \in LineChoices \cup {<<>>}, EditLine(t, lines) PROVE MovesInv'
  <2>1. lines \in Seq(Line)
    <3>1. <<>> \in Seq(Line) /\ LineChoices \subseteq Seq(Line)
      BY MovesAssumption DEF Line
    <3>. QED
      BY <3>1, <1>6
  <2>. QED
    BY <1>1, <1>2, <1>6, <2>1 DEF EditLine, Header, HeaderInv
<1>. QED
  BY <1>3, <1>4, <1>5, <1>6 DEF EditTransfer

(* A request that remembers no row.                                        *)
LEMMA RemembersNothing ==
    ASSUME MovesInv, NEW c \in Clients, NEW x, tx' = [tx EXCEPT ![c] = x],
           UNCHANGED <<stock, transfer>>, x.op \notin {"transfer", "adjust"}, RequestInv(c)'
    PROVE  MovesInv'
<1>1. tx'[c] = x
  BY OneRequest
<1>2. HeaderInv'
  BY DEF MovesInv, HeaderInv
<1>3. OpenInv(c)'
  BY <1>1 DEF OpenInv
<1>4. \A id \in Ids, l \in Locations : ~Claims(c, id, l)'
  BY <1>1 DEF Claims
<1>5. DOMAIN Written(c)' = {}
  BY <1>1 DEF Written
<1>. QED
  BY <1>2, <1>3, <1>4, <1>5, RequestMoves

(* A rollback leaves what the transaction wrote unwritten.                 *)
LEMMA RollbackStep ==
    ASSUME MovesInv, NEW c \in Clients, Rollback(c)
    PROVE  MovesInv'
<1>1. tx'[c] = NoTx /\ tx' = [tx EXCEPT ![c] = NoTx]
  BY OneRequest DEF Rollback
<1>2. RequestInv(c)'
  BY <1>1 DEF RequestInv, NoTx
<1>. QED
  BY <1>1, <1>2, RemembersNothing DEF Rollback, NoTx

(* An import takes its rows one by one, a row being a creation.            *)
LEMMA ImportStep ==
    ASSUME MovesInv, NEW c \in Clients, NEW file \in FileChoices,
           ImportInventoryFromExcel(c, file) \/ ImportInventoryFromJSON(c, file)
    PROVE  MovesInv'
<1>1. PICK skips \in BOOLEAN : Begin(c, [op |-> "import", todo |-> file, skips |-> skips])
  BY DEF ImportInventoryFromExcel, ImportInventoryFromJSON
<1>. DEFINE x == [op |-> "import", todo |-> file, skips |-> skips]
<1>2. x.op = "import" /\ x.todo = file /\ file \in File
  BY MovesAssumption DEF File
<1>3. tx' = [tx EXCEPT ![c] = x]
  BY <1>1 DEF Begin
<1>. HIDE DEF x
<1>4. tx'[c] = x
  BY <1>3, OneRequest
<1>5. RequestInv(c)'
  BY <1>2, <1>4 DEF RequestInv
<1>. QED
  BY <1>1, <1>2, <1>3, <1>5, RemembersNothing DEF Begin

(* A row that is skipped, refused or about to be created.                  *)
LEMMA ImportRowStep ==
    ASSUME MovesInv, NEW c \in Clients, ImportRow(c)
    PROVE  MovesInv'
<1>. PICK x : x = tx[c]
  OBVIOUS
<1>1. x.op = "import" /\ x.todo \in File
  BY DEF MovesInv, RequestInv, ImportRow
<1>2. x.todo # <<>> => /\ Head(x.todo).at \in Locations /\ Head(x.todo).quantity \in Int
                       /\ Tail(x.todo) \in File
  <2>. SUFFICES ASSUME x.todo # <<>>
                PROVE  /\ Head(x.todo).at \in Locations /\ Head(x.todo).quantity \in Int
                       /\ Tail(x.todo) \in File
    OBVIOUS
  <2>1. Head(x.todo) \in [at : Locations, quantity : Int] /\ Tail(x.todo) \in File
    BY <1>1, HeadTailProperties DEF File
  <2>. QED
    BY <2>1
<1>3. PICK y : tx' = [tx EXCEPT ![c] = y] /\
        (\/ y = NoTx
         \/ x.todo # <<>> /\ y = [op |-> "import", todo |-> Tail(x.todo), skips |-> TRUE]
         \/ x.todo # <<>> /\ y = [op |-> "create", at |-> Head(x.todo).at,
                                  quantity |-> Head(x.todo).quantity,
                                  todo |-> Tail(x.todo), skips |-> x.skips])
  BY DEF ImportRow, MovesInv
<1>4. tx'[c] = y
  BY <1>3, OneRequest
<1>5. \/ y.op = "none"
      \/ y.op = "import" /\ y.todo \in File
      \/ y.op = "create" /\ y.at \in Locations /\ y.quantity \in Int /\ y.todo \in File
  <2>1. CASE y = NoTx
    BY <2>1 DEF NoTx
  <2>2. CASE x.todo # <<>> /\ y = [op |-> "import", todo |-> Tail(x.todo), skips |-> TRUE]
    BY <1>2, <2>2
  <2>3. CASE x.todo # <<>> /\ y = [op |-> "create", at |-> Head(x.todo).at,
                                   quantity |-> Head(x.todo).quantity,
                                   todo |-> Tail(x.todo), skips |-> x.skips]
    BY <1>2, <2>3
  <2>. QED
    BY <1>3, <2>1, <2>2, <2>3
<1>6. RequestInv(c)' /\ y.op \notin {"transfer", "adjust"}
  BY <1>4, <1>5 DEF RequestInv
<1>. QED
  BY <1>3, <1>6, RemembersNothing DEF ImportRow

(* A query for one row.                                                    *)
LEMMA FirstIsThere ==
    ASSUME MovesInv, NEW l \in Locations, At(rows, l) # {}
    PROVE  /\ First(rows, l) \in Ids /\ First(rows, l) \in At(rows, l)
           /\ rows[First(rows, l)].at = l /\ rows[First(rows, l)] \in Row
<1>1. At(rows, l) \subseteq Ids /\ Ids \subseteq Nat
  BY MovesAssumption DEF At, MovesInv, StockTypes
<1>2. First(rows, l) \in At(rows, l)
  BY <1>1, LeastIsIn DEF First
<1>. QED
  BY <1>1, <1>2, RowIsSomewhere

(* An adjustment remembers a row that is where it says.                    *)
LEMMA AdjustReads ==
    ASSUME MovesInv, NEW c \in Clients, NEW l \in Locations, At(rows, l) # {},
           NEW change \in Int, NEW counted \in BOOLEAN,
           ~counted => AdjustmentAllowed(rows[First(rows, l)], change),
           tx' = [tx EXCEPT ![c] = ReadToAdjust(l, change, counted)],
           UNCHANGED <<stock, transfer>>
    PROVE  MovesInv'
<1>. PICK id : id = First(rows, l)
  OBVIOUS
<1>. PICK row : row = rows[id]
  OBVIOUS
<1>. DEFINE x == [op |-> "adjust", id |-> id, row |-> row, change |-> change, counted |-> counted]
<1>1. id \in Ids /\ row \in Row /\ row.at = l
  BY FirstIsThere
<1>2. x = ReadToAdjust(l, change, counted)
  BY DEF ReadToAdjust
<1>3. x.op = "adjust" /\ x.id = id /\ x.row = row /\ x.change = change /\ x.counted = counted
  OBVIOUS
<1>. HIDE DEF x
<1>4. tx'[c] = x
  BY <1>2, OneRequest
<1>5. ~x.counted => AdjustmentAllowed(row, change)
  BY <1>3
<1>6. RequestInv(c)'
  BY <1>1, <1>3, <1>4, <1>5 DEF RequestInv
<1>7. OpenInv(c)' /\ DOMAIN Written(c)' = {}
  BY <1>3, <1>4 DEF OpenInv, Written
<1>8. HeaderInv'
  BY DEF MovesInv, HeaderInv
<1>9. ASSUME NEW i \in Ids, NEW k \in Locations, Claims(c, i, k)' PROVE i = id /\ k = l
  BY <1>1, <1>3, <1>4, <1>9 DEF Claims
<1>10. \A d \in Clients, k \in Locations : Claims(d, id, k) => k = l
  BY <1>1, RowIsSomewhere DEF MovesInv, ClaimsInv
<1>. QED
  BY <1>1, <1>2, <1>6, <1>7, <1>8, <1>9, <1>10, RequestMoves

(* Every request that begins by reading a row, or none.                    *)
LEMMA BeginStep ==
    ASSUME MovesInv, NEW c \in Clients, NEW l \in Locations, NEW n \in Amounts,
           \/ BeginAdjustment(c, l, n) \/ BeginAdjustment(c, l, -n)
           \/ BeginCount(c, l, n) \/ BeginCreate(c, l, n) \/ BeginUpdate(c, l, n)
    PROVE  MovesInv'
<1>1. n \in Nat /\ n # 0 /\ -n \in Int
  BY MovesAssumption
<1>2. ASSUME NEW change \in Int, BeginAdjustment(c, l, change) PROVE MovesInv'
  <2>1. /\ At(rows, l) # {} /\ AdjustmentAllowed(rows[First(rows, l)], change)
        /\ tx' = [tx EXCEPT ![c] = ReadToAdjust(l, change, FALSE)]
        /\ UNCHANGED <<stock, transfer>>
    BY <1>2 DEF BeginAdjustment, Begin
  <2>. QED
    BY <2>1, AdjustReads
<1>3. CASE BeginCount(c, l, n)
  <2>. DEFINE x == [op |-> "count", at |-> l, change |-> n - rows[First(rows, l)].quantity]
  <2>1. At(rows, l) # {} /\ tx' = [tx EXCEPT ![c] = x] /\ UNCHANGED <<stock, transfer>>
    BY <1>3 DEF BeginCount, Begin
  <2>2. rows[First(rows, l)].quantity \in Int
    BY <2>1, FirstIsThere DEF Row
  <2>3. x.op = "count" /\ x.at = l /\ x.change \in Int
    BY <1>1, <2>2
  <2>. HIDE DEF x
  <2>4. tx'[c] = x
    BY <2>1, OneRequest
  <2>5. RequestInv(c)'
    BY <2>3, <2>4 DEF RequestInv
  <2>. QED
    BY <2>1, <2>3, <2>5, RemembersNothing
<1>4. CASE BeginCreate(c, l, n)
  <2>. DEFINE x == [op |-> "create", at |-> l, quantity |-> n, todo |-> <<>>, skips |-> FALSE]
  <2>1. tx' = [tx EXCEPT ![c] = x] /\ UNCHANGED <<stock, transfer>>
    BY <1>4 DEF BeginCreate, Begin
  <2>2. <<>> \in File
    BY DEF File
  <2>3. x.op = "create" /\ x.at = l /\ x.quantity \in Int /\ x.todo \in File
    BY <1>1, <2>2
  <2>. HIDE DEF x
  <2>4. tx'[c] = x
    BY <2>1, OneRequest
  <2>5. RequestInv(c)'
    BY <2>3, <2>4 DEF RequestInv
  <2>. QED
    BY <2>1, <2>3, <2>5, RemembersNothing
<1>5. CASE BeginUpdate(c, l, n)
  <2>. PICK id : id = First(rows, l)
    OBVIOUS
  <2>. DEFINE x == [op |-> "update", id |-> id, quantity |-> n, reserved |-> rows[id].reserved]
  <2>1. At(rows, l) # {} /\ tx' = [tx EXCEPT ![c] = x] /\ UNCHANGED <<stock, transfer>>
    BY <1>5 DEF BeginUpdate, Begin
  <2>2. id \in Ids /\ rows[id].reserved \in Nat
    BY <2>1, FirstIsThere DEF Row
  <2>3. x.op = "update" /\ x.id \in Ids /\ x.quantity \in Int /\ x.reserved \in Nat
    BY <1>1, <2>2
  <2>. HIDE DEF x
  <2>4. tx'[c] = x
    BY <2>1, OneRequest
  <2>5. RequestInv(c)'
    BY <2>3, <2>4 DEF RequestInv
  <2>. QED
    BY <2>1, <2>3, <2>5, RemembersNothing
<1>. QED
  BY <1>1, <1>2, <1>3, <1>4, <1>5

(* The repository's read for a count.                                      *)
LEMMA ReadCountedStep ==
    ASSUME MovesInv, NEW c \in Clients, ReadCounted(c)
    PROVE  MovesInv'
<1>1. /\ tx[c].at \in Locations /\ tx[c].change \in Int /\ At(rows, tx[c].at) # {}
      /\ tx' = [tx EXCEPT ![c] = ReadToAdjust(tx[c].at, tx[c].change, TRUE)]
      /\ UNCHANGED <<stock, transfer>>
  BY DEF ReadCounted, MovesInv, RequestInv
<1>. QED
  BY <1>1, AdjustReads

(* ExecuteTransfer begins with the lines as they were before its           *)
(* transaction, and nothing written.                                       *)
LEMMA BeginTransferStep ==
    ASSUME MovesInv, NEW c \in Clients, NEW t \in Transfers, BeginTransfer(c, t)
    PROVE  MovesInv'
<1>. PICK header : header = transfer[t]
  OBVIOUS
<1>. DEFINE x == [op |-> "transfer", transfer |-> t, from |-> header.from,
                  to |-> header.to, todo |-> header.lines, moved |-> 0,
                  read |-> <<>>, written |-> <<>>, overwrote |-> FALSE]
<1>1. /\ header \in Header /\ header.from # header.to /\ header.lines # <<>>
      /\ tx' = [tx EXCEPT ![c] = x] /\ UNCHANGED <<stock, transfer>>
  BY DEF BeginTransfer, Begin, MovesInv, HeaderInv
<1>2. DOMAIN <<>> = {} /\ <<>> \in UNION {[S -> Row] : S \in SUBSET Ids}
  <2>1. <<>> \in [{} -> Row]
    OBVIOUS
  <2>. QED
    BY <2>1
<1>3. x \in OpenTransfer
  BY <1>1, <1>2 DEF OpenTransfer, Header
<1>4. /\ x.op = "transfer" /\ x.from # x.to /\ x.todo # <<>> /\ x.read = <<>> /\ x.moved = 0
      /\ x.written = <<>>
  BY <1>1
<1>. HIDE DEF x
<1>5. tx'[c] = x
  BY <1>1, OneRequest
<1>6. TransferInv(x)' /\ SourceInv(x)' /\ DestinationInv(x)'
  <2>1. WrittenAt(x, x.from) = {} /\ WrittenAt(x, x.to) = {} /\ Taken(x) = 0 /\ DOMAIN x.written = {}
    BY <1>2, <1>4 DEF WrittenAt, Taken
  <2>2. <<>> # <<0, NoRow>>
    OBVIOUS
  <2>. QED
    BY <1>1, <1>3, <1>4, <1>5, <2>1, <2>2 DEF TransferInv, SourceInv, DestinationInv
<1>7. RequestInv(c)' /\ OpenInv(c)'
  BY <1>4, <1>5, <1>6 DEF RequestInv, OpenInv
<1>8. HeaderInv'
  BY <1>1 DEF MovesInv, HeaderInv
<1>9. DOMAIN Written(c)' = {} /\ \A id \in Ids, l \in Locations : ~Claims(c, id, l)'
  BY <1>2, <1>4, <1>5 DEF Written, Claims
<1>. QED
  BY <1>1, <1>7, <1>8, <1>9, RequestMoves

-----------------------------------------------------------------------------
(* The statements of a transfer.                                           *)

(* A row that is committed at a location, or that someone remembers there, *)
(* is remembered nowhere else.                                             *)
LEMMA KnownPlace ==
    ASSUME MovesInv, NEW c \in Clients, NEW id \in Ids, NEW l \in Locations,
           rows[id].at = l \/ Claims(c, id, l)
    PROVE  /\ rows[id].at \in {"nowhere", l}
           /\ \A d \in Clients, k \in Locations : Claims(d, id, k) => k = l
<1>1. \A d \in Clients, k \in Locations : Claims(d, id, k) => rows[id].at \in {"nowhere", k}
  BY DEF MovesInv, ClaimsInv
<1>2. CASE rows[id].at = l
  BY <1>1, <1>2, RowIsSomewhere
<1>3. CASE Claims(c, id, l)
  BY <1>3 DEF MovesInv, ClaimsInv
<1>. QED
  BY <1>2, <1>3

(* What a transaction sees.                                                *)
LEMMA SeenIs ==
    ASSUME MovesInv, NEW c \in Clients, tx[c].op = "transfer"
    PROVE  /\ DOMAIN Seen(c) = Ids
           /\ \A id \in Ids :
                /\ Seen(c)[id] = IF id \in DOMAIN tx[c].written THEN tx[c].written[id] ELSE rows[id]
                /\ Seen(c)[id] \in Row \/ Seen(c)[id] = NoRow
                /\ \A l \in Locations : Seen(c)[id].at = l =>
                     /\ Seen(c)[id] \in Row
                     /\ rows[id].at = l \/ Claims(c, id, l)
<1>. PICK x : x = tx[c]
  OBVIOUS
<1>1. x \in OpenTransfer
  BY DEF MovesInv, OpenInv, TransferInv
<1>2. DOMAIN x.written \subseteq Ids /\ \A id \in DOMAIN x.written : x.written[id] \in Row
  BY <1>1 DEF OpenTransfer
<1>3. Written(c) = x.written /\ DOMAIN rows = Ids
  BY DEF Written, MovesInv, StockTypes
<1>4. DOMAIN Seen(c) = Ids
  BY <1>2, <1>3 DEF Seen, With
<1>5. ASSUME NEW id \in Ids
      PROVE  Seen(c)[id] = IF id \in DOMAIN x.written THEN x.written[id] ELSE rows[id]
  BY <1>2, <1>3 DEF Seen, With
<1>6. ASSUME NEW id \in Ids
      PROVE  Seen(c)[id] \in Row \/ Seen(c)[id] = NoRow
  BY <1>2, <1>5, RowIsSomewhere
<1>7. ASSUME NEW id \in Ids, NEW l \in Locations, Seen(c)[id].at = l
      PROVE  Seen(c)[id] \in Row /\ (rows[id].at = l \/ Claims(c, id, l))
  BY <1>2, <1>5, <1>6, <1>7, RowIsSomewhere DEF NoRow, Claims
<1>. QED
  BY <1>4, <1>5, <1>6, <1>7

(* Taking from the source locks every row there, keeps what is reserved,   *)
(* and remembers the row of the destination.                               *)
LEMMA TakeStep ==
    ASSUME MovesInv, NEW c \in Clients, TakeFromSource(c)
    PROVE  MovesInv'
<1>. PICK x : x = tx[c]
  OBVIOUS
<1>. PICK seen : seen = Seen(c)
  OBVIOUS
<1>. PICK n : n = Head(x.todo)
  OBVIOUS
<1>. DEFINE here == At(seen, x.from)
<1>. DEFINE After(id) == [seen EXCEPT ![id].quantity = @ - n]
            ReadOf(table) == IF At(table, x.to) = {} THEN <<0, NoRow>>
                             ELSE <<First(table, x.to), table[First(table, x.to)]>>
            Took(id) == [x EXCEPT !.written = [i \in here \cup DOMAIN x.written |-> After(id)[i]],
                                  !.read = ReadOf(After(id))]
<1>1. PICK id \in here : n <= Available(seen[id]) /\ tx' = [tx EXCEPT ![c] = Took(id)]
  <2>. DEFINE from == At(Seen(c), tx[c].from)
              Left(id) == [Seen(c) EXCEPT ![id].quantity = @ - Head(tx[c].todo)]
  <2>1. PICK id \in from :
            /\ Head(tx[c].todo) <= Available(Seen(c)[id])
            /\ tx' = [tx EXCEPT ![c] = [tx[c] EXCEPT
                   !.written = [i \in from \cup DOMAIN tx[c].written |-> Left(id)[i]],
                   !.read = IF At(Left(id), tx[c].to) = {} THEN <<0, NoRow>>
                            ELSE <<First(Left(id), tx[c].to), Left(id)[First(Left(id), tx[c].to)]>>]]
    BY DEF TakeFromSource
  <2>2. from = here /\ Left(id) = After(id)
    OBVIOUS
  <2>3. id \in here /\ n <= Available(seen[id])
    BY <2>1
  <2>4. tx' = [tx EXCEPT ![c] = Took(id)]
    <3>. DEFINE w == [i \in from \cup DOMAIN tx[c].written |-> Left(id)[i]]
                r == IF At(Left(id), tx[c].to) = {} THEN <<0, NoRow>>
                     ELSE <<First(Left(id), tx[c].to), Left(id)[First(Left(id), tx[c].to)]>>
    <3>1. tx' = [tx EXCEPT ![c] = [tx[c] EXCEPT !.written = w, !.read = r]]
      BY <2>1
    <3>2. w = [i \in here \cup DOMAIN x.written |-> After(id)[i]]
      BY <2>2
    <3>3. r = ReadOf(After(id))
      BY <2>2
    <3>. HIDE DEF w, r
    <3>. QED
      BY <3>1, <3>2, <3>3
  <2>. QED
    BY <2>3, <2>4
<1>2. /\ x.op = "transfer" /\ x.todo # <<>> /\ x.read = <<>> /\ CanLock(c, here)
      /\ UNCHANGED <<stock, transfer>>
  BY DEF TakeFromSource
<1>3. TransferInv(x) /\ SourceInv(x) /\ DestinationInv(x) /\ x \in OpenTransfer
  BY <1>2 DEF MovesInv, OpenInv, TransferInv
<1>4. /\ x.from \in Locations /\ x.to \in Locations /\ x.from # x.to /\ x.moved \in Nat
      /\ x.todo \in Seq(Line) /\ n \in Nat /\ n # 0 /\ x.overwrote \in BOOLEAN
      /\ DOMAIN x.written \subseteq Ids
  <2>1. n \in Line
    BY <1>2, <1>3, HeadTailProperties DEF OpenTransfer
  <2>. QED
    BY <1>2, <1>3, <2>1 DEF OpenTransfer, TransferInv, Line
<1>5. /\ DOMAIN seen = Ids
      /\ \A i \in Ids :
           /\ seen[i] = IF i \in DOMAIN x.written THEN x.written[i] ELSE rows[i]
           /\ seen[i] \in Row \/ seen[i] = NoRow
           /\ \A l \in Locations : seen[i].at = l =>
                seen[i] \in Row /\ (rows[i].at = l \/ Claims(c, i, l))
  BY <1>2, SeenIs
<1>. DEFINE now == After(id)
<1>6. /\ id \in Ids /\ seen[id].at = x.from /\ seen[id] \in Row
      /\ now = [i \in Ids |-> IF i = id THEN [seen[id] EXCEPT !.quantity = @ - n] ELSE seen[i]]
  BY <1>1, <1>4, <1>5 DEF At
<1>7. /\ now[id] \in Row /\ now[id].at = x.from
      /\ now[id].quantity = seen[id].quantity - n /\ now[id].reserved = seen[id].reserved
      /\ now[id] = [seen[id] EXCEPT !.quantity = @ - n]
      /\ \A i \in Ids \ {id} : now[i] = seen[i]
      /\ DOMAIN now = Ids
  BY <1>4, <1>6 DEF Row
<1>. DEFINE read == ReadOf(now)
            written == [i \in here \cup DOMAIN x.written |-> now[i]]
            y == [x EXCEPT !.written = written, !.read = read]
<1>8. tx' = [tx EXCEPT ![c] = y]
  BY <1>1
<1>. HIDE DEF now, After
<1>9. At(now, x.to) = At(seen, x.to)
  BY <1>4, <1>5, <1>6, <1>7 DEF At
<1>10. \/ read = <<0, NoRow>> /\ At(seen, x.to) = {}
       \/ \E to \in At(seen, x.to) : read = <<to, seen[to]>> /\ to \in Ids /\ seen[to].at = x.to
  <2>1. CASE At(seen, x.to) = {}
    BY <1>9, <2>1
  <2>2. CASE At(seen, x.to) # {}
    <3>1. At(seen, x.to) \subseteq Ids /\ Ids \subseteq Nat
      BY <1>5, MovesAssumption DEF At
    <3>2. First(now, x.to) \in At(seen, x.to)
      BY <1>9, <2>2, <3>1, LeastIsIn DEF First
    <3>3. now[First(now, x.to)] = seen[First(now, x.to)]
      BY <1>4, <1>6, <1>7, <3>1, <3>2 DEF At
    <3>. QED
      BY <1>9, <2>2, <3>1, <3>2, <3>3 DEF At
  <2>. QED
    BY <2>1, <2>2
<1>. HIDE DEF read
<1>11. here = At(rows, x.from) /\ here \subseteq Ids
  <2>1. \A i \in Ids : Claims(c, i, x.from) /\ i \in DOMAIN x.written => rows[i].at = x.from
    <3>. SUFFICES ASSUME NEW i \in Ids, Claims(c, i, x.from), i \in DOMAIN x.written
                  PROVE  rows[i].at = x.from
      OBVIOUS
    <3>1. i \in WrittenAt(x, x.from) \/ Claims(c, i, x.to)
      BY <1>2, <1>3 DEF TransferInv, WrittenAt, Claims
    <3>2. ~ Claims(c, i, x.to)
      BY <1>4, KnownPlace
    <3>. QED
      BY <1>3, <3>1, <3>2 DEF TransferInv
  <2>2. \A i \in Ids : seen[i].at = x.from => rows[i].at = x.from
    <3>. SUFFICES ASSUME NEW i \in Ids, seen[i].at = x.from PROVE rows[i].at = x.from
      OBVIOUS
    <3>1. CASE i \in DOMAIN x.written
      BY <1>3, <1>5, <3>1 DEF TransferInv, WrittenAt
    <3>2. CASE i \notin DOMAIN x.written
      BY <1>5, <3>2
    <3>. QED
      BY <3>1, <3>2
  <2>3. \A i \in Ids : rows[i].at = x.from => seen[i].at = x.from
    <3>. SUFFICES ASSUME NEW i \in Ids, rows[i].at = x.from PROVE seen[i].at = x.from
      OBVIOUS
    <3>1. CASE i \in DOMAIN x.written
      <4>1. i \in WrittenAt(x, x.from) \/ Claims(c, i, x.to)
        BY <1>2, <1>3, <3>1 DEF TransferInv, WrittenAt, Claims
      <4>2. ~ Claims(c, i, x.to)
        BY <1>4, KnownPlace
      <4>. QED
        BY <1>5, <3>1, <4>1, <4>2 DEF WrittenAt
    <3>2. CASE i \notin DOMAIN x.written
      BY <1>5, <3>2
    <3>. QED
      BY <3>1, <3>2
  <2>. QED
    BY <1>5, <2>2, <2>3 DEF At, MovesInv, StockTypes
<1>12. \A i \in here \cup DOMAIN x.written :
          /\ i \in Ids /\ written[i] = now[i] /\ written[i].at = seen[i].at /\ written[i] \in Row
  <2>1. \A i \in here \cup DOMAIN x.written : i \in Ids /\ seen[i] \in Row
    <3>1. \A i \in DOMAIN x.written : x.written[i] \in Row
      BY <1>3 DEF OpenTransfer
    <3>2. \A i \in here : i \in Ids /\ seen[i].at = x.from
      BY <1>5 DEF At
    <3>. QED
      BY <1>4, <1>5, <3>1, <3>2
  <2>. QED
    BY <1>6, <1>7, <2>1
<1>13. DOMAIN written = here \cup DOMAIN x.written
  OBVIOUS
<1>. HIDE DEF here, written
<1>14. y.op = "transfer" /\ y.transfer = x.transfer /\ y.from = x.from /\ y.to = x.to
       /\ y.todo = x.todo /\ y.moved = x.moved /\ y.read = read /\ y.written = written
       /\ (y.overwrote <=> x.overwrote) /\ y.overwrote \in BOOLEAN
  BY <1>3 DEF OpenTransfer
<1>15. y \in OpenTransfer
  <2>1. written \in [DOMAIN written -> Row] /\ DOMAIN written \subseteq Ids
    <3>1. written = [i \in DOMAIN written |-> written[i]]
      BY DEF written
    <3>. QED
      BY <1>12, <1>13, <3>1
  <2>2. written \in UNION {[S -> Row] : S \in SUBSET Ids}
    BY <2>1
  <2>3. read \in {<<>>, <<0, NoRow>>} \cup (Ids \X Row)
    BY <1>4, <1>5, <1>10
  <2>. QED
    BY <1>3, <2>2, <2>3 DEF OpenTransfer
<1>. HIDE DEF y
<1>16. WrittenAt(y, y.from) = here /\ WrittenAt(y, y.to) = WrittenAt(x, x.to)
  <2>1. ASSUME NEW i \in here \cup DOMAIN x.written
        PROVE  /\ written[i].at = x.from <=> i \in here
               /\ written[i].at = x.to <=> i \in WrittenAt(x, x.to)
    <3>1. written[i].at = seen[i].at /\ i \in Ids /\ (i \in here <=> seen[i].at = x.from)
      BY <1>5, <1>12 DEF At, here
    <3>2. i \in DOMAIN x.written => seen[i] = x.written[i]
      BY <1>5, <3>1
    <3>3. i \notin DOMAIN x.written => seen[i].at = x.from
      BY <3>1
    <3>. QED
      BY <1>4, <3>1, <3>2, <3>3 DEF WrittenAt
  <2>2. DOMAIN y.written = here \cup DOMAIN x.written
    BY <1>13, <1>14
  <2>. QED
    BY <1>14, <2>1, <2>2 DEF WrittenAt
<1>17. read # <<>> /\ Taken(y) = x.moved + n /\ Taken(x) = x.moved /\ Taken(y) # 0
  <2>1. read # <<>>
    <3>1. <<0, NoRow>> # <<>>
      OBVIOUS
    <3>2. \A to \in Ids : <<to, seen[to]>> # <<>>
      OBVIOUS
    <3>. QED
      BY <1>10, <3>1, <3>2
  <2>. QED
    BY <1>2, <1>4, <1>14, <2>1 DEF Taken
<1>18. tx'[c] = y /\ rows' = rows /\ spoilt' = spoilt
  BY <1>2, <1>8, OneRequest DEF stock
<1>19. TransferInv(y)
  <2>1. read = <<0, NoRow>> => x.moved = 0
    <3>. SUFFICES ASSUME read = <<0, NoRow>> PROVE WrittenAt(x, x.to) = {}
      BY <1>3 DEF TransferInv
    <3>1. At(seen, x.to) = {}
      BY <1>10, MovesAssumption
    <3>2. \A i \in WrittenAt(x, x.to) : i \in At(seen, x.to)
      BY <1>4, <1>5 DEF WrittenAt, At
    <3>. QED
      BY <3>1, <3>2
  <2>2. read # <<0, NoRow>> => read[2].at = x.to
    BY <1>10
  <2>3. DOMAIN y.written = WrittenAt(y, y.from) \cup WrittenAt(y, y.to)
    <3>1. DOMAIN x.written = WrittenAt(x, x.from) \cup WrittenAt(x, x.to)
      BY <1>3 DEF TransferInv
    <3>2. WrittenAt(x, x.from) \subseteq here
      BY <1>4, <1>5 DEF WrittenAt, here, At
    <3>. QED
      BY <1>13, <1>14, <1>16, <3>1, <3>2
  <2>4. \A i \in WrittenAt(y, y.from) : rows[i].at = y.from
    BY <1>11, <1>14, <1>16 DEF At
  <2>. QED
    BY <1>2, <1>3, <1>4, <1>14, <1>15, <1>16, <1>17, <2>1, <2>2, <2>3, <2>4 DEF TransferInv
<1>20. SourceInv(y)
  <2>. SUFFICES ASSUME x.from \notin spoilt
                PROVE  /\ here # {}
                       /\ \A i \in here :
                           /\ i \in DOMAIN written
                           /\ written[i] = [rows[i] EXCEPT !.quantity = @ - (x.moved + n)]
                           /\ rows[i].reserved <= written[i].quantity
    BY <1>11, <1>14, <1>17 DEF SourceInv
  <2>1. \A i \in here : i = id
    BY <1>1, <1>4, <1>11 DEF MovesInv, AccountInv
  <2>2. seen[id] = [rows[id] EXCEPT !.quantity = @ - x.moved] /\ rows[id] \in Row
    <3>1. rows[id] \in Row /\ rows[id].quantity - 0 = rows[id].quantity
      BY <1>1, <1>4, <1>6, <1>11, RowIsSomewhere DEF At
    <3>2. CASE x.moved = 0
      <4>1. seen[id] = rows[id]
        BY <1>3, <1>5, <1>6, <1>17, <3>2 DEF TransferInv
      <4>. QED
        BY <3>1, <3>2, <4>1 DEF Row
    <3>3. CASE x.moved # 0
      BY <1>1, <1>3, <1>5, <1>6, <1>11, <1>17, <3>1, <3>3 DEF SourceInv
    <3>. QED
      BY <3>2, <3>3
  <2>3. written[id] = [rows[id] EXCEPT !.quantity = @ - (x.moved + n)]
    <3>1. written[id] = [seen[id] EXCEPT !.quantity = @ - n]
      BY <1>1, <1>7, <1>12
    <3>2. seen[id].quantity = rows[id].quantity - x.moved
      BY <2>2 DEF Row
    <3>3. seen[id].quantity - n = rows[id].quantity - (x.moved + n)
      BY <1>4, <2>2, <3>2 DEF Row
    <3>4. written[id] = [rows[id] EXCEPT !.quantity = seen[id].quantity - n]
      BY <2>2, <3>1 DEF Row
    <3>. QED
      BY <3>3, <3>4
  <2>4. rows[id].reserved <= written[id].quantity
    <3>1. written[id].quantity = seen[id].quantity - n
      BY <1>1, <1>7, <1>12
    <3>2. seen[id].reserved = rows[id].reserved
      BY <2>2 DEF Row
    <3>3. seen[id].quantity \in Int /\ seen[id].reserved \in Nat
      BY <1>6 DEF Row
    <3>. QED
      BY <1>1, <1>4, <3>1, <3>2, <3>3 DEF Available
  <2>. QED
    BY <1>1, <1>13, <2>1, <2>3, <2>4
<1>21. DestinationInv(y)
  <2>1. \A i \in WrittenAt(x, x.to) : written[i] = x.written[i]
    <3>. SUFFICES ASSUME NEW i \in WrittenAt(x, x.to) PROVE written[i] = x.written[i]
      OBVIOUS
    <3>1. i \in DOMAIN x.written /\ i \in Ids /\ seen[i] = x.written[i] /\ i # id
      BY <1>4, <1>5, <1>6 DEF WrittenAt
    <3>. QED
      BY <1>7, <1>12, <3>1
  <2>. QED
    BY <1>3, <1>14, <1>16, <2>1 DEF DestinationInv
<1>22. RequestInv(c)' /\ OpenInv(c)'
  <2>1. TransferInv(y)' /\ SourceInv(y)' /\ DestinationInv(y)'
    BY <1>18, <1>19, <1>20, <1>21 DEF TransferInv, SourceInv, DestinationInv, At
  <2>. QED
    BY <1>14, <1>18, <2>1 DEF RequestInv, OpenInv
<1>23. HeaderInv'
  BY <1>2 DEF MovesInv, HeaderInv
<1>24. ASSUME NEW i \in Ids, NEW l \in Locations, Claims(c, i, l)'
       PROVE  seen[i].at = l
  <2>1. CASE i \in DOMAIN y.written /\ y.written[i].at = l
    BY <1>12, <1>13, <1>14, <2>1
  <2>2. CASE y.read # <<>> /\ y.read[1] = i /\ y.to = l
    <3>1. i # 0
      BY MovesAssumption
    <3>. QED
      BY <1>10, <1>14, <2>2, <3>1
  <2>. QED
    BY <1>14, <1>18, <1>24, <2>1, <2>2 DEF Claims
<1>25. ASSUME NEW i \in Ids, NEW l \in Locations, Claims(c, i, l)'
       PROVE  /\ rows[i].at \in {"nowhere", l}
              /\ \A d \in Clients \ {c}, k \in Locations : Claims(d, i, k) => k = l
              /\ \A k \in Locations : Claims(c, i, k)' => k = l
  <2>1. seen[i].at = l /\ \A k \in Locations : Claims(c, i, k)' => k = l
    BY <1>24, <1>25
  <2>2. rows[i].at = l \/ Claims(c, i, l)
    BY <1>5, <2>1
  <2>. QED
    BY <2>1, <2>2, KnownPlace
<1>26. \A d \in Clients \ {c} : DOMAIN Written(c)' \cap DOMAIN Written(d) = {}
  <2>1. DOMAIN Written(c)' = here \cup DOMAIN Written(c)
    BY <1>2, <1>13, <1>14, <1>18 DEF Written
  <2>. QED
    BY <1>2, <2>1 DEF CanLock, MovesInv, LocksInv, here
<1>. QED
  BY <1>2, <1>8, <1>22, <1>23, <1>25, <1>26, RequestMoves

(* An id no row has and nobody remembers.                                  *)
LEMMA FreshIsUnclaimed ==
    ASSUME MovesInv, NEW id \in FreshIds
    PROVE  /\ id \in Ids /\ rows[id] = NoRow
           /\ \A d \in Clients : id \notin DOMAIN Written(d)
           /\ \A d \in Clients, l \in Locations : ~Claims(d, id, l)
<1>1. id \in Ids /\ rows[id] = NoRow /\ \A d \in Clients : id \notin Remembered(d)
  BY DEF FreshIds
<1>2. ASSUME NEW d \in Clients, id \in DOMAIN Written(d) PROVE FALSE
  <2>1. tx[d].op = "transfer"
    BY <1>2 DEF Written
  <2>. QED
    BY <1>1, <1>2, <2>1 DEF Remembered
<1>3. ASSUME NEW d \in Clients, NEW l \in Locations, Claims(d, id, l) PROVE FALSE
  <2>1. CASE tx[d].op = "adjust"
    BY <1>1, <1>3, <2>1 DEF Remembered, Claims
  <2>2. CASE tx[d].op = "transfer"
    <3>1. id \in DOMAIN Written(d) \/ (tx[d].read # <<>> /\ tx[d].read[1] = id)
      BY <1>3, <2>2 DEF Claims, Written
    <3>2. tx[d].read # <<>> => 1 \in DOMAIN tx[d].read
      <4>1. tx[d].read \in {<<>>, <<0, NoRow>>} \cup (Ids \X Row)
        BY <2>2 DEF MovesInv, OpenInv, TransferInv, OpenTransfer
      <4>. QED
        BY <4>1
    <3>. QED
      BY <1>1, <1>2, <2>2, <3>1, <3>2 DEF Remembered
  <2>. QED
    BY <1>3, <2>1, <2>2 DEF Claims
<1>. QED
  BY <1>1, <1>2, <1>3

(* Unless it overwrites something, a row put where the transfer wrote no   *)
(* other is the committed one and what was moved.                          *)
Continues(x, id, row, over) ==
    ~over /\ WrittenAt(x, x.to) \subseteq {id} =>
        row = [at |-> x.to, quantity |-> rows[id].quantity + (x.moved + Head(x.todo)),
               reserved |-> rows[id].reserved]

(* Whoever knows a row knows it at l.                                      *)
Belongs(id, l) ==
    /\ rows[id].at \in {"nowhere", l}
    /\ \A d \in Clients, k \in Locations : Claims(d, id, k) => k = l

(* A transfer after a row is put at its destination.                       *)
PutAt(x, id, row, over) ==
    [x EXCEPT !.written = With(@, [i \in {id} |-> row]), !.read = <<>>, !.todo = Tail(@),
              !.moved = @ + Head(x.todo), !.overwrote = over]

(* Putting a row at the destination, one nobody else has locked.           *)
LEMMA PutRow ==
    ASSUME MovesInv, NEW c \in Clients, NEW x, x = tx[c], x.op = "transfer", x.read # <<>>,
           NEW id \in Ids, NEW row \in Row, row.at = x.to,
           NEW over \in BOOLEAN, x.overwrote => over,
           tx' = [tx EXCEPT ![c] = PutAt(x, id, row, over)],
           UNCHANGED <<stock, transfer>>,
           Belongs(id, x.to), CanLock(c, {id}), Continues(x, id, row, over)
    PROVE  MovesInv'
<1>24. /\ rows[id].at \in {"nowhere", x.to}
       /\ \A d \in Clients, k \in Locations : Claims(d, id, k) => k = x.to
       /\ \A d \in Clients \ {c} : id \notin DOMAIN Written(d)
  BY DEF Belongs, CanLock
<1>. PICK n : n = Head(x.todo)
  OBVIOUS
<1>. DEFINE written == With(x.written, [i \in {id} |-> row])
            y == [x EXCEPT !.written = written, !.read = <<>>, !.todo = Tail(@),
                           !.moved = @ + n, !.overwrote = over]
<1>1. TransferInv(x) /\ SourceInv(x) /\ DestinationInv(x) /\ x \in OpenTransfer
  BY DEF MovesInv, OpenInv, TransferInv
<1>2. x.todo # <<>>
  BY <1>1 DEF TransferInv
<1>3. /\ x.from \in Locations /\ x.to \in Locations /\ x.from # x.to /\ x.moved \in Nat
      /\ x.todo \in Seq(Line) /\ n \in Nat /\ n # 0 /\ x.overwrote \in BOOLEAN
      /\ DOMAIN x.written \subseteq Ids /\ Tail(x.todo) \in Seq(Line)
  <2>1. n \in Line /\ Tail(x.todo) \in Seq(Line)
    BY <1>1, <1>2, HeadTailProperties DEF OpenTransfer
  <2>. QED
    BY <1>1, <2>1 DEF OpenTransfer, TransferInv, Line
<1>5. tx' = [tx EXCEPT ![c] = y]
  BY DEF PutAt
<1>6. /\ DOMAIN written = DOMAIN x.written \cup {id}
      /\ written[id] = row
      /\ \A i \in DOMAIN x.written \ {id} : written[i] = x.written[i]
  BY DEF With
<1>7. written \in UNION {[S -> Row] : S \in SUBSET Ids}
  <2>1. \A i \in DOMAIN written : written[i] \in Row
    BY <1>1, <1>6 DEF OpenTransfer
  <2>2. written = [i \in DOMAIN written |-> written[i]] /\ DOMAIN written \in SUBSET Ids
    BY <1>3, <1>6 DEF With
  <2>3. written \in [DOMAIN written -> Row]
    BY <2>1, <2>2
  <2>. QED
    BY <2>2, <2>3
<1>. HIDE DEF written
<1>8. /\ y.op = "transfer" /\ y.from = x.from /\ y.to = x.to /\ y.read = <<>>
      /\ y.todo = Tail(x.todo) /\ y.moved = x.moved + n /\ y.written = written
      /\ y.transfer = x.transfer
  BY <1>1 DEF OpenTransfer
<1>22. y.overwrote <=> over
  BY <1>1 DEF OpenTransfer
<1>23. y \in OpenTransfer
  <2>1. x.moved + n \in Nat /\ Tail(x.todo) \in Seq(Line)
    BY <1>3
  <2>. QED
    BY <1>1, <1>7, <2>1 DEF OpenTransfer
<1>. HIDE DEF y
<1>9. tx'[c] = y /\ rows' = rows /\ spoilt' = spoilt
  BY <1>5, OneRequest DEF stock
<1>10. id \notin WrittenAt(x, x.from)
  <2>1. id \in WrittenAt(x, x.from) => Claims(c, id, x.from)
    BY DEF Claims, WrittenAt
  <2>. QED
    BY <1>3, <1>24, <2>1
<1>11. WrittenAt(y, y.from) = WrittenAt(x, x.from)
  <2>1. \A i \in DOMAIN written : written[i].at = x.from <=> i \in WrittenAt(x, x.from)
    BY <1>3, <1>6, <1>10 DEF WrittenAt
  <2>. QED
    BY <1>6, <1>8, <2>1 DEF WrittenAt
<1>12. WrittenAt(y, y.to) = WrittenAt(x, x.to) \cup {id}
  <2>1. \A i \in DOMAIN written : written[i].at = x.to <=> i \in WrittenAt(x, x.to) \cup {id}
    BY <1>3, <1>6 DEF WrittenAt
  <2>. QED
    BY <1>6, <1>8, <2>1 DEF WrittenAt
<1>13. Taken(y) = x.moved + n /\ Taken(x) = x.moved + n /\ Taken(y) # 0
  BY <1>3, <1>8 DEF Taken
<1>14. TransferInv(y)
  <2>1. <<>> # <<0, NoRow>>
    OBVIOUS
  <2>2. DOMAIN y.written = WrittenAt(y, y.from) \cup WrittenAt(y, y.to)
    BY <1>1, <1>6, <1>8, <1>11, <1>12 DEF TransferInv
  <2>3. \A i \in WrittenAt(y, y.from) : rows[i].at = y.from
    BY <1>1, <1>8, <1>11 DEF TransferInv
  <2>. QED
    BY <1>3, <1>8, <1>12, <1>13, <1>23, <2>1, <2>2, <2>3 DEF TransferInv
<1>15. SourceInv(y)
  <2>. SUFFICES ASSUME x.from \notin spoilt
                PROVE  /\ At(rows, x.from) # {}
                       /\ \A i \in At(rows, x.from) :
                           /\ i \in DOMAIN written
                           /\ written[i] = [rows[i] EXCEPT !.quantity = @ - (x.moved + n)]
                           /\ rows[i].reserved <= written[i].quantity
    BY <1>8, <1>13 DEF SourceInv
  <2>1. \A i \in At(rows, x.from) : i # id
    BY <1>3, <1>24, RowIsSomewhere DEF At
  <2>. QED
    BY <1>1, <1>6, <1>13, <2>1 DEF SourceInv
<1>16. DestinationInv(y)
  <2>. SUFFICES ASSUME ~over, NEW i \in WrittenAt(x, x.to) \cup {id},
                       WrittenAt(x, x.to) \cup {id} = {i}
                PROVE  written[i] = [at |-> x.to, quantity |-> rows[i].quantity + (x.moved + n),
                                     reserved |-> rows[i].reserved]
    BY <1>8, <1>12, <1>22 DEF DestinationInv
  <2>1. i = id /\ WrittenAt(x, x.to) \subseteq {id}
    OBVIOUS
  <2>2. row = [at |-> x.to, quantity |-> rows[id].quantity + (x.moved + n), reserved |-> rows[id].reserved]
    BY <2>1 DEF Continues
  <2>. QED
    BY <1>6, <2>1, <2>2
<1>17. RequestInv(c)' /\ OpenInv(c)'
  <2>1. TransferInv(y)' /\ SourceInv(y)' /\ DestinationInv(y)'
    BY <1>9, <1>14, <1>15, <1>16 DEF TransferInv, SourceInv, DestinationInv, At
  <2>. QED
    BY <1>8, <1>9, <2>1 DEF RequestInv, OpenInv
<1>18. HeaderInv'
  BY DEF MovesInv, HeaderInv
<1>19. ASSUME NEW i \in Ids, NEW l \in Locations, Claims(c, i, l)'
       PROVE  (i = id /\ l = x.to) \/ Claims(c, i, l)
  <2>1. i \in DOMAIN written /\ written[i].at = l
    BY <1>8, <1>9, <1>19 DEF Claims
  <2>. QED
    BY <1>6, <2>1 DEF Claims
<1>20. ASSUME NEW i \in Ids, NEW l \in Locations, Claims(c, i, l)'
       PROVE  /\ rows[i].at \in {"nowhere", l}
              /\ \A d \in Clients \ {c}, k \in Locations : Claims(d, i, k) => k = l
              /\ \A k \in Locations : Claims(c, i, k)' => k = l
  <2>1. CASE i = id
    BY <1>3, <1>19, <1>20, <1>24, <2>1
  <2>2. CASE i # id
    <3>1. Claims(c, i, l) /\ \A k \in Locations : Claims(c, i, k)' => Claims(c, i, k)
      BY <1>19, <1>20, <2>2
    <3>. QED
      BY <3>1, KnownPlace
  <2>. QED
    BY <2>1, <2>2
<1>21. \A d \in Clients \ {c} : DOMAIN Written(c)' \cap DOMAIN Written(d) = {}
  <2>1. DOMAIN Written(c)' = DOMAIN Written(c) \cup {id}
    BY <1>6, <1>8, <1>9 DEF Written
  <2>. QED
    BY <1>24, <2>1 DEF MovesInv, LocksInv
<1>. QED
  BY <1>5, <1>17, <1>18, <1>20, <1>21, RequestMoves

(* The destination's row is saved as it was read, or a new one inserted.   *)
LEMMA PutStep ==
    ASSUME MovesInv, NEW c \in Clients, PutAtDestination(c)
    PROVE  MovesInv'
<1>. PICK x : x = tx[c]
  OBVIOUS
<1>. DEFINE Put(id, row, over) == tx' = [tx EXCEPT ![c] = PutAt(x, id, row, over)]
            Suits(id, row, over) ==
              /\ row.at = x.to /\ (x.overwrote => over)
              /\ Belongs(id, x.to) /\ CanLock(c, {id}) /\ Continues(x, id, row, over)
            Done == \E id \in Ids, row \in Row, over \in BOOLEAN :
                       Put(id, row, over) /\ Suits(id, row, over)
<1>1. /\ x.op = "transfer" /\ x.read # <<>> /\ UNCHANGED <<stock, transfer>>
  BY DEF PutAtDestination
<1>2. TransferInv(x) /\ DestinationInv(x) /\ x \in OpenTransfer
  BY <1>1 DEF MovesInv, OpenInv, TransferInv
<1>3. x.to \in Locations /\ x.moved \in Nat /\ x.todo # <<>> /\ Head(x.todo) \in Nat
  <2>1. x.todo # <<>> /\ x.todo \in Seq(Line)
    BY <1>1, <1>2 DEF TransferInv, OpenTransfer
  <2>2. Head(x.todo) \in Line
    BY <2>1, HeadTailProperties
  <2>. QED
    BY <1>2, <2>1, <2>2 DEF OpenTransfer, Line
<1>4. ASSUME x.read[1] = 0 PROVE Done
  <2>. PICK over \in BOOLEAN : over = x.overwrote
    BY <1>2 DEF OpenTransfer
  <2>1. PICK id \in FreshIds : Put(id, [at |-> x.to, quantity |-> Head(x.todo), reserved |-> 0], over)
    <3>1. PICK id \in FreshIds : tx' = [tx EXCEPT ![c] = [tx[c] EXCEPT
              !.written = With(@, [i \in {id} |->
                             [at |-> tx[c].to, quantity |-> Head(tx[c].todo), reserved |-> 0]]),
              !.read = <<>>, !.todo = Tail(@),
              !.moved = @ + Head(tx[c].todo), !.overwrote = @ \/ FALSE]]
      BY <1>4 DEF PutAtDestination
    <3>2. (x.overwrote \/ FALSE) = over
      OBVIOUS
    <3>. QED
      BY <3>1, <3>2 DEF PutAt
  <2>2. /\ id \in Ids /\ rows[id] = NoRow
        /\ \A d \in Clients : id \notin DOMAIN Written(d)
        /\ \A d \in Clients, l \in Locations : ~Claims(d, id, l)
    BY FreshIsUnclaimed
  <2>3. x.moved = 0
    <3>1. x.read = <<0, NoRow>>
      BY <1>1, <1>2, <1>4, MovesAssumption DEF OpenTransfer
    <3>. QED
      BY <1>2, <3>1 DEF TransferInv
  <2>. DEFINE row == [at |-> x.to, quantity |-> Head(x.todo), reserved |-> 0]
  <2>4. row \in Row /\ row.at = x.to
    BY <1>3 DEF Row
  <2>5. row = [at |-> x.to, quantity |-> rows[id].quantity + (x.moved + Head(x.todo)),
               reserved |-> rows[id].reserved]
    BY <1>3, <2>2, <2>3 DEF NoRow
  <2>6. rows[id].at \in {"nowhere", x.to}
    BY <2>2 DEF NoRow
  <2>7. Put(id, row, over)
    BY <2>1
  <2>. HIDE DEF row
  <2>8. Suits(id, row, over)
    BY <2>2, <2>4, <2>5, <2>6 DEF Continues, Belongs, CanLock
  <2>. HIDE DEF Put, Suits
  <2>. QED
    BY <2>2, <2>4, <2>7, <2>8
<1>5. ASSUME x.read[1] # 0 PROVE Done
  <2>. PICK id : id = x.read[1]
    OBVIOUS
  <2>. PICK read : read = x.read[2]
    OBVIOUS
  <2>. DEFINE row == [read EXCEPT !.quantity = @ + Head(x.todo)]
  <2>. PICK over \in BOOLEAN : over = (x.overwrote \/ read # Seen(c)[id])
    OBVIOUS
  <2>1. CanLock(c, {id}) /\ Put(id, row, over)
    BY <1>5 DEF PutAtDestination, PutAt
  <2>2. id \in Ids /\ read \in Row /\ x.read # <<0, NoRow>>
    BY <1>1, <1>2, <1>5 DEF OpenTransfer
  <2>3. read.at = x.to
    BY <1>1, <1>2, <2>2 DEF TransferInv
  <2>4. row \in Row /\ row.at = x.to
    BY <1>3, <2>2, <2>3 DEF Row
  <2>5. Claims(c, id, x.to)
    BY <1>1 DEF Claims
  <2>6. /\ rows[id].at \in {"nowhere", x.to}
        /\ \A d \in Clients, k \in Locations : Claims(d, id, k) => k = x.to
    BY <1>3, <2>2, <2>5, KnownPlace
  <2>7. \A d \in Clients \ {c} : id \notin DOMAIN Written(d)
    BY <2>1 DEF CanLock
  <2>8. ASSUME read = Seen(c)[id], ~x.overwrote, WrittenAt(x, x.to) \subseteq {id}
        PROVE  row = [at |-> x.to, quantity |-> rows[id].quantity + (x.moved + Head(x.todo)),
                      reserved |-> rows[id].reserved]
    <3>1. CASE id \in DOMAIN x.written
      <4>1. read = x.written[id]
        BY <1>1, <2>2, <2>8, <3>1, SeenIs
      <4>2. id \in WrittenAt(x, x.to)
        BY <2>3, <3>1, <4>1 DEF WrittenAt
      <4>3. read = [at |-> x.to, quantity |-> rows[id].quantity + x.moved, reserved |-> rows[id].reserved]
        BY <1>2, <2>8, <4>1, <4>2 DEF DestinationInv
      <4>4. row = [at |-> x.to, quantity |-> (rows[id].quantity + x.moved) + Head(x.todo),
                   reserved |-> rows[id].reserved]
        BY <4>3
      <4>5. (rows[id].quantity + x.moved) + Head(x.todo) = rows[id].quantity + (x.moved + Head(x.todo))
        BY <1>3, <2>2, RowIsSomewhere
      <4>. QED
        BY <4>4, <4>5
    <3>2. CASE id \notin DOMAIN x.written
      <4>1. read = rows[id]
        BY <1>1, <2>2, <2>8, <3>2, SeenIs
      <4>2. x.moved = 0
        BY <1>2, <2>8, <3>2 DEF TransferInv, WrittenAt
      <4>. QED
        BY <1>3, <2>2, <2>3, <4>1, <4>2 DEF Row
    <3>. QED
      BY <3>1, <3>2
  <2>. HIDE DEF row
  <2>9. Suits(id, row, over)
    <3>1. Continues(x, id, row, over)
      BY <2>8 DEF Continues
    <3>. QED
      BY <2>1, <2>4, <2>6, <3>1 DEF Belongs
  <2>. HIDE DEF Put, Suits
  <2>. QED
    BY <2>1, <2>2, <2>4, <2>9
<1>6. PICK id \in Ids, row \in Row, over \in BOOLEAN :
          Put(id, row, over) /\ Suits(id, row, over)
  <2>. HIDE DEF Put, Suits
  <2>. QED
    BY <1>4, <1>5
<1>. QED
  BY <1>1, <1>6, PutRow

-----------------------------------------------------------------------------
(* The accounts.                                                           *)

(* A location that is not spoilt has one row at most, also after a step.   *)
LEMMA SpoilsTells ==
    ASSUME MovesInv, NEW where \in SUBSET Locations, Spoils(where), DOMAIN rows' = Ids
    PROVE  /\ spoilt \subseteq spoilt' /\ where \subseteq spoilt' /\ spoilt' \subseteq Locations
           /\ \A l \in Locations \ spoilt' : \A i, j \in At(rows', l) : i = j
<1>1. spoilt' = spoilt \cup where \cup {l \in Locations : Cardinality(At(rows', l)) > 1}
  BY DEF Spoils
<1>2. spoilt \subseteq Locations
  BY DEF MovesInv, StockTypes
<1>3. ASSUME NEW l \in Locations \ spoilt' PROVE \A i, j \in At(rows', l) : i = j
  <2>1. ~(Cardinality(At(rows', l)) > 1)
    BY <1>1
  <2>2. Cardinality(At(rows', l)) \in Nat
    BY MovesAssumption, FS_Subset, FS_CardinalityType DEF At
  <2>3. Cardinality(At(rows', l)) <= 1
    BY <2>1, <2>2
  <2>. QED
    BY <2>3, MovesAssumption, TwoRows
<1>. QED
  BY <1>1, <1>2, <1>3

(* The movements of a step.                                                *)
LEMMA RecordsTell ==
    ASSUME MovesInv, NEW change, \A l \in Locations : change[l] \in Int, Records(change)
    PROVE  /\ ledger' \in [Locations -> Int]
           /\ \A l \in Locations \ spoilt' : ledger'[l] = ledger[l] + change[l]
<1>1. \A l \in Locations : ledger[l] \in Int
  BY DEF MovesInv, StockTypes
<1>. QED
  BY <1>1 DEF Records

(* The account of a location whose rows, movements and holds change alike. *)
LEMMA AccountFollows ==
    ASSUME MovesInv, NEW l \in Locations \ spoilt, NEW dq \in Int, NEW dr \in Int,
           DOMAIN rows' = Ids,
           \A i \in Ids : rows'[i].at = l <=> rows[i].at = l,
           \A i \in Ids : rows[i].at = l => rows'[i].quantity = rows[i].quantity + dq,
           ledger'[l] = ledger[l] + dq,
           At(rows, l) = {} => dq = 0,
           l \notin loose' =>
               /\ l \notin loose /\ held'[l] = held[l] + dr
               /\ \A i \in Ids : rows[i].at = l => rows'[i].reserved = rows[i].reserved + dr
               /\ At(rows, l) = {} => dr = 0
               /\ At(rows, l) # {} => held[l] + dr <= ledger[l] + dq
    PROVE  AccountInv(l)'
<1>1. AccountInv(l) /\ ledger[l] \in Int /\ held[l] \in Int /\ DOMAIN rows = Ids
  BY DEF MovesInv, StockTypes
<1>2. At(rows', l) = At(rows, l)
  BY <1>1 DEF At
<1>3. \A id \in At(rows', l) : rows'[id].quantity = ledger'[l]
  BY <1>1, <1>2 DEF At, AccountInv
<1>4. ASSUME l \notin loose', NEW id \in At(rows', l)
      PROVE  rows'[id].reserved = held'[l] /\ held'[l] <= ledger'[l]
  <2>1. id \in At(rows, l) /\ id \in Ids /\ rows[id].at = l /\ l \notin loose
    BY <1>1, <1>2, <1>4 DEF At
  <2>2. rows[id].reserved = held[l] /\ rows'[id].reserved = rows[id].reserved + dr
    BY <1>1, <1>4, <2>1 DEF AccountInv
  <2>. QED
    BY <1>4, <2>1, <2>2
<1>5. At(rows, l) = {} => ledger'[l] = 0 /\ (l \notin loose' => held'[l] = 0)
  BY <1>1 DEF AccountInv
<1>6. \A i, j \in At(rows', l) : i = j
  BY <1>1, <1>2 DEF AccountInv
<1>. QED
  BY <1>2, <1>3, <1>4, <1>5, <1>6 DEF AccountInv

(* The account of a location that gets its first row.                      *)
LEMMA AccountBegins ==
    ASSUME MovesInv, NEW l \in Locations \ spoilt, NEW q \in Nat, NEW id \in Ids,
           At(rows, l) = {}, At(rows', l) = {id},
           rows'[id].quantity = q, rows'[id].reserved = 0,
           ledger'[l] = ledger[l] + q, l \notin loose' => l \notin loose /\ held'[l] = held[l]
    PROVE  AccountInv(l)'
<1>1. ledger[l] = 0 /\ (l \notin loose' => held'[l] = 0)
  BY DEF MovesInv, AccountInv
<1>. QED
  BY <1>1 DEF AccountInv

-----------------------------------------------------------------------------
(* Picking.                                                                *)

(* What is held is a number, of no location that strays.                   *)
LEMMA HoldsNumbers ==
    ASSUME MovesInv, NEW l \in Locations, NEW where \in SUBSET Locations, NEW dr \in Int,
           Strays(where), Holds(l, dr), where = {} => held[l] + dr \in 0 .. MaxHeld,
           where \subseteq {l}
    PROVE  /\ held' \in [Locations -> 0 .. MaxHeld] /\ loose' = loose \cup where
           /\ \A k \in Locations \ loose' :
                k \notin loose /\ held'[k] = IF k = l THEN held[k] + dr ELSE held[k]
<1>1. held \in [Locations -> 0 .. MaxHeld] /\ loose \subseteq Locations /\ MaxHeld \in Nat
  BY MovesAssumption DEF MovesInv, StockTypes
<1>2. loose' = loose \cup where
  BY DEF Strays
<1>3. held' = [held EXCEPT ![l] = IF l \in loose' THEN 0 ELSE held[l] + dr]
  BY DEF Holds
<1>4. l \notin loose' => held[l] + dr \in 0 .. MaxHeld
  BY <1>2
<1>. QED
  BY <1>1, <1>2, <1>3, <1>4

(* What UPDATEs of rows at one location keep.                              *)
LEMMA PickingChanges ==
    ASSUME MovesInv, NEW l \in Locations, NEW dq \in Int, NEW dr \in Int, NEW new,
           DOMAIN new \subseteq At(rows, l), UpdateRows(new),
           \A i \in DOMAIN new : new[i] \in Row /\ new[i].at = l,
           NEW where \in SUBSET {l}, Strays(where), Holds(l, dr),
           where = {} => held[l] + dr \in 0 .. MaxHeld,
           Records(Only(l, dq)),
           l \notin spoilt =>
               /\ DOMAIN new = At(rows, l) /\ (At(rows, l) = {} => dq = 0)
               /\ \A i \in DOMAIN new : new[i].quantity = rows[i].quantity + dq,
           l \notin spoilt /\ where = {} /\ l \notin loose =>
               /\ At(rows, l) = {} => dr = 0
               /\ At(rows, l) # {} => held[l] + dr <= ledger[l] + dq
               /\ \A i \in DOMAIN new : new[i].reserved = rows[i].reserved + dr
    PROVE  MovesInv'
<1>1. /\ rows \in [Ids -> Row \cup {NoRow}] /\ held \in [Locations -> 0 .. MaxHeld]
      /\ DOMAIN new \subseteq Ids /\ \A i \in DOMAIN new : rows[i].at = l
  BY DEF MovesInv, StockTypes, At
<1>2. /\ rows' = With(rows, new) /\ Spoils({}) /\ tx' = tx /\ transfer' = transfer
      /\ \A d \in Clients : DOMAIN new \cap DOMAIN Written(d) = {}
  BY DEF UpdateRows
<1>3. /\ DOMAIN rows' = Ids
      /\ \A i \in Ids : rows'[i] = IF i \in DOMAIN new THEN new[i] ELSE rows[i]
  BY <1>1, <1>2 DEF With
<1>4. rows' \in [Ids -> Row \cup {NoRow}] /\ \A i \in Ids : rows'[i].at = rows[i].at
  <2>1. \A i \in Ids : rows'[i] \in Row \cup {NoRow} /\ rows'[i].at = rows[i].at
    BY <1>1, <1>3
  <2>2. rows' = [i \in Ids |-> rows'[i]]
    BY <1>1, <1>2, <1>3 DEF With
  <2>. QED
    BY <2>1, <2>2
<1>5. spoilt \subseteq spoilt' /\ spoilt' \subseteq Locations
  BY <1>2, <1>3, SpoilsTells
<1>6. \A k \in Locations : Only(l, dq)[k] = IF k = l THEN dq ELSE 0
  BY DEF Only, Nothing
<1>7. ledger' \in [Locations -> Int] /\ \A k \in Locations \ spoilt' : ledger'[k] = ledger[k] + Only(l, dq)[k]
  BY <1>6, RecordsTell
<1>8. /\ held' \in [Locations -> 0 .. MaxHeld] /\ loose' = loose \cup where
      /\ \A k \in Locations \ loose' :
            k \notin loose /\ held'[k] = IF k = l THEN held[k] + dr ELSE held[k]
  BY HoldsNumbers
<1>9. StockTypes'
  BY <1>4, <1>5, <1>7, <1>8 DEF MovesInv, StockTypes
<1>10. ASSUME NEW k \in Locations \ spoilt' PROVE AccountInv(k)'
  <2>1. k \notin spoilt /\ ledger[k] \in Int /\ held[k] \in Int /\ ledger'[k] = ledger[k] + Only(l, dq)[k]
    BY <1>1, <1>5, <1>7, <1>10 DEF MovesInv, StockTypes
  <2>2. CASE k = l
    <3>1. \A i \in Ids : rows[i].at = k => i \in DOMAIN new
      BY <1>1, <2>1, <2>2 DEF At
    <3>2. ledger'[k] = ledger[k] + dq
      BY <1>6, <2>1, <2>2
    <3>3. \A i \in Ids : rows[i].at = k => rows'[i].quantity = rows[i].quantity + dq
      BY <1>3, <2>1, <2>2, <3>1
    <3>4. ASSUME k \notin loose'
          PROVE  /\ k \notin loose /\ held'[k] = held[k] + dr
                 /\ \A i \in Ids : rows[i].at = k => rows'[i].reserved = rows[i].reserved + dr
                 /\ At(rows, k) = {} => dr = 0
                 /\ At(rows, k) # {} => held[k] + dr <= ledger[k] + dq
      <4>1. k \notin loose /\ held'[k] = held[k] + dr /\ where = {}
        BY <1>8, <2>2, <3>4
      <4>2. \A i \in DOMAIN new : new[i].reserved = rows[i].reserved + dr
        BY <2>1, <2>2, <4>1
      <4>3. \A i \in Ids : rows[i].at = k => rows'[i].reserved = rows[i].reserved + dr
        BY <1>3, <3>1, <4>2
      <4>. QED
        BY <2>1, <2>2, <4>1, <4>3
    <3>5. At(rows, k) = {} => dq = 0
      BY <2>1, <2>2
    <3>. QED
      BY <1>3, <1>4, <2>1, <2>2, <3>2, <3>3, <3>4, <3>5, AccountFollows
  <2>3. CASE k # l
    <3>1. ledger'[k] = ledger[k] + 0
      BY <1>6, <2>1, <2>3
    <3>2. \A i \in Ids : rows[i].at = k => rows'[i] = rows[i]
      BY <1>1, <1>3, <2>3
    <3>3. \A i \in Ids : rows[i].at = k => /\ rows'[i].quantity = rows[i].quantity + 0
                                           /\ rows'[i].reserved = rows[i].reserved + 0
      BY <3>2, RowIsSomewhere
    <3>4. k \notin loose' => /\ k \notin loose /\ held'[k] = held[k] + 0
                             /\ At(rows, k) # {} => held[k] + 0 <= ledger[k] + 0
      BY <1>8, <2>1, <2>3 DEF MovesInv, AccountInv
    <3>. QED
      BY <1>3, <1>4, <2>1, <3>1, <3>3, <3>4, AccountFollows
  <2>. QED
    BY <2>2, <2>3
<1>11. HeaderInv' /\ tx' = [d \in Clients |-> tx'[d]]
  BY <1>2 DEF MovesInv, HeaderInv
<1>12. ASSUME NEW d \in Clients
       PROVE  /\ \A id \in DOMAIN Written(d) : rows'[id] = rows[id]
              /\ \A id \in Ids, k \in Locations : Claims(d, id, k) => rows'[id].at \in {"nowhere", k}
  <2>1. DOMAIN Written(d) \subseteq Ids
    BY DEF Written, MovesInv, OpenInv, TransferInv, OpenTransfer
  <2>2. \A id \in DOMAIN Written(d) : id \notin DOMAIN new
    BY <1>2
  <2>3. \A id \in Ids, k \in Locations : Claims(d, id, k) => rows[id].at \in {"nowhere", k}
    BY DEF MovesInv, ClaimsInv
  <2>. QED
    BY <1>3, <1>4, <2>1, <2>2, <2>3
<1>. QED
  BY <1>2, <1>5, <1>9, <1>10, <1>11, <1>12, RowsChange

(* What the rows at a location are to picking.                             *)
LEMMA RowsToPick ==
    ASSUME MovesInv, NEW l \in Locations
    PROVE  /\ MaxHeld \in Nat /\ held[l] \in 0 .. MaxHeld /\ ledger[l] \in Int
           /\ Nothing = Only(l, 0)
           /\ \A i \in At(rows, l) : i \in Ids /\ rows[i] \in Row /\ rows[i].at = l
           /\ l \notin spoilt => \A i \in At(rows, l) :
                /\ rows[i].quantity = ledger[l] /\ \A j \in At(rows, l) : j = i
                /\ l \notin loose => rows[i].reserved = held[l] /\ held[l] <= ledger[l]
           /\ l \notin spoilt /\ l \notin loose /\ At(rows, l) = {} => held[l] = 0
<1>1. /\ MaxHeld \in Nat /\ held[l] \in 0 .. MaxHeld /\ ledger[l] \in Int
      /\ Nothing = Only(l, 0)
  BY MovesAssumption DEF MovesInv, StockTypes, Only, Nothing
<1>2. \A i \in At(rows, l) : i \in Ids /\ rows[i] \in Row /\ rows[i].at = l
  BY RowIsSomewhere DEF At, MovesInv, StockTypes
<1>3. l \notin spoilt => AccountInv(l)
  BY DEF MovesInv
<1>. QED
  BY <1>1, <1>2, <1>3 DEF AccountInv

LEMMA ReserveStep ==
    ASSUME MovesInv, NEW l \in Locations, NEW n \in Int, Reserve(l, n)
    PROVE  MovesInv'
<1>. DEFINE enough == {id \in At(rows, l) : Available(rows[id]) >= n}
            new    == [id \in enough |-> [rows[id] EXCEPT !.reserved = @ + n]]
            where  == IF n < 0 THEN {l} ELSE {}
<1>1. /\ enough # {} /\ \A id \in enough : rows[id].reserved + n >= 0
      /\ held[l] + n <= MaxHeld /\ UpdateRows(new)
      /\ Strays(where) /\ Holds(l, n) /\ Records(Only(l, 0))
  BY RowsToPick DEF Reserve
<1>2. DOMAIN new = enough /\ enough \subseteq At(rows, l) /\ where \in SUBSET {l}
  OBVIOUS
<1>3. ASSUME NEW i \in enough
      PROVE  /\ new[i] \in Row /\ new[i].at = l
             /\ new[i].quantity = rows[i].quantity + 0
             /\ new[i].reserved = rows[i].reserved + n
  <2>1. rows[i] \in Row /\ rows[i].at = l
    BY RowsToPick
  <2>2. new[i] = [at |-> l, quantity |-> rows[i].quantity, reserved |-> rows[i].reserved + n]
    BY <2>1 DEF Row
  <2>3. rows[i].reserved + n \in Nat
    BY <1>1, <2>1 DEF Row
  <2>. QED
    BY <2>1, <2>2, <2>3 DEF Row
<1>4. ASSUME l \notin spoilt PROVE enough = At(rows, l)
  <2>1. PICK i \in enough : TRUE
    BY <1>1
  <2>2. \A j \in At(rows, l) : j = i
    BY <1>4, RowsToPick
  <2>. QED
    BY <2>1, <2>2
<1>5. ASSUME l \notin spoilt, l \notin loose PROVE held[l] + n <= ledger[l] + 0
  <2>1. PICK i \in enough : TRUE
    BY <1>1
  <2>2. rows[i].quantity = ledger[l] /\ rows[i].reserved = held[l]
    BY <1>5, RowsToPick
  <2>3. Available(rows[i]) >= n
    OBVIOUS
  <2>. QED
    BY <2>2, <2>3, RowsToPick DEF Available
<1>6. where = {} => held[l] + n \in 0 .. MaxHeld
  BY <1>1, RowsToPick
<1>7. At(rows, l) # {}
  BY <1>1, <1>2
<1>. HIDE DEF new, enough, where
<1>. QED
  BY <1>1, <1>2, <1>3, <1>4, <1>5, <1>6, <1>7, 0 \in Int, PickingChanges

(* Releasing and shipping are one UPDATE: what is picked leaves the stock, *)
(* what was allocated is no longer reserved.                               *)
LEMMA LetGo ==
    ASSUME MovesInv, NEW l \in Locations, NEW a \in Int, NEW p \in Int, NEW dq \in Int, dq + p = 0,
           NEW where \in SUBSET {l}, where = {} => Keeps(l, a, p), At(rows, l) = {} => p = 0,
           NEW new, DOMAIN new = At(rows, l),
           \A id \in At(rows, l) : new[id] = [at |-> l, quantity |-> rows[id].quantity - p,
                                              reserved |-> Released(rows[id], a)],
           UpdateRows(new), Strays(where), Holds(l, -a), Records(Only(l, dq))
    PROVE  MovesInv'
<1>2. where = {} => a \in 0 .. held[l] /\ p \in 0 .. a
  BY DEF Keeps
<1>4. ASSUME NEW i \in At(rows, l)
      PROVE  /\ new[i] \in Row /\ new[i].at = l
             /\ new[i].quantity = rows[i].quantity + dq
             /\ new[i].reserved = Released(rows[i], a)
  <2>1. rows[i] \in Row /\ rows[i].at = l
    BY RowsToPick
  <2>2. new[i] = [at |-> l, quantity |-> rows[i].quantity - p, reserved |-> Released(rows[i], a)]
    OBVIOUS
  <2>3. rows[i].quantity - p \in Int /\ Released(rows[i], a) \in Nat
        /\ rows[i].quantity - p = rows[i].quantity + dq
    BY <2>1 DEF Row, Released
  <2>. QED
    BY <2>1, <2>2, <2>3 DEF Row
<1>5. ASSUME l \notin spoilt, l \notin loose, where = {}
      PROVE  /\ At(rows, l) = {} => -a = 0
             /\ At(rows, l) # {} => held[l] + (-a) <= ledger[l] + dq
             /\ \A i \in At(rows, l) : new[i].reserved = rows[i].reserved + (-a)
  <2>1. a \in 0 .. held[l] /\ p \in 0 .. a /\ held[l] \in Nat
    BY <1>2, <1>5, RowsToPick
  <2>2. At(rows, l) = {} => -a = 0
    BY <1>5, <2>1, RowsToPick
  <2>3. At(rows, l) # {} => held[l] + (-a) <= ledger[l] + dq
    BY <1>5, <2>1, RowsToPick
  <2>4. ASSUME NEW i \in At(rows, l) PROVE new[i].reserved = rows[i].reserved + (-a)
    <3>1. rows[i].reserved = held[l]
      BY <1>5, RowsToPick
    <3>. QED
      BY <1>4, <2>1, <3>1 DEF Released
  <2>. QED
    BY <2>2, <2>3, <2>4
<1>6. where = {} => held[l] + (-a) \in 0 .. MaxHeld
  BY <1>2, RowsToPick
<1>7. -a \in Int /\ (At(rows, l) = {} => dq = 0)
  OBVIOUS
<1>. QED
  BY <1>4, <1>5, <1>6, <1>7, PickingChanges

(* A task that ends and leaves its reservation: only what is held changes. *)
LEMMA LeaveStep ==
    ASSUME MovesInv, NEW l \in Locations, LeaveReserved(l)
    PROVE  MovesInv'
<1>1. /\ rows' = rows /\ ledger' = ledger /\ spoilt' = spoilt /\ transfer' = transfer /\ tx' = tx
      /\ Strays({l}) /\ Holds(l, 0)
  BY DEF LeaveReserved
<1>2. /\ held' \in [Locations -> 0 .. MaxHeld] /\ loose' = loose \cup {l}
      /\ \A k \in Locations \ loose' : k \notin loose /\ held'[k] = held[k]
  BY <1>1, HoldsNumbers
<1>3. StockTypes' /\ HeaderInv' /\ ClaimsInv' /\ LocksInv'
  BY <1>1, <1>2 DEF MovesInv, StockTypes, HeaderInv, ClaimsInv, Claims, LocksInv, Written
<1>4. ASSUME NEW c \in Clients PROVE RequestInv(c)' /\ OpenInv(c)'
  <2>1. tx'[c] = tx[c] /\ rows' = rows /\ spoilt' = spoilt
    BY <1>1
  <2>2. RequestInv(c) /\ OpenInv(c)
    BY DEF MovesInv
  <2>3. RequestInv(c)'
    BY <2>1, <2>2 DEF RequestInv
  <2>4. OpenInv(c)'
    BY <2>1, <2>2 DEF OpenInv, TransferInv, SourceInv, DestinationInv, At
  <2>. QED
    BY <2>3, <2>4
<1>5. \A k \in Locations \ spoilt' : AccountInv(k)'
  BY <1>1, <1>2 DEF MovesInv, AccountInv, At
<1>. QED
  BY <1>1, <1>3, <1>4, <1>5 DEF MovesInv

(* Every UPDATE of picking reserves, frees or ships what it says.          *)
LEMMA PickingStep ==
    ASSUME MovesInv, NEW l \in Locations, Picking(l)
    PROVE  MovesInv'
<1>1. CASE LeaveReserved(l)
  BY <1>1, LeaveStep
<1>2. ASSUME NEW n \in Allocations, Reserve(l, n) PROVE MovesInv'
  BY <1>2, ReserveStep, MovesAssumption
<1>3. ASSUME NEW n \in Allocations, NEW inside \in BOOLEAN, Release(l, n, inside) PROVE MovesInv'
  <2>. DEFINE new   == [id \in At(rows, l) |-> [rows[id] EXCEPT !.reserved = Released(rows[id], n)]]
              where == IF inside THEN {} ELSE {l}
  <2>1. UpdateRows(new) /\ Strays(where) /\ Holds(l, -n) /\ Records(Nothing)
    BY <1>3 DEF Release
  <2>2. where \in SUBSET {l} /\ (where = {} => Keeps(l, n, 0)) /\ DOMAIN new = At(rows, l)
    BY <1>3 DEF Release
  <2>3. ASSUME NEW id \in At(rows, l)
        PROVE  new[id] = [at |-> l, quantity |-> rows[id].quantity - 0,
                          reserved |-> Released(rows[id], n)]
    <3>1. rows[id] \in Row /\ rows[id].at = l
      BY RowsToPick
    <3>2. rows[id].quantity - 0 = rows[id].quantity
      BY <3>1 DEF Row
    <3>3. new[id] = [at |-> rows[id].at, quantity |-> rows[id].quantity,
                     reserved |-> Released(rows[id], n)]
      BY <3>1 DEF Row
    <3>. QED
      BY <3>1, <3>2, <3>3
  <2>. HIDE DEF new, where
  <2>4. 0 \in Int /\ n \in Int /\ 0 + 0 = 0
    BY MovesAssumption
  <2>5. Records(Only(l, 0))
    BY <2>1, RowsToPick
  <2>. QED
    BY <2>1, <2>2, <2>3, <2>4, <2>5, LetGo
<1>4. ASSUME NEW n \in Allocations, NEW inside \in BOOLEAN, NEW picked \in Allocations \cup {0},
             Ship(l, n, picked, inside)
      PROVE  MovesInv'
  <2>. DEFINE new   == [id \in At(rows, l) |->
                          [rows[id] EXCEPT !.quantity = @ - picked, !.reserved = Released(rows[id], n)]]
              where == IF inside THEN {} ELSE {l}
  <2>1. n \in Int /\ picked \in Int /\ -picked \in Int /\ -picked + picked = 0
    BY MovesAssumption
  <2>2. /\ At(rows, l) # {} /\ UpdateRows(new)
        /\ Strays(where) /\ Holds(l, -n) /\ Records(Only(l, -picked))
    BY <1>4 DEF Ship
  <2>3. where \in SUBSET {l} /\ (where = {} => Keeps(l, n, picked)) /\ DOMAIN new = At(rows, l)
    BY <1>4 DEF Ship
  <2>4. ASSUME NEW id \in At(rows, l)
        PROVE  new[id] = [at |-> l, quantity |-> rows[id].quantity - picked,
                          reserved |-> Released(rows[id], n)]
    <3>1. rows[id] \in Row /\ rows[id].at = l
      BY RowsToPick
    <3>2. new[id] = [at |-> rows[id].at, quantity |-> rows[id].quantity - picked,
                     reserved |-> Released(rows[id], n)]
      BY <3>1 DEF Row
    <3>. QED
      BY <3>1, <3>2
  <2>5. At(rows, l) = {} => picked = 0
    BY <2>2
  <2>. HIDE DEF new, where
  <2>. QED
    BY <2>1, <2>2, <2>3, <2>4, <2>5, LetGo
<1>. QED
  BY <1>1, <1>2, <1>3, <1>4 DEF Picking

-----------------------------------------------------------------------------
(* Commits.                                                                *)

(* What a client has written and remembers stays as it is.                 *)
Undisturbed(d) ==
    /\ \A id \in DOMAIN Written(d) : rows'[id] = rows[id]
    /\ \A id \in Ids, k \in Locations : Claims(d, id, k) => rows'[id].at \in {"nowhere", k}

(* No row changes, comes or goes at l.                                     *)
Unmoved(l) == \A i \in Ids : rows'[i].at = l \/ rows[i].at = l => rows'[i] = rows[i]

Ends(d) == tx'[d].op \in {"none", "import"} /\ RequestInv(d)'

(* A commit keeps the invariant when it disturbs nobody and the account of *)
(* every location it touches is right or lost.                             *)
LEMMA StockChanges ==
    ASSUME MovesInv, rows' \in [Ids -> Row \cup {NoRow}], UNCHANGED picking, HeaderInv',
           tx' = [d \in Clients |-> tx'[d]],
           NEW where \in SUBSET Locations, Spoils(where),
           NEW change, \A l \in Locations : change[l] \in Int, Records(change),
           NEW S, \A d \in Clients : Ends(d) \/ (tx'[d] = tx[d] /\ Undisturbed(d)),
           \A l \in Locations : l \notin S => change[l] = 0 /\ Unmoved(l),
           \A l \in Locations : l \in S /\ l \notin spoilt' => AccountInv(l)'
    PROVE  MovesInv'
<1>1. DOMAIN rows' = Ids
  OBVIOUS
<1>2. spoilt \subseteq spoilt' /\ spoilt' \subseteq Locations
  BY <1>1, SpoilsTells
<1>3. ledger' \in [Locations -> Int] /\ \A l \in Locations \ spoilt' : ledger'[l] = ledger[l] + change[l]
  BY RecordsTell
<1>4. StockTypes' /\ held' = held /\ loose' = loose
  BY <1>2, <1>3 DEF MovesInv, StockTypes, picking
<1>5. ASSUME NEW l \in Locations \ spoilt', l \notin S PROVE AccountInv(l)'
  <2>1. l \notin spoilt /\ ledger[l] \in Int /\ held[l] \in Int
    BY <1>2 DEF MovesInv, StockTypes
  <2>2. ledger'[l] = ledger[l] + 0 /\ held'[l] = held[l] + 0
    BY <1>3, <1>4, <1>5, <2>1
  <2>3. /\ \A i \in Ids : rows'[i].at = l <=> rows[i].at = l
        /\ \A i \in Ids : rows[i].at = l => rows'[i] = rows[i]
    BY <1>5 DEF Unmoved
  <2>4. \A i \in Ids : rows[i].at = l => /\ rows'[i].quantity = rows[i].quantity + 0
                                         /\ rows'[i].reserved = rows[i].reserved + 0
    BY <2>3, RowIsSomewhere
  <2>5. l \notin loose /\ At(rows, l) # {} => held[l] + 0 <= ledger[l] + 0
    <3>1. AccountInv(l)
      BY <2>1 DEF MovesInv
    <3>2. l \notin loose /\ At(rows, l) # {} => held[l] <= ledger[l]
      BY <3>1 DEF AccountInv
    <3>. QED
      BY <2>1, <3>2
  <2>6. l \in Locations \ spoilt /\ 0 \in Int
    BY <1>5, <2>1
  <2>. QED
    BY <1>1, <1>4, <2>2, <2>3, <2>4, <2>5, <2>6, AccountFollows
<1>6. \A l \in Locations \ spoilt' : AccountInv(l)'
  BY <1>5
<1>7. \A d \in Clients : \/ tx'[d] = tx[d]
                         \/ tx'[d].op \in {"none", "import"} /\ RequestInv(d)'
  BY DEF Ends
<1>8. ASSUME NEW d \in Clients, tx'[d] = tx[d] PROVE Undisturbed(d)
  <2>1. CASE Ends(d)
    <3>1. tx[d].op \in {"none", "import"}
      BY <1>8, <2>1 DEF Ends
    <3>. QED
      BY <3>1 DEF Undisturbed, Written, Claims
  <2>. QED
    BY <2>1
<1>9. \A d \in Clients : tx'[d] = tx[d] =>
        /\ \A id \in DOMAIN Written(d) : rows'[id] = rows[id]
        /\ \A id \in Ids, l \in Locations : Claims(d, id, l) => rows'[id].at \in {"nowhere", l}
  BY <1>8 DEF Undisturbed
<1>. QED
  BY <1>2, <1>4, <1>6, <1>7, <1>9, RowsChange

(* A write nobody has locked, of a row where others know it, disturbs none. *)
LEMMA NobodyDisturbed ==
    ASSUME MovesInv, NEW id \in Ids, NEW d \in Clients,
           \A i \in Ids \ {id} : rows'[i] = rows[i],
           rows'[id] # rows[id] =>
               /\ id \notin DOMAIN Written(d)
               /\ \A k \in Locations : Claims(d, id, k) => rows'[id].at = k
    PROVE  Undisturbed(d)
<1>1. DOMAIN Written(d) \subseteq Ids
  BY DEF Written, MovesInv, OpenInv, TransferInv, OpenTransfer
<1>2. \A i \in Ids, k \in Locations : Claims(d, i, k) => rows[i].at \in {"nowhere", k}
  BY DEF MovesInv, ClaimsInv
<1>. QED
  BY <1>1, <1>2 DEF Undisturbed

(* The rows at a location are deleted by hand; its account is lost.        *)
LEMMA DeleteStep ==
    ASSUME MovesInv, NEW l \in Locations, DeleteInventory(l)
    PROVE  MovesInv'
<1>1. /\ tx' = tx /\ transfer' = transfer /\ UNCHANGED picking /\ Spoils({l}) /\ Records(Nothing)
      /\ rows' = [id \in Ids |-> IF id \in At(rows, l) THEN NoRow ELSE rows[id]]
      /\ \A c \in Clients : At(rows, l) \cap DOMAIN Written(c) = {}
  BY DEF DeleteInventory
<1>2. rows' \in [Ids -> Row \cup {NoRow}]
  BY <1>1 DEF MovesInv, StockTypes
<1>3. \A i \in Ids : rows'[i] = IF rows[i].at = l THEN NoRow ELSE rows[i]
  BY <1>1, RowIsSomewhere
<1>4. HeaderInv' /\ tx' = [d \in Clients |-> tx'[d]]
  BY <1>1 DEF MovesInv, HeaderInv
<1>5. ASSUME NEW d \in Clients PROVE tx'[d] = tx[d] /\ Undisturbed(d)
  <2>1. DOMAIN Written(d) \subseteq Ids
    BY DEF Written, MovesInv, OpenInv, TransferInv, OpenTransfer
  <2>2. \A i \in Ids, k \in Locations : Claims(d, i, k) => rows[i].at \in {"nowhere", k}
    BY DEF MovesInv, ClaimsInv
  <2>3. \A i \in DOMAIN Written(d) : rows[i].at # l
    BY <1>1, <2>1, RowIsSomewhere
  <2>4. NoRow.at = "nowhere"
    BY DEF NoRow
  <2>. QED
    BY <1>1, <1>3, <2>1, <2>2, <2>3, <2>4 DEF Undisturbed
<1>6. ASSUME NEW k \in Locations, k # l PROVE Nothing[k] = 0 /\ Unmoved(k)
  <2>1. NoRow.at # k
    BY MovesAssumption DEF NoRow
  <2>. QED
    BY <1>3, <1>6, <2>1 DEF Nothing, Unmoved
<1>7. \A k \in Locations : Nothing[k] \in Int
  BY DEF Nothing
<1>8. l \in spoilt'
  BY <1>1, <1>2, SpoilsTells
<1>. QED
  BY <1>1, <1>2, <1>4, <1>5, <1>6, <1>7, <1>8, StockChanges

(* A row updated by hand: a change is not recorded and loses the account.  *)
LEMMA CommitUpdateStep ==
    ASSUME MovesInv, NEW c \in Clients, CommitUpdate(c)
    PROVE  MovesInv'
<1>. PICK id : id = tx[c].id
  OBVIOUS
<1>. PICK quantity : quantity = tx[c].quantity
  OBVIOUS
<1>. PICK reserved : reserved = tx[c].reserved
  OBVIOUS
<1>. DEFINE row   == IF rows[id] = NoRow THEN NoRow ELSE
                     [rows[id] EXCEPT !.quantity = quantity,
                                      !.reserved = IF reserved = 0 THEN @ ELSE reserved]
            where == IF rows'[id] = rows[id] THEN {} ELSE {rows[id].at}
<1>1. /\ tx[c].op = "update" /\ CanLock(c, {id}) /\ rows' = [rows EXCEPT ![id] = row]
      /\ Spoils(where) /\ Records(Nothing) /\ tx' = [tx EXCEPT ![c] = NoTx]
      /\ transfer' = transfer /\ UNCHANGED picking
  BY DEF CommitUpdate, End
<1>2. id \in Ids /\ quantity \in Int /\ reserved \in Nat
  BY <1>1 DEF MovesInv, RequestInv
<1>3. row \in Row \cup {NoRow} /\ row.at = rows[id].at
  <2>1. CASE rows[id] = NoRow
    BY <2>1
  <2>2. CASE rows[id] # NoRow
    <3>1. rows[id] \in Row
      BY <1>2, <2>2, RowIsSomewhere
    <3>2. row = [at |-> rows[id].at, quantity |-> quantity,
                 reserved |-> IF reserved = 0 THEN rows[id].reserved ELSE reserved]
      BY <2>2, <3>1 DEF Row
    <3>. QED
      BY <1>2, <3>1, <3>2 DEF Row
  <2>. QED
    BY <2>1, <2>2
<1>. HIDE DEF row
<1>4. /\ rows' \in [Ids -> Row \cup {NoRow}]
      /\ rows'[id] = row /\ \A i \in Ids \ {id} : rows'[i] = rows[i]
  BY <1>1, <1>2, <1>3 DEF MovesInv, StockTypes
<1>5. HeaderInv' /\ tx' = [d \in Clients |-> tx'[d]] /\ Ends(c) /\ \A d \in Clients \ {c} : tx'[d] = tx[d]
  <2>1. /\ tx'[c] = NoTx /\ \A d \in Clients \ {c} : tx'[d] = tx[d]
        /\ tx' = [d \in Clients |-> tx'[d]]
    BY <1>1, OneRequest
  <2>. QED
    BY <1>1, <2>1 DEF MovesInv, HeaderInv, Ends, RequestInv, NoTx
<1>6. ASSUME NEW d \in Clients \ {c} PROVE Undisturbed(d)
  <2>1. id \notin DOMAIN Written(d)
    BY <1>1 DEF CanLock
  <2>2. ASSUME rows'[id] # rows[id], NEW k \in Locations, Claims(d, id, k) PROVE rows'[id].at = k
    <3>1. rows[id].at \in {"nowhere", k}
      BY <1>2, <2>2 DEF MovesInv, ClaimsInv
    <3>2. rows[id].at # "nowhere"
      <4>1. rows[id] = NoRow => row = NoRow
        BY DEF row
      <4>. QED
        BY <1>2, <1>4, <2>2, <4>1, RowIsSomewhere
    <3>. QED
      BY <1>3, <1>4, <3>1, <3>2
  <2>. QED
    BY <1>2, <1>4, <2>1, <2>2, NobodyDisturbed
<1>7. where \in SUBSET Locations
  <2>1. rows[id] = NoRow => rows'[id] = rows[id]
    BY <1>4 DEF row
  <2>2. rows[id] # NoRow => rows[id].at \in Locations
    BY <1>2, RowIsSomewhere DEF Row
  <2>. QED
    BY <2>1, <2>2
<1>8. ASSUME NEW l \in Locations, l \notin where PROVE Nothing[l] = 0 /\ Unmoved(l)
  BY <1>3, <1>4, <1>8 DEF Nothing, Unmoved
<1>9. \A l \in Locations : l \in where => l \in spoilt'
  BY <1>1, <1>4, <1>7, SpoilsTells
<1>10. \A l \in Locations : Nothing[l] \in Int
  BY DEF Nothing
<1>. HIDE DEF where
<1>11. \A d \in Clients : Ends(d) \/ (tx'[d] = tx[d] /\ Undisturbed(d))
  BY <1>5, <1>6
<1>. QED
  BY <1>1, <1>4, <1>5, <1>7, <1>8, <1>9, <1>10, <1>11, StockChanges

(* A row created by hand or by an import, where there may be one by now.   *)
LEMMA CommitCreateStep ==
    ASSUME MovesInv, NEW c \in Clients, CommitCreate(c)
    PROVE  MovesInv'
<1>. PICK x : x = tx[c]
  OBVIOUS
<1>. DEFINE row   == [at |-> x.at, quantity |-> x.quantity, reserved |-> 0]
            where == IF x.quantity < 0 THEN {x.at} ELSE {}
            next  == IF x.todo = <<>> THEN NoTx ELSE [op |-> "import", todo |-> x.todo, skips |-> x.skips]
            change == Only(x.at, x.quantity)
<1>1. PICK id \in FreshIds : rows' = [rows EXCEPT ![id] = row]
  BY DEF CommitCreate
<1>2. /\ x.op = "create" /\ Spoils(where) /\ Records(change)
      /\ tx' = [tx EXCEPT ![c] = next] /\ transfer' = transfer /\ UNCHANGED picking
  BY DEF CommitCreate, MovesInv
<1>3. x.at \in Locations /\ x.quantity \in Int /\ x.todo \in File
  BY <1>2 DEF MovesInv, RequestInv
<1>4. /\ id \in Ids /\ rows[id] = NoRow
      /\ \A d \in Clients : id \notin DOMAIN Written(d)
      /\ \A d \in Clients, l \in Locations : ~Claims(d, id, l)
  BY FreshIsUnclaimed
<1>5. row \in Row /\ row.at = x.at /\ row.quantity = x.quantity /\ row.reserved = 0
  BY <1>3 DEF Row
<1>. HIDE DEF row
<1>6. /\ rows' \in [Ids -> Row \cup {NoRow}]
      /\ rows'[id] = row /\ \A i \in Ids \ {id} : rows'[i] = rows[i]
  BY <1>1, <1>4, <1>5 DEF MovesInv, StockTypes
<1>7. HeaderInv' /\ tx' = [d \in Clients |-> tx'[d]] /\ Ends(c) /\ \A d \in Clients \ {c} : tx'[d] = tx[d]
  <2>1. next.op = "none" \/ (next.op = "import" /\ next.todo = x.todo)
    BY DEF NoTx
  <2>. HIDE DEF next
  <2>2. /\ tx'[c] = next /\ \A d \in Clients \ {c} : tx'[d] = tx[d]
        /\ tx' = [d \in Clients |-> tx'[d]]
    BY <1>2, OneRequest
  <2>3. HeaderInv'
    BY <1>2 DEF MovesInv, HeaderInv
  <2>4. RequestInv(c)'
    BY <1>3, <2>1, <2>2 DEF RequestInv
  <2>. QED
    BY <2>1, <2>2, <2>3, <2>4 DEF Ends
<1>8. \A d \in Clients : Undisturbed(d)
  BY <1>4, <1>6, NobodyDisturbed
<1>9. \A l \in Locations : change[l] = IF l = x.at THEN x.quantity ELSE 0
  BY <1>3 DEF Only, Nothing
<1>10. ASSUME NEW l \in Locations, l # x.at PROVE change[l] = 0 /\ Unmoved(l)
  <2>1. rows[id].at # l
    BY <1>4, MovesAssumption DEF NoRow
  <2>. QED
    BY <1>5, <1>6, <1>9, <1>10, <2>1 DEF Unmoved
<1>11. where \in SUBSET Locations /\ \A l \in Locations : change[l] \in Int
  BY <1>3, <1>9
<1>12. ASSUME x.at \notin spoilt' PROVE AccountInv(x.at)'
  <2>. PICK l : l = x.at
    OBVIOUS
  <2>1. /\ spoilt \subseteq spoilt' /\ where \subseteq spoilt'
        /\ \A i, j \in At(rows', l) : i = j
    BY <1>2, <1>3, <1>6, <1>11, <1>12, SpoilsTells
  <2>2. x.quantity \in Nat
    BY <1>3, <1>12, <2>1
  <2>3. id \in At(rows', l) /\ rows[id].at # l
    BY <1>3, <1>4, <1>5, <1>6, MovesAssumption DEF At, NoRow
  <2>4. At(rows', l) = {id}
    BY <2>1, <2>3
  <2>5. At(rows, l) = {}
    <3>. SUFFICES ASSUME NEW i \in At(rows, l) PROVE FALSE
      OBVIOUS
    <3>1. i \in Ids /\ rows[i].at = l /\ i # id
      BY <2>3 DEF At, MovesInv, StockTypes
    <3>2. i \in At(rows', l)
      BY <1>6, <3>1 DEF At
    <3>. QED
      BY <2>4, <3>1, <3>2
  <2>6. ledger'[l] = ledger[l] + x.quantity
    BY <1>2, <1>3, <1>9, <1>11, <1>12, RecordsTell
  <2>7. l \in Locations \ spoilt
    BY <1>3, <1>12, <2>1
  <2>. QED
    BY <1>2, <1>4, <1>5, <1>6, <2>2, <2>4, <2>5, <2>6, <2>7, AccountBegins DEF picking
<1>13. \A d \in Clients : Ends(d) \/ (tx'[d] = tx[d] /\ Undisturbed(d))
  BY <1>7, <1>8
<1>. HIDE DEF where, change, next
<1>. DEFINE S == {x.at}
<1>14. /\ \A l \in Locations : l \notin S => change[l] = 0 /\ Unmoved(l)
       /\ \A l \in Locations : l \in S /\ l \notin spoilt' => AccountInv(l)'
  BY <1>10, <1>12
<1>. HIDE DEF S
<1>. QED
  BY <1>2, <1>6, <1>7, <1>11, <1>13, <1>14, StockChanges

(* An adjustment saves the row it read.                                    *)
LEMMA SaveAdjustmentStep ==
    ASSUME MovesInv, NEW c \in Clients, SaveAdjustment(c)
    PROVE  MovesInv'
<1>. PICK x : x = tx[c]
  OBVIOUS
<1>. PICK id : id = x.id
  OBVIOUS
<1>. PICK l : l = x.row.at
  OBVIOUS
<1>. PICK change : change = x.change
  OBVIOUS
<1>0. x.op = "adjust" /\ x.counted \in BOOLEAN
  BY DEF SaveAdjustment, MovesInv, RequestInv
<1>. PICK counted \in BOOLEAN : counted = x.counted
  BY <1>0
<1>. DEFINE row   == [x.row EXCEPT !.quantity = @ + change]
            where == IF rows[id] # x.row \/ (counted /\ row.quantity < row.reserved) THEN {l} ELSE {}
<1>1. /\ x.op = "adjust" /\ id \in Ids /\ x.row \in Row /\ change \in Int
      /\ ~counted => AdjustmentAllowed(x.row, change)
  BY <1>0 DEF MovesInv, RequestInv
<1>2. l \in Locations /\ row \in Row /\ row.at = l
      /\ row.quantity = x.row.quantity + change /\ row.reserved = x.row.reserved
  BY <1>1 DEF Row
<1>3. /\ CanLock(c, {id}) /\ rows' = [rows EXCEPT ![id] = row] /\ Spoils(where)
      /\ Records(Only(l, change)) /\ tx' = [tx EXCEPT ![c] = NoTx]
      /\ transfer' = transfer /\ UNCHANGED picking
  <2>1. CanLock(c, {id}) /\ rows' = [rows EXCEPT ![id] = row]
    BY DEF SaveAdjustment
  <2>2. row.at = l
    BY <1>2
  <2>3. Records(Only(row.at, change))
    BY DEF SaveAdjustment
  <2>4. Spoils(IF rows[id] # x.row \/ (counted /\ row.quantity < row.reserved) THEN {row.at} ELSE {})
    BY DEF SaveAdjustment
  <2>5. tx' = [tx EXCEPT ![c] = NoTx] /\ transfer' = transfer /\ UNCHANGED picking
    BY DEF SaveAdjustment, End
  <2>. HIDE DEF row
  <2>. QED
    BY <2>1, <2>2, <2>3, <2>4, <2>5
<1>. HIDE DEF row
<1>4. Claims(c, id, l)
  BY <1>1 DEF Claims
<1>5. rows[id].at \in {"nowhere", l} /\ \A d \in Clients, k \in Locations : Claims(d, id, k) => k = l
  BY <1>1, <1>2, <1>4 DEF MovesInv, ClaimsInv
<1>6. \A d \in Clients : id \notin DOMAIN Written(d)
  BY <1>1, <1>3 DEF CanLock, Written
<1>7. where \in SUBSET Locations
  BY <1>2
<1>8. ASSUME l \notin where
      PROVE  rows[id] = x.row /\ rows[id].reserved <= rows[id].quantity + change
  <2>1. rows[id] = x.row /\ ~(counted /\ row.quantity < row.reserved)
    BY <1>8
  <2>2. CASE counted
    <3>1. ~(row.quantity < row.reserved)
      BY <2>1, <2>2
    <3>. QED
      BY <1>1, <1>2, <2>1, <3>1 DEF Row
  <2>3. CASE ~counted
    BY <1>1, <2>1, <2>3 DEF AdjustmentAllowed, Row
  <2>. QED
    BY <2>2, <2>3
<1>. HIDE DEF where
<1>9. /\ rows' \in [Ids -> Row \cup {NoRow}]
      /\ rows'[id] = row /\ \A i \in Ids \ {id} : rows'[i] = rows[i]
  BY <1>1, <1>2, <1>3 DEF MovesInv, StockTypes
<1>10. HeaderInv' /\ tx' = [d \in Clients |-> tx'[d]] /\ Ends(c) /\ \A d \in Clients \ {c} : tx'[d] = tx[d]
  <2>1. /\ tx'[c] = NoTx /\ \A d \in Clients \ {c} : tx'[d] = tx[d]
        /\ tx' = [d \in Clients |-> tx'[d]]
    BY <1>3, OneRequest
  <2>. QED
    BY <1>3, <2>1 DEF MovesInv, HeaderInv, Ends, RequestInv, NoTx
<1>11. \A d \in Clients : Undisturbed(d)
  BY <1>1, <1>2, <1>5, <1>6, <1>9, NobodyDisturbed
<1>12. \A k \in Locations : Only(l, change)[k] = IF k = l THEN change ELSE 0
  BY <1>2 DEF Only, Nothing
<1>13. ASSUME NEW k \in Locations, k # l PROVE Only(l, change)[k] = 0 /\ Unmoved(k)
  <2>1. rows[id].at # k
    BY <1>5, <1>13, MovesAssumption
  <2>. QED
    BY <1>2, <1>9, <1>12, <1>13, <2>1 DEF Unmoved
<1>14. \A k \in Locations : Only(l, change)[k] \in Int
  BY <1>1, <1>12
<1>15. ASSUME l \notin spoilt' PROVE AccountInv(l)'
  <2>1. spoilt \subseteq spoilt' /\ where \subseteq spoilt' /\ DOMAIN rows' = Ids
    BY <1>3, <1>7, <1>9, SpoilsTells
  <2>2. l \in Locations \ spoilt /\ rows[id] = x.row /\ rows[id].reserved <= rows[id].quantity + change
    BY <1>2, <1>8, <1>15, <2>1
  <2>3. id \in At(rows, l) /\ AccountInv(l)
    BY <1>1, <2>2, RowIsSomewhere DEF MovesInv
  <2>4. /\ \A i \in At(rows, l) : i = id
        /\ rows[id].quantity = ledger[l] /\ (l \notin loose => rows[id].reserved = held[l])
        /\ ledger[l] \in Int /\ held[l] \in Int
    BY <2>2, <2>3 DEF AccountInv, MovesInv, StockTypes
  <2>5. \A i \in Ids : rows[i].at = l => i = id
    BY <1>2, <2>4, RowIsSomewhere
  <2>6. /\ \A i \in Ids : rows'[i].at = l <=> rows[i].at = l
        /\ \A i \in Ids : rows[i].at = l => /\ rows'[i].quantity = rows[i].quantity + change
                                            /\ rows'[i].reserved = rows[i].reserved + 0
    <3>1. /\ rows'[id].at = l /\ rows[id].at = l
          /\ rows'[id].quantity = rows[id].quantity + change
          /\ rows'[id].reserved = rows[id].reserved + 0
      BY <1>1, <1>2, <1>9, <2>2 DEF Row
    <3>. QED
      BY <1>9, <2>5, <3>1
  <2>7. ledger'[l] = ledger[l] + change /\ held'[l] = held[l] + 0 /\ loose' = loose
    BY <1>2, <1>3, <1>12, <1>14, <1>15, <2>4, RecordsTell DEF picking
  <2>8. /\ l \notin loose => held[l] + 0 <= ledger[l] + change
        /\ At(rows, l) # {} /\ 0 \in Int
    BY <2>2, <2>3, <2>4
  <2>. QED
    BY <1>1, <2>1, <2>2, <2>6, <2>7, <2>8, AccountFollows
<1>. DEFINE S == {l}
<1>16. /\ \A k \in Locations : k \notin S => Only(l, change)[k] = 0 /\ Unmoved(k)
       /\ \A k \in Locations : k \in S /\ k \notin spoilt' => AccountInv(k)'
  BY <1>13, <1>15
<1>17. \A d \in Clients : Ends(d) \/ (tx'[d] = tx[d] /\ Undisturbed(d))
  BY <1>10, <1>11
<1>. HIDE DEF S
<1>. QED
  BY <1>3, <1>7, <1>9, <1>10, <1>14, <1>16, <1>17, StockChanges

(* What an open transfer wrote becomes the rows: the source has lost what  *)
(* the transfer moved, and the destination has got it unless another row   *)
(* came up there or what it read was overtaken.                            *)
LEMMA CommitTransferStep ==
    ASSUME MovesInv, NEW c \in Clients, CommitTransfer(c)
    PROVE  MovesInv'
<1>. PICK x : x = tx[c]
  OBVIOUS
<1>0. x.op = "transfer" /\ x.todo = <<>>
  BY DEF CommitTransfer
<1>1. TransferInv(x) /\ SourceInv(x) /\ DestinationInv(x) /\ x \in OpenTransfer
  BY <1>0 DEF MovesInv, OpenInv, TransferInv
<1>. PICK n \in Nat : n = x.moved
  BY <1>1 DEF OpenTransfer
<1>. PICK from \in Locations : from = x.from
  BY <1>1 DEF OpenTransfer
<1>. PICK to \in Locations : to = x.to
  BY <1>1 DEF OpenTransfer
<1>. PICK written : written = x.written
  OBVIOUS
<1>. PICK over \in BOOLEAN : over = x.overwrote
  BY <1>1 DEF OpenTransfer
<1>. DEFINE where  == IF over THEN {to} ELSE {}
            change == [Only(to, n) EXCEPT ![from] = -n]
<1>2. from # to /\ n # 0 /\ Taken(x) = n
  BY <1>0, <1>1 DEF TransferInv, Taken
<1>3. /\ rows' = With(rows, written) /\ Spoils(where) /\ Records(change)
      /\ tx' = [tx EXCEPT ![c] = NoTx] /\ UNCHANGED picking
  BY <1>0 DEF CommitTransfer, End, Seen, Written
<1>4. DOMAIN written \subseteq Ids /\ \A i \in DOMAIN written : written[i] \in Row
  BY <1>1 DEF OpenTransfer
<1>5. rows \in [Ids -> Row \cup {NoRow}]
  BY DEF MovesInv, StockTypes
<1>6. \A i \in Ids : rows'[i] = IF i \in DOMAIN written THEN written[i] ELSE rows[i]
  BY <1>3, <1>4, <1>5 DEF With
<1>7. rows' \in [Ids -> Row \cup {NoRow}]
  <2>1. rows' = [i \in Ids |-> rows'[i]]
    BY <1>3, <1>4, <1>5 DEF With
  <2>2. \A i \in Ids : rows'[i] \in Row \cup {NoRow}
    BY <1>4, <1>5, <1>6
  <2>. QED
    BY <2>1, <2>2
<1>8. ASSUME NEW i \in DOMAIN written
      PROVE  /\ \/ written[i].at = from /\ rows[i].at = from
                \/ written[i].at = to /\ rows[i].at \in {"nowhere", to}
             /\ \A d \in Clients, k \in Locations : Claims(d, i, k) => k = written[i].at
  <2>1. i \in WrittenAt(x, from) \/ i \in WrittenAt(x, to)
    BY <1>1 DEF TransferInv
  <2>2. written[i].at = from \/ written[i].at = to
    BY <2>1 DEF WrittenAt
  <2>3. Claims(c, i, written[i].at)
    BY <1>0 DEF Claims
  <2>4. /\ rows[i].at \in {"nowhere", written[i].at}
        /\ \A d \in Clients, k \in Locations : Claims(d, i, k) => k = written[i].at
    BY <1>4, <2>2, <2>3 DEF MovesInv, ClaimsInv
  <2>5. written[i].at = from => rows[i].at = from
    BY <1>1 DEF TransferInv, WrittenAt
  <2>. QED
    BY <2>2, <2>4, <2>5
<1>9. HeaderInv' /\ tx' = [d \in Clients |-> tx'[d]] /\ Ends(c) /\ \A d \in Clients \ {c} : tx'[d] = tx[d]
  <2>1. /\ tx'[c] = NoTx /\ \A d \in Clients \ {c} : tx'[d] = tx[d]
        /\ tx' = [d \in Clients |-> tx'[d]]
    BY <1>3, OneRequest
  <2>2. HeaderInv'
    BY <1>1 DEF CommitTransfer, MovesInv, HeaderInv, Header, Statuses, OpenTransfer
  <2>3. Ends(c)
    BY <2>1 DEF Ends, RequestInv, NoTx
  <2>. QED
    BY <2>1, <2>2, <2>3
<1>10. ASSUME NEW d \in Clients \ {c} PROVE Undisturbed(d)
  <2>1. DOMAIN Written(c) \cap DOMAIN Written(d) = {} /\ Written(c) = written
    BY <1>0 DEF MovesInv, LocksInv, Written
  <2>2. DOMAIN Written(d) \subseteq Ids
    BY DEF Written, MovesInv, OpenInv, TransferInv, OpenTransfer
  <2>3. \A i \in DOMAIN Written(d) : rows'[i] = rows[i]
    BY <1>6, <2>1, <2>2
  <2>4. ASSUME NEW i \in Ids, NEW k \in Locations, Claims(d, i, k)
        PROVE  rows'[i].at \in {"nowhere", k}
    <3>1. rows[i].at \in {"nowhere", k}
      BY <2>4 DEF MovesInv, ClaimsInv
    <3>2. i \in DOMAIN written => written[i].at = k
      BY <1>8, <2>4
    <3>. QED
      BY <1>6, <3>1, <3>2
  <2>. QED
    BY <2>3, <2>4 DEF Undisturbed
<1>11. \A l \in Locations : change[l] = IF l = from THEN -n ELSE IF l = to THEN n ELSE 0
  BY DEF Only, Nothing
<1>12. where \in SUBSET Locations /\ \A l \in Locations : change[l] \in Int
  BY <1>11
<1>. HIDE DEF change
<1>13. ASSUME NEW l \in Locations, l \notin {from, to} PROVE change[l] = 0 /\ Unmoved(l)
  <2>1. \A i \in DOMAIN written : written[i].at # l /\ rows[i].at # l
    BY <1>8, <1>13, MovesAssumption
  <2>. QED
    BY <1>6, <1>11, <1>13, <2>1 DEF Unmoved
<1>14. /\ spoilt \subseteq spoilt' /\ where \subseteq spoilt'
       /\ \A l \in Locations \ spoilt' : \A i, j \in At(rows', l) : i = j
       /\ \A l \in Locations \ spoilt' : ledger'[l] = ledger[l] + change[l]
  BY <1>3, <1>7, <1>12, SpoilsTells, RecordsTell
<1>15. held' = held /\ loose' = loose /\ \A l \in Locations : ledger[l] \in Int /\ held[l] \in Int
  BY <1>3 DEF MovesInv, StockTypes, picking
<1>16. ASSUME from \notin spoilt' PROVE AccountInv(from)'
  <2>1. from \notin spoilt /\ AccountInv(from)
    BY <1>14, <1>16 DEF MovesInv
  <2>2. /\ At(rows, from) # {}
        /\ \A i \in At(rows, from) : /\ i \in DOMAIN written
                                     /\ written[i] = [rows[i] EXCEPT !.quantity = @ - n]
                                     /\ rows[i].reserved <= written[i].quantity
    BY <1>1, <1>2, <2>1 DEF SourceInv
  <2>3. ASSUME NEW i \in Ids, rows[i].at = from
        PROVE  /\ rows'[i].at = from
               /\ rows'[i].quantity = rows[i].quantity + (-n)
               /\ rows'[i].reserved = rows[i].reserved + 0
               /\ rows[i].reserved <= rows[i].quantity + (-n)
    <3>1. i \in At(rows, from) /\ rows[i] \in Row
      BY <2>3, RowIsSomewhere
    <3>2. rows'[i] = [rows[i] EXCEPT !.quantity = @ - n] /\ rows[i].reserved <= rows'[i].quantity
      BY <1>6, <2>2, <3>1
    <3>. QED
      BY <2>3, <3>1, <3>2 DEF Row
  <2>4. \A i \in Ids : rows'[i].at = from => rows[i].at = from
    BY <1>2, <1>6, <1>8
  <2>5. ASSUME from \notin loose PROVE held[from] + 0 <= ledger[from] + (-n)
    <3>1. PICK i \in At(rows, from) : TRUE
      BY <2>2
    <3>2. i \in Ids /\ rows[i].at = from /\ rows[i].quantity = ledger[from] /\ rows[i].reserved = held[from]
      BY <1>5, <2>1, <2>5, <3>1 DEF At, AccountInv
    <3>3. held[from] <= ledger[from] + (-n)
      BY <2>3, <3>2
    <3>. QED
      BY <1>15, <3>3
  <2>6. ledger'[from] = ledger[from] + (-n) /\ held'[from] = held[from] + 0
    BY <1>3, <1>11, <1>14, <1>15, <1>16
  <2>7. DOMAIN rows' = Ids /\ -n \in Int /\ 0 \in Int /\ from \in Locations \ spoilt
    BY <1>7, <2>1
  <2>. QED
    BY <1>15, <2>2, <2>3, <2>4, <2>5, <2>6, <2>7, AccountFollows
<1>17. ASSUME to \notin spoilt' PROVE AccountInv(to)'
  <2>1. to \in Locations \ spoilt /\ AccountInv(to) /\ ~over
    BY <1>14, <1>17 DEF MovesInv
  <2>2. WrittenAt(x, to) # {}
    BY <1>1, <1>2 DEF TransferInv
  <2>3. PICK id \in WrittenAt(x, to) : TRUE
    BY <2>2
  <2>4. \A j \in WrittenAt(x, to) : j \in Ids /\ j \in At(rows', to)
    BY <1>4, <1>6, <1>7 DEF WrittenAt, At
  <2>5. \A j \in At(rows', to) : j = id
    BY <1>14, <1>17, <2>3, <2>4
  <2>6. WrittenAt(x, to) = {id} /\ At(rows', to) = {id} /\ id \in Ids
    BY <2>3, <2>4, <2>5
  <2>7. rows'[id] = [at |-> to, quantity |-> rows[id].quantity + n, reserved |-> rows[id].reserved]
    <3>1. written[id] = [at |-> to, quantity |-> rows[id].quantity + n, reserved |-> rows[id].reserved]
      BY <1>1, <2>1, <2>6 DEF DestinationInv
    <3>2. id \in DOMAIN written
      BY <2>3 DEF WrittenAt
    <3>. QED
      BY <1>6, <2>6, <3>1, <3>2
  <2>8. ledger'[to] = ledger[to] + n /\ held'[to] = held[to] + 0
    BY <1>2, <1>3, <1>11, <1>14, <1>15, <1>17
  <2>9. rows[id].at \in {"nowhere", to}
    BY <1>2, <1>8, <2>3 DEF WrittenAt
  <2>10. rows[id].quantity \in Int /\ rows[id].reserved \in Nat
    BY <2>6, RowIsSomewhere
  <2>11. CASE rows[id].at = "nowhere"
    <3>1. rows[id] = NoRow
      BY <2>6, <2>11, RowIsSomewhere
    <3>2. rows'[id].quantity = n /\ rows'[id].reserved = 0
      BY <2>7, <3>1 DEF NoRow
    <3>3. At(rows, to) = {}
      <4>. SUFFICES ASSUME NEW j \in At(rows, to) PROVE FALSE
        OBVIOUS
      <4>1. j \in Ids /\ rows[j].at = to /\ j # id
        BY <1>5, <2>11, MovesAssumption DEF At
      <4>2. j \in DOMAIN written => written[j].at = to
        BY <1>2, <1>8, <4>1
      <4>3. rows'[j].at = to
        BY <1>6, <4>1, <4>2
      <4>. QED
        BY <1>7, <2>5, <4>1, <4>3 DEF At
    <3>. QED
      BY <1>15, <2>1, <2>6, <2>8, <3>2, <3>3, AccountBegins
  <2>12. CASE rows[id].at = to
    <3>1. id \in At(rows, to)
      BY <2>6, <2>12, RowIsSomewhere
    <3>2. \A i \in Ids : rows[i].at = to => i = id
      BY <2>1, <3>1, RowIsSomewhere DEF AccountInv
    <3>3. \A i \in Ids : rows'[i].at = to => i = id
      BY <1>7, <2>5 DEF At
    <3>4. /\ rows'[id].at = to /\ rows'[id].quantity = rows[id].quantity + n
          /\ rows'[id].reserved = rows[id].reserved + 0
      BY <2>7, <2>10
    <3>5. ASSUME to \notin loose PROVE held[to] + 0 <= ledger[to] + n
      <4>1. held[to] <= ledger[to]
        BY <2>1, <3>1, <3>5 DEF AccountInv
      <4>. QED
        BY <1>15, <4>1
    <3>6. /\ \A i \in Ids : rows'[i].at = to <=> rows[i].at = to
          /\ \A i \in Ids : rows[i].at = to => /\ rows'[i].quantity = rows[i].quantity + n
                                               /\ rows'[i].reserved = rows[i].reserved + 0
      BY <2>12, <3>2, <3>3, <3>4
    <3>7. DOMAIN rows' = Ids /\ n \in Int /\ 0 \in Int /\ At(rows, to) # {}
      BY <1>7, <3>1
    <3>. QED
      BY <1>15, <2>1, <2>8, <3>5, <3>6, <3>7, AccountFollows
  <2>. QED
    BY <2>9, <2>11, <2>12
<1>. DEFINE S == {from, to}
<1>18. /\ \A l \in Locations : l \notin S => change[l] = 0 /\ Unmoved(l)
       /\ \A l \in Locations : l \in S /\ l \notin spoilt' => AccountInv(l)'
  BY <1>13, <1>16, <1>17
<1>19. \A d \in Clients : Ends(d) \/ (tx'[d] = tx[d] /\ Undisturbed(d))
  BY <1>9, <1>10
<1>. HIDE DEF S, where
<1>. QED
  BY <1>3, <1>7, <1>9, <1>12, <1>18, <1>19, StockChanges

-----------------------------------------------------------------------------
(* Every step.                                                             *)
LEMMA NextMovesInv ==
    MovesInv /\ [Next]_vars => MovesInv'
<1>. SUFFICES ASSUME MovesInv, [Next]_vars PROVE MovesInv'
  OBVIOUS
<1>1. CASE UNCHANGED vars
  <2>1. HeaderInv'
    BY <1>1 DEF MovesInv, HeaderInv, vars
  <2>. QED
    BY <1>1, <2>1, HeaderChanges DEF vars
<1>2. ASSUME NEW t \in Transfers, EditTransfer(t) PROVE MovesInv'
  BY <1>2, EditTransferStep
<1>3. ASSUME NEW c \in Clients, NEW t \in Transfers, BeginTransfer(c, t) PROVE MovesInv'
  BY <1>3, BeginTransferStep
<1>4. ASSUME NEW c \in Clients, TakeFromSource(c) \/ PutAtDestination(c) \/ CommitTransfer(c)
      PROVE  MovesInv'
  BY <1>4, TakeStep, PutStep, CommitTransferStep
<1>5. ASSUME NEW c \in Clients, ReadCounted(c) \/ SaveAdjustment(c) PROVE MovesInv'
  BY <1>5, ReadCountedStep, SaveAdjustmentStep
<1>6. ASSUME NEW c \in Clients, CommitCreate(c) \/ ImportRow(c) \/ CommitUpdate(c) \/ Rollback(c)
      PROVE  MovesInv'
  BY <1>6, CommitCreateStep, ImportRowStep, CommitUpdateStep, RollbackStep
<1>7. ASSUME NEW c \in Clients, NEW file \in FileChoices,
             ImportInventoryFromExcel(c, file) \/ ImportInventoryFromJSON(c, file)
      PROVE  MovesInv'
  BY <1>7, ImportStep
<1>8. ASSUME NEW c \in Clients, NEW l \in Locations, NEW n \in Amounts,
             \/ BeginAdjustment(c, l, n) \/ BeginAdjustment(c, l, -n)
             \/ BeginCount(c, l, n) \/ BeginCreate(c, l, n) \/ BeginUpdate(c, l, n)
      PROVE  MovesInv'
  BY <1>8, BeginStep
<1>9. ASSUME NEW l \in Locations, DeleteInventory(l) PROVE MovesInv'
  BY <1>9, DeleteStep
<1>10. ASSUME NEW l \in Locations, Picking(l) PROVE MovesInv'
  BY <1>10, PickingStep
<1>. QED
  BY <1>1, <1>2, <1>3, <1>4, <1>5, <1>6, <1>7, <1>8, <1>9, <1>10 DEF Next

(* In every reachable state, for any number of requests.                   *)
THEOREM MovesInvariant == Spec => []MovesInv
<1>1. Init => MovesInv
  BY InitMovesInv
<1>2. MovesInv /\ [Next]_vars => MovesInv'
  BY NextMovesInv
<1>. QED
  BY <1>1, <1>2, PTL DEF Spec

(* Every row has a location, an integer quantity and a reserved quantity   *)
(* that is not negative; a transfer never has one location twice.          *)
THEOREM MovesTypes == Spec => []TypeOK
<1>1. MovesInv => TypeOK
  <2>. SUFFICES ASSUME MovesInv PROVE TypeOK
    OBVIOUS
  <2>1. /\ rows \in [Ids -> Row \cup {NoRow}] /\ held \in [Locations -> 0 .. MaxHeld]
        /\ ledger \in [Locations -> Int] /\ spoilt \subseteq Locations /\ loose \subseteq Locations
    BY DEF MovesInv, StockTypes
  <2>2. \A t \in Transfers : transfer[t] # NoTransfer =>
          /\ transfer[t].status \in Statuses
          /\ transfer[t].from \in Locations /\ transfer[t].to \in Locations \ {transfer[t].from}
    BY DEF MovesInv, HeaderInv, Header
  <2>3. \A c \in Clients : DOMAIN Written(c) \subseteq Ids
    BY DEF MovesInv, OpenInv, TransferInv, OpenTransfer, Written
  <2>. QED
    BY <2>1, <2>2, <2>3 DEF TypeOK
<1>. QED
  BY <1>1, MovesInvariant, PTL

(* However transfers, adjustments, imports, manual writes and picking      *)
(* interleave, the movements account for the stock of every location that  *)
(* has one row, was not edited by hand, and where no unseen row was        *)
(* overwritten.                                                            *)
THEOREM MovementsAlwaysExplainStock == Spec => []MovementsExplainStock
<1>1. MovesInv => MovementsExplainStock
  <2>. SUFFICES ASSUME MovesInv, NEW l \in Locations \ spoilt
                PROVE  ledger[l] = IF At(rows, l) = {} THEN 0 ELSE rows[First(rows, l)].quantity
    BY DEF MovementsExplainStock
  <2>1. AccountInv(l)
    BY DEF MovesInv
  <2>. QED
    BY <2>1, FirstIsThere DEF AccountInv
<1>. QED
  BY <1>1, MovesInvariant, PTL

(* Where picking also keeps to its lifecycle, what is reserved is what the *)
(* picking tasks hold, and the stock covers it: whatever transfers,        *)
(* adjustments and other tasks do in between.                              *)
THEOREM ReservedIsAlwaysCovered == Spec => []ReservedIsCovered
<1>1. MovesInv => ReservedIsCovered
  <2>. SUFFICES ASSUME MovesInv, NEW l \in Locations \ (spoilt \cup loose)
                PROVE  IF At(rows, l) = {} THEN held[l] = 0
                       ELSE /\ rows[First(rows, l)].reserved = held[l]
                            /\ rows[First(rows, l)].reserved <= rows[First(rows, l)].quantity
    BY DEF ReservedIsCovered
  <2>1. AccountInv(l)
    BY DEF MovesInv
  <2>2. At(rows, l) # {} => First(rows, l) \in At(rows, l)
    BY FirstIsThere
  <2>. QED
    BY <2>1, <2>2 DEF AccountInv
<1>. QED
  BY <1>1, MovesInvariant, PTL

=============================================================================

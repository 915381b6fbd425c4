-------------------------- MODULE AdministrationProofs --------------------------
(***************************************************************************)
(* What the areas of MCAdministration keep, for any number of requests,    *)
(* pods, tenants, rows and links, any of the nine tables and any limits:   *)
(* one inductive invariant per area.                                       *)
(***************************************************************************)
EXTENDS MCAdministration, StockSumsProofs, WellFoundedInduction, NaturalsInduction, TLAPS

-----------------------------------------------------------------------------
(* Registers.  What the tables of the handlers have in common.             *)
LEMMA KindFacts ==
    ASSUME NEW k \in Kinds
    PROVE  /\ Register!Does(k).merges => "key" \in Register!Table(k).writes
           /\ ~Register!Table(k).removes =>
                ~Register!Does(k).merges /\ "active" \notin Register!Table(k).writes
           /\ Register!Does(k).takes \subseteq Register!Table(k).writes
           /\ Register!Table(k).writes \subseteq Register!Fields
<1>1. k \in {"locations", "clients", "location types", "presentation types",
             "reason codes", "conversions", "serials", "lots", "users"}
  BY AdministrationAssumption
<1>. USE DEF Register!Does, Register!Table, Register!Fields, Register!Handlers, Register!Statements
<1>2. CASE k = "locations"
  BY <1>2 DEF Register!Locations, Register!LocationStatements
<1>3. CASE k = "clients"
  BY <1>3 DEF Register!Clients, Register!ClientStatements
<1>4. CASE k = "location types"
  BY <1>4 DEF Register!LocationTypes, Register!LocationTypeStatements
<1>5. CASE k = "presentation types"
  BY <1>5 DEF Register!PresentationTypes, Register!PresentationTypeStatements
<1>6. CASE k = "reason codes"
  BY <1>6 DEF Register!ReasonCodes, Register!ReasonCodeStatements
<1>7. CASE k = "conversions"
  BY <1>7 DEF Register!Conversions, Register!ConversionStatements
<1>8. CASE k = "serials"
  BY <1>8 DEF Register!Serials, Register!SerialStatements
<1>9. CASE k = "lots"
  BY <1>9 DEF Register!Lots, Register!LotStatements
<1>10. CASE k = "users"
  BY <1>10 DEF Register!Users, Register!UserStatements
<1>. QED
  BY <1>1, <1>2, <1>3, <1>4, <1>5, <1>6, <1>7, <1>8, <1>9, <1>10

(* What a request gives of a row.                                          *)
GiveOK(g) ==
    /\ DOMAIN g \subseteq Register!Fields
    /\ "key" \in DOMAIN g => g["key"] \in Keys
    /\ "note" \in DOMAIN g => g["note"] \in Notes
    /\ "active" \in DOMAIN g => g["active"] \in BOOLEAN

AllIds == Ids \cup {seed}
There(i) == rows[i] # Register!Absent

EditOK(q) ==
    /\ q.at \in {"look", "insert"} => q.todo \in Seq(Keys) /\ q.todo # <<>>
    /\ q.at = "write" => q.id \in AllIds /\ q.read \in Register!Values /\ GiveOK(q.give)

RegisterTypes ==
    /\ kind \in Kinds /\ edit = [e \in Actors |-> edit[e]] /\ gone \subseteq AllIds
    /\ rows \in [AllIds -> Register!Values \cup {Register!Absent}]
    /\ asked \in [AllIds -> Register!Values \cup {Register!Absent}]

(* A deleted row stays deleted, and every other is as it was asked to be.  *)
RowOK(i) ==
    /\ There(i) => asked[i] \in Register!Values
    /\ i \in gone => IF Register!Table(kind).removes THEN ~There(i) ELSE There(i) /\ ~rows[i].active
    /\ There(i) /\ i \notin overtaken =>
         \A f \in Register!Does(kind).takes : rows[i][f] = asked[i][f]

RegisterInv ==
    /\ RegisterTypes
    /\ \A e \in Actors : EditOK(edit[e])
    /\ \A i \in AllIds : RowOK(i)
    /\ Register!KeysUnique

LEMMA RegisterRecords ==
    /\ Register!NoEdit.at = "none" /\ EditOK(Register!NoEdit)
    /\ Register!Absent \notin Register!Values
    /\ "none" \notin AllIds
<1>1. Register!NoEdit.at = "none"
  BY DEF Register!NoEdit
<1>2. Register!Absent \notin Register!Values
  BY DEF Register!Absent, Register!Values
<1>3. "none" \notin AllIds
  BY AdministrationAssumption DEF AllIds
<1>. QED
  BY <1>1, <1>2, <1>3 DEF EditOK

LEMMA PresentRows ==
    ASSUME RegisterTypes, NEW i
    PROVE  /\ i \in Register!Present <=> i \in AllIds /\ There(i)
           /\ i \in Register!Present => rows[i] \in Register!Values
BY DEF Register!Present, AllIds, There, RegisterTypes

LEMMA InitRegister == Register!Init => RegisterInv
<1>. SUFFICES ASSUME Register!Init PROVE RegisterInv
  OBVIOUS
<1>1. PICK k \in Keys, n \in Notes :
        LET row == [key |-> k, note |-> n, active |-> TRUE]
            all == [i \in Ids \cup {seed} |-> IF i = seed THEN row ELSE Register!Absent]
        IN  /\ kind \in Kinds /\ rows = all /\ asked = all
            /\ edit = [e \in Actors |-> Register!NoEdit] /\ edits = 0
            /\ gone = {} /\ overtaken = {}
  BY DEF Register!Init
<1>2. PICK row : row = [key |-> k, note |-> n, active |-> TRUE]
  OBVIOUS
<1>3. row \in Register!Values
  BY <1>2 DEF Register!Values
<1>4. RegisterTypes
  BY <1>1, <1>2, <1>3 DEF RegisterTypes, AllIds
<1>5. \A i \in AllIds : RowOK(i)
  BY <1>1, <1>2, <1>3 DEF RowOK, There, AllIds
<1>6. Register!KeysUnique
  BY <1>1 DEF Register!KeysUnique, Register!Present
<1>7. \A e \in Actors : EditOK(edit[e])
  BY <1>1, RegisterRecords
<1>. QED
  BY <1>4, <1>5, <1>6, <1>7 DEF RegisterInv

(* A request goes on and writes nothing.                                   *)
LEMMA EditGoesOn ==
    ASSUME RegisterInv, NEW e \in Actors, NEW q, EditOK(q), edit' = [edit EXCEPT ![e] = q],
           UNCHANGED <<kind, rows, gone, asked, overtaken>>
    PROVE  RegisterInv'
<1>1. RegisterTypes'
  BY DEF RegisterInv, RegisterTypes
<1>2. \A i \in AllIds : RowOK(i)'
  BY DEF RegisterInv, RowOK, There
<1>3. Register!KeysUnique'
  BY DEF RegisterInv, Register!KeysUnique, Register!Present
<1>4. ASSUME NEW d \in Actors PROVE EditOK(edit'[d])
  BY DEF RegisterInv, RegisterTypes
<1>. QED
  BY <1>1, <1>2, <1>3, <1>4 DEF RegisterInv, EditOK

LEMMA Insertings ==
    ASSUME NEW todo \in Seq(Keys)
    PROVE  /\ EditOK(Register!Inserting(todo))
           /\ todo # <<>> => Head(todo) \in Keys /\ EditOK(Register!Inserting(Tail(todo)))
                              /\ EditOK(Register!Inserting(Register!AfterFailure(todo)))
<1>1. ASSUME NEW s \in Seq(Keys) PROVE EditOK(Register!Inserting(s))
  BY RegisterRecords DEF Register!Inserting, EditOK
<1>2. <<>> \in Seq(Keys)
  OBVIOUS
<1>3. todo # <<>> => Tail(todo) \in Seq(Keys) /\ Head(todo) \in Keys
  OBVIOUS
<1>. QED
  BY <1>1, <1>2, <1>3 DEF Register!AfterFailure

LEMMA RegisterWaits ==
    ASSUME RegisterInv, NEW e \in Actors,
           Register!Create(e) \/ Register!LookUp(e) \/ Register!ReadRow(e)
    PROVE  RegisterInv'
<1>1. CASE Register!Create(e)
  <2>1. PICK n \in 1 .. 2, k1, k2 \in Keys :
          /\ edit' = [edit EXCEPT ![e] = Register!Inserting(SubSeq(<<k1, k2>>, 1, n))]
          /\ UNCHANGED <<kind, rows, gone, asked, overtaken>>
    BY <1>1 DEF Register!Create, Register!Begin, Register!Rest
  <2>2. SubSeq(<<k1, k2>>, 1, n) \in Seq(Keys)
    OBVIOUS
  <2>. QED
    BY <2>1, <2>2, Insertings, EditGoesOn
<1>2. CASE Register!LookUp(e)
  <2>1. edit[e].todo \in Seq(Keys) /\ edit[e].todo # <<>> /\ edit[e].at = "look"
    BY <1>2 DEF Register!LookUp, RegisterInv, EditOK
  <2>2. PICK q : /\ q = Register!Inserting(Register!AfterFailure(edit[e].todo))
                    \/ q = [edit[e] EXCEPT !.at = "insert"]
                 /\ edit' = [edit EXCEPT ![e] = q] /\ UNCHANGED <<kind, rows, gone, asked, overtaken>>
    BY <1>2 DEF Register!LookUp, Register!Goes, Register!Rest
  <2>3. EditOK([edit[e] EXCEPT !.at = "insert"])
    BY <2>1 DEF EditOK
  <2>. QED
    BY <2>1, <2>2, <2>3, Insertings, EditGoesOn
<1>3. CASE Register!ReadRow(e)
  <2>1. PICK i \in Register!Present, give \in Register!Given :
          /\ edit' = [edit EXCEPT ![e] = [at |-> "write", id |-> i, give |-> give, read |-> rows[i]]]
          /\ UNCHANGED <<kind, rows, gone, asked, overtaken>>
    BY <1>3 DEF Register!ReadRow, Register!Begin, Register!Rest
  <2>2. i \in AllIds /\ rows[i] \in Register!Values
    BY PresentRows DEF RegisterInv
  <2>3. GiveOK(give)
    BY KindFacts DEF Register!Given, Register!OneField, Register!Fields, Register!Values, GiveOK,
       RegisterInv, RegisterTypes
  <2>4. PICK q : q = [at |-> "write", id |-> i, give |-> give, read |-> rows[i]]
    OBVIOUS
  <2>5. EditOK(q)
    BY <2>2, <2>3, <2>4 DEF EditOK
  <2>. QED
    BY <2>1, <2>4, <2>5, EditGoesOn
<1>. QED
  BY <1>1, <1>2, <1>3

(* A row is written that is its own again: the others are as they were.    *)
LEMMA OtherRows ==
    ASSUME RegisterInv, NEW j \in AllIds, kind' = kind,
           rows' = [rows EXCEPT ![j] = rows'[j]], asked' = [asked EXCEPT ![j] = asked'[j]],
           rows'[j] \in Register!Values \cup {Register!Absent},
           asked'[j] \in Register!Values \cup {Register!Absent},
           gone' \subseteq gone \cup {j}, overtaken \subseteq overtaken',
           NEW e \in Actors, NEW q, EditOK(q), edit' = [edit EXCEPT ![e] = q],
           RowOK(j)',
           There(j)' => \A i \in AllIds \ {j} : There(i) => rows[i].key # rows'[j].key
    PROVE  RegisterInv'
<1>1. RegisterTypes'
  BY DEF RegisterInv, RegisterTypes
<1>2. \A i \in AllIds \ {j} : rows'[i] = rows[i] /\ asked'[i] = asked[i]
  BY DEF RegisterInv, RegisterTypes
<1>3. ASSUME NEW i \in AllIds PROVE RowOK(i)'
  <2>1. CASE i = j
    BY <2>1
  <2>2. CASE i # j
    BY <1>2, <2>2 DEF RegisterInv, RowOK, There
  <2>. QED
    BY <2>1, <2>2
<1>4. Register!KeysUnique'
  <2>. SUFFICES ASSUME NEW i \in AllIds, NEW k \in AllIds, There(i)', There(k)', i # k
                PROVE  rows'[i].key # rows'[k].key
    BY DEF Register!KeysUnique, Register!Present, There, AllIds
  <2>1. \A m, n \in AllIds : There(m) /\ There(n) /\ m # n => rows[m].key # rows[n].key
    BY DEF RegisterInv, Register!KeysUnique, Register!Present, There, AllIds
  <2>. QED
    BY <1>2, <2>1 DEF There
<1>5. ASSUME NEW d \in Actors PROVE EditOK(edit'[d])
  BY DEF RegisterInv, RegisterTypes
<1>. QED
  BY <1>1, <1>3, <1>4, <1>5 DEF RegisterInv, EditOK

LEMMA InsertKeeps ==
    ASSUME RegisterInv, NEW e \in Actors, Register!Insert(e)
    PROVE  RegisterInv'
<1>1. PICK todo : todo = edit[e].todo
  OBVIOUS
<1>2. todo \in Seq(Keys) /\ todo # <<>> /\ Head(todo) \in Keys
  BY <1>1 DEF Register!Insert, RegisterInv, EditOK
<1>3. CASE UNCHANGED <<rows, asked>>
  <2>1. PICK q \in {Register!Inserting(Tail(todo)), Register!Inserting(Register!AfterFailure(todo))} :
          edit' = [edit EXCEPT ![e] = q]
    BY <1>1 DEF Register!Insert, Register!Goes
  <2>2. UNCHANGED <<kind, rows, gone, asked, overtaken>>
    BY <1>3 DEF Register!Insert
  <2>. QED
    BY <1>2, <2>1, <2>2, Insertings, EditGoesOn
<1>4. CASE ~UNCHANGED <<rows, asked>>
  <2>1. PICK j \in (Ids \cup {seed}) \ (Register!Present \cup gone), n \in Notes :
          /\ ~Register!Taken(Head(todo), "none")
          /\ rows' = [rows EXCEPT ![j] = [key |-> Head(todo), note |-> n, active |-> TRUE]]
          /\ asked' = [asked EXCEPT ![j] = [key |-> Head(todo), note |-> n, active |-> TRUE]]
          /\ edit' = [edit EXCEPT ![e] = Register!Inserting(Tail(todo))]
          /\ UNCHANGED <<kind, gone, overtaken>>
    BY <1>1, <1>4 DEF Register!Insert, Register!Goes
  <2>0. PICK row : row = [key |-> Head(todo), note |-> n, active |-> TRUE]
    OBVIOUS
  <2>2. row \in Register!Values /\ row.key = Head(todo) /\ j \in AllIds
    BY <1>2, <2>0, <2>1 DEF Register!Values, AllIds
  <2>3. /\ rows'[j] = row /\ rows' = [rows EXCEPT ![j] = rows'[j]]
        /\ asked'[j] = row /\ asked' = [asked EXCEPT ![j] = asked'[j]]
    BY <2>0, <2>1, <2>2 DEF RegisterInv, RegisterTypes
  <2>4. RowOK(j)'
    BY <2>1, <2>2, <2>3 DEF RowOK
  <2>5. \A i \in AllIds \ {j} : There(i) => rows[i].key # row.key
    BY <2>1, <2>2, PresentRows, RegisterRecords
    DEF Register!Taken, Register!HeldByOthers, RegisterInv, AllIds
  <2>. QED
    BY <1>2, <2>1, <2>2, <2>3, <2>4, <2>5, Insertings, OtherRows
<1>. QED
  BY <1>3, <1>4

LEMMA DeleteKeeps ==
    ASSUME RegisterInv, NEW e \in Actors, Register!Delete(e)
    PROVE  RegisterInv'
<1>1. PICK j \in Register!Present :
        /\ edit' = [edit EXCEPT ![e] = Register!NoEdit] /\ gone' = gone \cup {j}
        /\ IF Register!Table(kind).removes
           THEN rows' = [rows EXCEPT ![j] = Register!Absent] /\ UNCHANGED asked
           ELSE /\ rows' = [rows EXCEPT ![j] = [rows[j] EXCEPT !.active = FALSE]]
                /\ asked' = [asked EXCEPT ![j] = [asked[j] EXCEPT !.active = FALSE]]
        /\ UNCHANGED <<kind, overtaken>>
  BY DEF Register!Delete, Register!Begin
<1>2. /\ j \in AllIds /\ There(j) /\ rows[j] \in Register!Values /\ asked[j] \in Register!Values
  BY PresentRows DEF RegisterInv, RowOK
<1>3. EditOK(Register!NoEdit) /\ gone' \subseteq gone \cup {j}
  BY <1>1, RegisterRecords
<1>4. CASE Register!Table(kind).removes
  <2>1. rows'[j] = Register!Absent /\ rows' = [rows EXCEPT ![j] = rows'[j]]
        /\ asked'[j] = asked[j] /\ asked' = [asked EXCEPT ![j] = asked'[j]]
    BY <1>1, <1>2, <1>4 DEF RegisterInv, RegisterTypes
  <2>2. RowOK(j)'
    BY <1>1, <1>2, <1>4, <2>1 DEF RowOK, There
  <2>3. ~There(j)'
    BY <2>1 DEF There
  <2>. QED
    BY <1>1, <1>2, <1>3, <2>1, <2>2, <2>3, OtherRows
<1>5. CASE ~Register!Table(kind).removes
  <2>1. PICK v, w : v = [rows[j] EXCEPT !.active = FALSE] /\ w = [asked[j] EXCEPT !.active = FALSE]
    OBVIOUS
  <2>2. /\ v \in Register!Values /\ w \in Register!Values /\ ~v.active /\ v.key = rows[j].key
        /\ \A f \in Register!Fields : rows[j][f] = asked[j][f] => v[f] = w[f]
    BY <1>2, <2>1 DEF Register!Values, Register!Fields
  <2>3. rows'[j] = v /\ rows' = [rows EXCEPT ![j] = rows'[j]]
        /\ asked'[j] = w /\ asked' = [asked EXCEPT ![j] = asked'[j]]
    BY <1>1, <1>2, <1>5, <2>1 DEF RegisterInv, RegisterTypes
  <2>4. RowOK(j)'
    <3>1. Register!Does(kind).takes \subseteq Register!Fields
      BY KindFacts DEF RegisterInv, RegisterTypes
    <3>2. There(j)'
      BY <2>2, <2>3, RegisterRecords DEF There
    <3>. QED
      BY <1>1, <1>2, <1>5, <2>2, <2>3, <3>1, <3>2 DEF RegisterInv, RowOK
  <2>5. \A i \in AllIds \ {j} : There(i) => rows[i].key # v.key
    BY <1>2, <2>2, PresentRows DEF RegisterInv, Register!KeysUnique
  <2>. QED
    BY <1>1, <1>2, <1>3, <2>2, <2>3, <2>4, <2>5, OtherRows
<1>. QED
  BY <1>4, <1>5

(* What an update makes of a row, and of what was asked.                   *)
Mixed(base, give, k) ==
    [f \in Register!Fields |-> IF f \in Register!Table(k).writes
                               THEN Register!Merged(base, give, k)[f] ELSE base[f]]
NowAsked(old, give, k) ==
    [f \in Register!Fields |-> IF f \in DOMAIN give THEN give[f]
                               ELSE IF f = "active" /\ Register!Does(k).resets THEN TRUE
                               ELSE old[f]]

LEMMA MixedRow ==
    ASSUME NEW base \in Register!Values, NEW old \in Register!Values, NEW give, GiveOK(give),
           NEW k \in Kinds
    PROVE  /\ Mixed(base, give, k) \in Register!Values /\ NowAsked(old, give, k) \in Register!Values
           /\ "key" \in Register!Table(k).writes =>
                Mixed(base, give, k).key = Register!Merged(base, give, k).key
           /\ "key" \notin Register!Table(k).writes => Mixed(base, give, k).key = base.key
           /\ "active" \notin Register!Table(k).writes => Mixed(base, give, k).active = base.active
           /\ (\A f \in Register!Does(k).takes : base[f] = old[f]) =>
                \A f \in Register!Does(k).takes : Mixed(base, give, k)[f] = NowAsked(old, give, k)[f]
<1>1. Register!Does(k).takes \subseteq Register!Table(k).writes
      /\ Register!Table(k).writes \subseteq Register!Fields
  BY KindFacts
<1>2. Mixed(base, give, k) \in Register!Values
  BY DEF Mixed, Register!Merged, Register!Values, Register!Fields, GiveOK
<1>3. NowAsked(old, give, k) \in Register!Values
  BY DEF NowAsked, Register!Values, Register!Fields, GiveOK
<1>4. /\ "key" \in Register!Table(k).writes =>
           Mixed(base, give, k).key = Register!Merged(base, give, k).key
      /\ "key" \notin Register!Table(k).writes => Mixed(base, give, k).key = base.key
      /\ "active" \notin Register!Table(k).writes => Mixed(base, give, k).active = base.active
  BY DEF Mixed, Register!Fields
<1>5. ASSUME \A f \in Register!Does(k).takes : base[f] = old[f], NEW f \in Register!Does(k).takes
      PROVE  Mixed(base, give, k)[f] = NowAsked(old, give, k)[f]
  BY <1>1, <1>5 DEF Mixed, NowAsked, Register!Merged
<1>. QED
  BY <1>2, <1>3, <1>4, <1>5

LEMMA WriteRowKeeps ==
    ASSUME RegisterInv, NEW e \in Actors, Register!WriteRow(e)
    PROVE  RegisterInv'
<1>1. PICK j, give, read : j = edit[e].id /\ give = edit[e].give /\ read = edit[e].read
  OBVIOUS
<1>2. j \in AllIds /\ GiveOK(give) /\ read \in Register!Values /\ kind \in Kinds
  BY <1>1 DEF Register!WriteRow, RegisterInv, EditOK, RegisterTypes
<1>3. edit' = [edit EXCEPT ![e] = Register!NoEdit] /\ UNCHANGED <<kind, edits, gone>>
  BY DEF Register!WriteRow, Register!Goes
<1>4. CASE UNCHANGED <<rows, asked, overtaken>>
  BY <1>3, <1>4, RegisterRecords, EditGoesOn
<1>5. CASE ~UNCHANGED <<rows, asked, overtaken>>
  <2>1. PICK base : base = IF Register!Does(kind).merges \/ j \notin Register!Present THEN read ELSE rows[j]
    OBVIOUS
  <2>2. /\ j \in Register!Present /\ ~Register!Taken(Register!Merged(base, give, kind).key, j)
        /\ rows' = [rows EXCEPT ![j] = Mixed(base, give, kind)]
        /\ asked' = [asked EXCEPT ![j] = NowAsked(asked[j], give, kind)]
        /\ overtaken' = IF rows[j] # read THEN overtaken \cup {j} ELSE overtaken
    BY <1>1, <1>5, <2>1, Zenon DEF Register!WriteRow, Register!Writes, Mixed, NowAsked
  <2>3. There(j) /\ rows[j] \in Register!Values /\ asked[j] \in Register!Values
    BY <1>2, <2>2, PresentRows DEF RegisterInv, RowOK
  <2>4. base \in Register!Values /\ (j \notin overtaken' => base = rows[j])
        /\ (~Register!Does(kind).merges => base = rows[j])
    BY <1>2, <2>1, <2>2, <2>3
  <2>5. PICK v, w : v = Mixed(base, give, kind) /\ w = NowAsked(asked[j], give, kind)
    OBVIOUS
  <2>6. /\ v \in Register!Values /\ w \in Register!Values
        /\ "key" \in Register!Table(kind).writes => v.key = Register!Merged(base, give, kind).key
        /\ "key" \notin Register!Table(kind).writes => v.key = base.key
        /\ "active" \notin Register!Table(kind).writes => v.active = base.active
        /\ (\A f \in Register!Does(kind).takes : base[f] = asked[j][f]) =>
                \A f \in Register!Does(kind).takes : v[f] = w[f]
    BY <1>2, <2>3, <2>4, <2>5, MixedRow
  <2>7. rows'[j] = v /\ rows' = [rows EXCEPT ![j] = rows'[j]]
        /\ asked'[j] = w /\ asked' = [asked EXCEPT ![j] = asked'[j]]
    BY <1>2, <2>2, <2>5 DEF RegisterInv, RegisterTypes
  <2>8. There(j)'
    BY <2>6, <2>7, RegisterRecords DEF There
  <2>9. j \in gone => ~Register!Table(kind).removes /\ ~v.active
    <3>1. j \in gone => ~Register!Table(kind).removes /\ ~rows[j].active
      BY <1>2, <2>3 DEF RegisterInv, RowOK
    <3>2. ~Register!Table(kind).removes => ~Register!Does(kind).merges
                                             /\ "active" \notin Register!Table(kind).writes
      BY <1>2, KindFacts
    <3>. QED
      BY <2>4, <2>6, <3>1, <3>2
  <2>10. j \notin overtaken' => \A f \in Register!Does(kind).takes : v[f] = w[f]
    BY <1>2, <2>2, <2>3, <2>4, <2>6 DEF RegisterInv, RowOK
  <2>11. RowOK(j)'
    BY <1>3, <2>6, <2>7, <2>8, <2>9, <2>10 DEF RowOK
  <2>12. \A i \in AllIds \ {j} : There(i) => rows[i].key # v.key
    <3>1. CASE "key" \in Register!Table(kind).writes
      BY <2>2, <2>6, <3>1, PresentRows DEF Register!Taken, Register!HeldByOthers, RegisterInv
    <3>2. CASE "key" \notin Register!Table(kind).writes
      <4>1. v.key = rows[j].key
        BY <1>2, <2>4, <2>6, <3>2, KindFacts
      <4>. QED
        BY <2>2, <4>1, PresentRows DEF RegisterInv, Register!KeysUnique
    <3>. QED
      BY <3>1, <3>2
  <2>13. gone' \subseteq gone \cup {j} /\ overtaken \subseteq overtaken' /\ kind' = kind
    BY <1>3, <2>2
  <2>. QED
    BY <1>2, <1>3, <2>6, <2>7, <2>11, <2>12, <2>13, RegisterRecords, OtherRows
<1>. QED
  BY <1>4, <1>5

LEMMA RegisterStep ==
    ASSUME RegisterInv, [Register!Next]_(Register!registerVars)
    PROVE  RegisterInv'
<1>1. CASE UNCHANGED Register!registerVars
  <2>1. UNCHANGED <<kind, rows, edit, gone, asked, overtaken>>
    BY <1>1 DEF Register!registerVars
  <2>. QED
    BY <2>1 DEF RegisterInv, RegisterTypes, EditOK, RowOK, There, Register!KeysUnique, Register!Present
<1>2. CASE Register!Next
  BY <1>2, RegisterWaits, InsertKeeps, WriteRowKeeps, DeleteKeeps DEF Register!Next
<1>. QED
  BY <1>1, <1>2

LEMMA RegisterInvariant == Register!Spec => []RegisterInv
BY InitRegister, RegisterStep, PTL DEF Register!Spec

(* However requests overlap in their statements, no two rows of a register *)
(* have the same key, and a row is as it was last asked to be, but for     *)
(* rows written whole from a reading that was old.                         *)
THEOREM RegistersStayAsAsked == Register!Spec => []RegistersAreAsAsked
<1>1. RegisterInv => RegistersAreAsAsked
  BY PresentRows DEF RegisterInv, RowOK, RegistersAreAsAsked, Register!FieldsAreAsAsked
<1>. QED
  BY <1>1, RegisterInvariant, PTL

(* No update brings back a deleted row, whatever it had read.              *)
THEOREM DeletedRowsStayDeleted == Register!Spec => NothingComesBack
<1>1. RegisterInv /\ RegisterInv' /\ [Register!Next]_(Register!registerVars) =>
        [\A i \in gone : IF Register!Table(kind).removes THEN rows'[i] = Register!Absent
                         ELSE ~rows'[i].active]_registers
  <2>. SUFFICES ASSUME RegisterInv, RegisterInv', [Register!Next]_(Register!registerVars),
                       ~UNCHANGED registers, NEW i \in gone
                PROVE  IF Register!Table(kind).removes THEN rows'[i] = Register!Absent
                       ELSE ~rows'[i].active
    OBVIOUS
  <2>1. Register!Next
    BY DEF registers, Register!registerVars
  <2>2. kind' = kind /\ gone \subseteq gone'
    BY <2>1 DEF Register!Next, Register!Create, Register!LookUp, Register!Insert, Register!ReadRow,
       Register!WriteRow, Register!Delete, Register!Rest
  <2>3. i \in AllIds /\ i \in gone'
    BY <2>2 DEF RegisterInv, RegisterTypes
  <2>4. RowOK(i)'
    BY <2>3 DEF RegisterInv
  <2>. QED
    BY <2>2, <2>3, <2>4 DEF RowOK, There
<1>. QED
  BY <1>1, RegisterInvariant, RegisterStep, PTL DEF Register!Spec, NothingComesBack

-----------------------------------------------------------------------------
(* Categories.  A write that has been checked against the tree as it is    *)
(* makes no cycle; writes that came between are remembered by old.         *)
CategoryTypes ==
    /\ parent \in [Ids -> Ids \cup {Category!Root, Category!Missing}]
    /\ move \in [Actors -> {Category!NoEdit}
                   \cup [at : {"list", "write"}, cat : Ids, under : Ids \cup {Category!Root},
                         was : {Category!Root}, old : BOOLEAN, cut : BOOLEAN]]

EditChecked(q) ==
    q.at # "none" /\ q.under \in Ids =>
        /\ q.cat # q.under /\ Category!Exists(q.under)
        /\ q.at = "write" /\ ~q.old /\ ~q.cut => ~Category!WouldCreateCycle(q.cat, q.under, Category!All)

(* Where a category is, unless something overlapped.                       *)
Placed(c) ==
    Category!Exists(c) => \/ parent[c] = Category!Root
                          \/ parent[c] \in Ids /\ parent[parent[c]] = Category!Root
                          \/ c \in late \/ parent[c] \in nested

CategoryInv ==
    /\ CategoryTypes
    /\ \A e \in Actors : EditChecked(move[e])
    /\ \A c \in Ids : parent[c] \in Ids => Category!Exists(parent[c])
    /\ Category!NoCycle
    /\ \A c \in Ids : Placed(c)

LEMMA CategoryRecords ==
    /\ Category!NoEdit.at = "none" /\ Category!Root \notin Ids /\ Category!Missing \notin Ids
    /\ Category!Root # Category!Missing
BY AdministrationAssumption DEF Category!NoEdit, Category!Root, Category!Missing

LEMMA InitCategory == Category!Init => CategoryInv
<1>. SUFFICES ASSUME Category!Init PROVE CategoryInv
  OBVIOUS
<1>1. CategoryTypes
  BY DEF Category!Init, CategoryTypes
<1>2. \A c \in Ids : ~Category!Exists(c) /\ parent[c] \notin Ids
  BY CategoryRecords DEF Category!Init, Category!Exists
<1>3. Category!NoCycle
  BY <1>2 DEF Category!NoCycle
<1>4. \A c \in Ids : Placed(c)
  BY <1>2 DEF Placed
<1>. QED
  BY <1>1, <1>2, <1>3, <1>4, CategoryRecords DEF Category!Init, CategoryInv, EditChecked

(* What is missing has nothing below it.                                   *)
LEMMA NewIsAboveNothing ==
    ASSUME CategoryInv, NEW c \in Ids, ~Category!Exists(c), NEW p \in Ids, Category!Exists(p)
    PROVE  ~Category!WouldCreateCycle(c, p, Category!All)
<1>1. PICK S : S = {d \in Ids : Category!Exists(d)}
  OBVIOUS
<1>2. S \in SUBSET Ids /\ p \in S /\ c \notin S /\ \A d \in S : parent[d] \in Ids => parent[d] \in S
  BY <1>1 DEF CategoryInv
<1>. QED
  BY <1>2 DEF Category!WouldCreateCycle

(* A write moves c below p, and nothing else.                              *)
LEMMA MoveMakesNoCycle ==
    ASSUME CategoryInv, NEW c \in Ids, NEW p \in Ids \cup {Category!Root}, p # c,
           NEW old \in BOOLEAN, NEW short \in BOOLEAN,
           p \in Ids /\ ~old /\ ~short => ~Category!WouldCreateCycle(c, p, Category!All),
           parent' = [parent EXCEPT ![c] = p], stale' = (stale \ {c}) \cup Category!If(old, c),
           cut' = (cut \ {c}) \cup Category!If(p # Category!Root /\ parent[p] # Category!Root /\ short, c)
    PROVE  Category!NoCycle'
<1>. SUFFICES ASSUME NEW S \in (SUBSET Ids) \ {{}}, \A d \in S : parent'[d] \in S
              PROVE  S \cap (stale' \cup cut') # {}
  BY DEF Category!NoCycle
<1>1. parent'[c] = p /\ \A d \in Ids \ {c} : parent'[d] = parent[d]
  BY DEF CategoryInv, CategoryTypes
<1>2. \A T \in (SUBSET Ids) \ {{}} : (\A d \in T : parent[d] \in T) => T \cap (stale \cup cut) # {}
  BY DEF CategoryInv, Category!NoCycle
<1>3. \A d \in stale \cup cut : d # c => d \in stale' \cup cut'
  OBVIOUS
<1>4. CASE c \notin S
  BY <1>1, <1>2, <1>3, <1>4
<1>5. CASE c \in S /\ old
  BY <1>5 DEF Category!If
<1>7. CASE c \in S /\ short
  <2>1. p \in S /\ p \in Ids
    BY <1>1, <1>7
  <2>2. parent[p] # Category!Root
    BY <1>1, <2>1, CategoryRecords
  <2>. QED
    BY <1>7, <2>1, <2>2, CategoryRecords DEF Category!If
<1>6. CASE c \in S /\ ~old /\ ~short
  <2>1. p \in S /\ p \in Ids
    BY <1>1, <1>6
  <2>2. PICK T \in SUBSET Ids : /\ p \in T /\ c \notin T
                                /\ \A d \in T : parent[d] \in Ids => parent[d] \in T
    <3>1. PICK T \in SUBSET Ids :
            /\ p \in T /\ c \notin T
            /\ \A d \in T \cap Category!All : parent[d] \in Ids => parent[d] \in T
      BY <1>6, <2>1 DEF Category!WouldCreateCycle
    <3>2. \A d \in Ids : parent[d] \in Ids => d \in Category!All
      BY CategoryRecords DEF Category!All, Category!Exists
    <3>. QED
      BY <3>1, <3>2
  <2>3. PICK U : U = S \cap T
    OBVIOUS
  <2>4. U \in (SUBSET Ids) \ {{}} /\ c \notin U /\ U \subseteq S
    BY <2>1, <2>2, <2>3
  <2>5. \A d \in U : parent[d] \in U
    BY <1>1, <2>2, <2>3
  <2>. QED
    BY <1>2, <1>3, <2>4, <2>5
<1>. QED
  BY <1>4, <1>5, <1>6, <1>7

LEMMA MoveKeepsTree ==
    ASSUME CategoryInv, NEW c \in Ids, NEW p \in Ids \cup {Category!Root}, NEW was,
           was = Category!Root, p # c,
           parent' = [parent EXCEPT ![c] = p],
           late' = (late \ {c}) \cup Category!If(p # Category!Root /\ parent[p] # was, c),
           nested' = (nested \ {c}) \cup Category!If(p # Category!Root /\ Category!HasChildren(c), c)
    PROVE  \A d \in Ids : Placed(d)'
<1>1. parent'[c] = p /\ \A d \in Ids \ {c} : parent'[d] = parent[d]
  BY DEF CategoryInv, CategoryTypes
<1>. SUFFICES ASSUME NEW d \in Ids, parent'[d] # Category!Missing, parent'[d] # Category!Root,
                     d \notin late', parent'[d] \notin nested'
              PROVE  parent'[d] \in Ids /\ parent'[parent'[d]] = Category!Root
  BY DEF Placed, Category!Exists
<1>2. CASE d = c
  <2>1. p \in Ids \ {c} /\ parent[p] = Category!Root
    BY <1>1, <1>2 DEF Category!If
  <2>. QED
    BY <1>1, <1>2, <2>1
<1>3. CASE d # c
  <2>1. parent'[d] = parent[d] /\ d \notin late /\ parent[d] \in Ids
    BY <1>1, <1>3 DEF CategoryInv, CategoryTypes
  <2>2. CASE parent[d] = c
    BY <1>1, <2>1, <2>2 DEF Category!If, Category!HasChildren
  <2>3. CASE parent[d] # c
    <3>1. parent[d] \notin nested
      BY <2>1, <2>3
    <3>3. parent[parent[d]] = Category!Root
      BY <2>1, <3>1, CategoryRecords DEF CategoryInv, Placed, Category!Exists
    <3>. QED
      BY <1>1, <2>1, <2>3, <3>3
  <2>. QED
    BY <2>2, <2>3
<1>. QED
  BY <1>2, <1>3

LEMMA MoveKeeps ==
    ASSUME CategoryInv, NEW e \in Actors, Category!Write(e)
    PROVE  CategoryInv'
<1>1. PICK c, p, was, old, short : /\ c = move[e].cat /\ p = move[e].under /\ was = move[e].was
                                   /\ old = move[e].old /\ short = move[e].cut
  OBVIOUS
<1>2. /\ c \in Ids /\ p \in Ids \cup {Category!Root} /\ was = Category!Root
      /\ old \in BOOLEAN /\ short \in BOOLEAN
      /\ p # c /\ (p \in Ids => Category!Exists(p))
      /\ p \in Ids /\ ~old /\ ~short => ~Category!WouldCreateCycle(c, p, Category!All)
  BY <1>1, CategoryRecords DEF Category!Write, CategoryInv, CategoryTypes, EditChecked
<1>3. CASE move' = [move EXCEPT ![e] = Category!NoEdit] /\ UNCHANGED <<parent, late, stale, cut, nested>>
  BY <1>3, CategoryRecords DEF CategoryInv, CategoryTypes, EditChecked, Category!Exists,
     Category!All, Category!WouldCreateCycle, Placed, Category!NoCycle
<1>4. CASE ~(move' = [move EXCEPT ![e] = Category!NoEdit] /\ UNCHANGED <<parent, late, stale, cut, nested>>)
  <2>1. /\ parent' = [parent EXCEPT ![c] = p] /\ move' = Category!Outdated(e)
        /\ late' = (late \ {c}) \cup Category!If(p # Category!Root /\ parent[p] # was, c)
        /\ stale' = (stale \ {c}) \cup Category!If(old, c)
        /\ cut' = (cut \ {c}) \cup Category!If(p # Category!Root /\ parent[p] # was /\ short, c)
        /\ nested' = (nested \ {c}) \cup Category!If(p # Category!Root /\ Category!HasChildren(c), c)
    BY <1>1, <1>4, Zenon DEF Category!Write, Category!Goes
  <2>2. parent'[c] = p /\ \A d \in Ids \ {c} : parent'[d] = parent[d]
    BY <1>2, <2>1 DEF CategoryInv, CategoryTypes
  <2>3. \A d \in Ids : Category!Exists(d) => Category!Exists(d)'
    BY <1>2, <2>2, CategoryRecords DEF Category!Exists
  <2>4. CategoryTypes'
    <3>1. parent' \in [Ids -> Ids \cup {Category!Root, Category!Missing}]
      BY <1>2, <2>1 DEF CategoryInv, CategoryTypes
    <3>. DEFINE Edits == {Category!NoEdit}
                   \cup [at : {"list", "write"}, cat : Ids, under : Ids \cup {Category!Root},
                         was : {Category!Root}, old : BOOLEAN, cut : BOOLEAN]
    <3>2. ASSUME NEW f \in Actors
          PROVE  (IF f = e THEN Category!NoEdit
                  ELSE IF move[f].at = "write" THEN [move[f] EXCEPT !.old = TRUE]
                  ELSE move[f]) \in Edits
      <4>1. move[f] \in Edits
        BY DEF CategoryInv, CategoryTypes
      <4>. QED
        BY <4>1, CategoryRecords
    <3>. HIDE DEF Edits
    <3>3. move' \in [Actors -> Edits]
      BY <2>1, <3>2 DEF Category!Outdated
    <3>. QED
      BY <3>1, <3>3 DEF CategoryTypes, Edits
  <2>5. ASSUME NEW f \in Actors PROVE EditChecked(move[f])'
    <3>1. CASE f = e
      BY <2>1, <3>1, CategoryRecords DEF Category!Outdated, EditChecked
    <3>2. CASE f # e /\ move[f].at = "write"
      <4>1. move'[f] = [move[f] EXCEPT !.old = TRUE]
        BY <2>1, <3>2 DEF Category!Outdated
      <4>2. /\ move'[f].old /\ move'[f].at = "write" /\ move'[f].cat = move[f].cat
            /\ move'[f].under = move[f].under
        BY <3>2, <4>1, CategoryRecords DEF CategoryInv, CategoryTypes
      <4>. QED
        BY <2>3, <3>2, <4>2 DEF CategoryInv, EditChecked
    <3>3. CASE f # e /\ move[f].at # "write"
      <4>1. move'[f] = move[f]
        BY <2>1, <3>3 DEF Category!Outdated
      <4>. QED
        BY <2>3, <3>3, <4>1 DEF CategoryInv, EditChecked
    <3>. QED
      BY <3>1, <3>2, <3>3
  <2>6. \A d \in Ids : parent'[d] \in Ids => Category!Exists(parent[d])' \/ parent'[d] # parent[d]
    BY <2>3 DEF CategoryInv
  <2>7. ASSUME NEW d \in Ids, parent'[d] \in Ids PROVE parent'[parent'[d]] # Category!Missing
    <3>1. CASE d = c
      BY <1>2, <2>2, <2>3, <2>7, <3>1 DEF Category!Exists
    <3>2. CASE d # c
      BY <2>2, <2>3, <2>7, <3>2 DEF CategoryInv, Category!Exists
    <3>. QED
      BY <3>1, <3>2
  <2>8. Category!NoCycle' /\ \A d \in Ids : Placed(d)'
    BY <1>2, <2>1, MoveMakesNoCycle, MoveKeepsTree
  <2>. QED
    BY <2>4, <2>5, <2>7, <2>8 DEF CategoryInv, Category!Exists
<1>. QED
  BY <1>3, <1>4

(* A parent is read, the tree is listed, a category is made inactive.      *)
LEMMA ListingKeeps ==
    ASSUME CategoryInv, UNCHANGED <<parent, late, stale, cut, nested>>, NEW e \in Actors, NEW q,
           move' = [move EXCEPT ![e] = q], EditChecked(q),
           q = Category!NoEdit \/ q \in [at : {"list", "write"}, cat : Ids,
                  under : Ids \cup {Category!Root}, was : {Category!Root}, old : BOOLEAN, cut : BOOLEAN]
    PROVE  CategoryInv'
<1>1. CategoryTypes'
  BY DEF CategoryInv, CategoryTypes
<1>2. Category!NoCycle' /\ \A c \in Ids : Placed(c)'
  BY DEF CategoryInv, Placed, Category!NoCycle, Category!Exists
<1>3. ASSUME NEW f \in Actors PROVE EditChecked(move[f])'
  <2>1. EditChecked(move'[f])
    BY DEF CategoryInv, CategoryTypes
  <2>. QED
    BY <2>1 DEF EditChecked, Category!Exists, Category!All, Category!WouldCreateCycle
<1>. QED
  BY <1>1, <1>2, <1>3 DEF CategoryInv, Category!Exists

LEMMA CategoryStep ==
    ASSUME CategoryInv, [Category!Next]_(Category!categoryVars)
    PROVE  CategoryInv'
<1>1. ASSUME NEW e \in Actors, Category!ReadParent(e) PROVE CategoryInv'
  <2>1. PICK c, p \in Ids : c # p /\ Category!MayBeParent(p) /\
          move' = [move EXCEPT ![e] = [at |-> IF Category!Exists(c) THEN "list" ELSE "write",
                      cat |-> c, under |-> p, was |-> parent[p], old |-> FALSE, cut |-> FALSE]]
    BY <1>1 DEF Category!ReadParent, Category!Goes
  <2>2. PICK q : q = [at |-> IF Category!Exists(c) THEN "list" ELSE "write",
                      cat |-> c, under |-> p, was |-> parent[p], old |-> FALSE, cut |-> FALSE]
    OBVIOUS
  <2>3. parent[p] = Category!Root /\ Category!Exists(p)
    BY <2>1, CategoryRecords DEF Category!MayBeParent, Category!Exists
  <2>4. q \in [at : {"list", "write"}, cat : Ids, under : Ids \cup {Category!Root},
               was : {Category!Root}, old : BOOLEAN, cut : BOOLEAN]
    BY <2>2, <2>3
  <2>5. EditChecked(q)
    BY <2>1, <2>2, <2>3, NewIsAboveNothing DEF EditChecked
  <2>6. UNCHANGED <<parent, late, stale, cut, nested>>
    BY <1>1 DEF Category!ReadParent, Category!Rest
  <2>. QED
    BY <2>1, <2>2, <2>4, <2>5, <2>6, ListingKeeps
<1>2. ASSUME NEW e \in Actors, Category!WithoutParent(e) PROVE CategoryInv'
  <2>1. PICK c \in Ids :
          move' = [move EXCEPT ![e] = [at |-> "write", cat |-> c, under |-> Category!Root,
                                       was |-> Category!Root, old |-> FALSE, cut |-> FALSE]]
    BY <1>2 DEF Category!WithoutParent, Category!Goes
  <2>2. PICK q : q = [at |-> "write", cat |-> c, under |-> Category!Root,
                      was |-> Category!Root, old |-> FALSE, cut |-> FALSE]
    OBVIOUS
  <2>3. EditChecked(q)
    BY <2>2, CategoryRecords DEF EditChecked
  <2>4. UNCHANGED <<parent, late, stale, cut, nested>>
    BY <1>2 DEF Category!WithoutParent, Category!Rest
  <2>. QED
    BY <2>1, <2>2, <2>3, <2>4, ListingKeeps
<1>3. ASSUME NEW e \in Actors, Category!ListAll(e) PROVE CategoryInv'
  <2>1. PICK L, q : /\ q = IF Category!WouldCreateCycle(move[e].cat, move[e].under, L) THEN Category!NoEdit
                           ELSE [move[e] EXCEPT !.at = "write", !.cut = L # Category!All]
                    /\ move' = [move EXCEPT ![e] = q] /\ UNCHANGED <<parent, late, stale, cut, nested>>
    BY <1>3 DEF Category!ListAll, Category!Goes, Category!Rest
  <2>2. move[e] \in [at : {"list", "write"}, cat : Ids, under : Ids \cup {Category!Root},
                     was : {Category!Root}, old : BOOLEAN, cut : BOOLEAN]
    BY <1>3, CategoryRecords DEF Category!ListAll, CategoryInv, CategoryTypes
  <2>3. EditChecked(move[e]) /\ move[e].at = "list"
    BY <1>3 DEF Category!ListAll, CategoryInv
  <2>4. CASE Category!WouldCreateCycle(move[e].cat, move[e].under, L)
    BY <2>1, <2>4, CategoryRecords, ListingKeeps DEF EditChecked
  <2>5. CASE ~Category!WouldCreateCycle(move[e].cat, move[e].under, L)
    <3>1. /\ q \in [at : {"list", "write"}, cat : Ids, under : Ids \cup {Category!Root},
                    was : {Category!Root}, old : BOOLEAN, cut : BOOLEAN]
          /\ q.cat = move[e].cat /\ q.under = move[e].under /\ (~q.cut => L = Category!All)
      BY <2>1, <2>2, <2>5
    <3>2. EditChecked(q)
      BY <2>3, <2>5, <3>1 DEF EditChecked
    <3>. QED
      BY <2>1, <3>1, <3>2, ListingKeeps
  <2>. QED
    BY <2>4, <2>5
<1>4. ASSUME UNCHANGED <<parent, move, late, stale, cut, nested>> PROVE CategoryInv'
  BY <1>4 DEF CategoryInv, CategoryTypes, EditChecked, Category!Exists, Category!All,
     Category!WouldCreateCycle, Placed, Category!NoCycle
<1>5. CASE Category!Next
  <2>1. ASSUME NEW c \in Ids, Category!SoftDelete(c) PROVE CategoryInv'
    BY <1>4, <2>1 DEF Category!SoftDelete
  <2>. QED
    BY <1>1, <1>2, <1>3, <1>5, <2>1, MoveKeeps DEF Category!Next
<1>. QED
  BY <1>4, <1>5 DEF Category!categoryVars

(* However moves overlap, no category is above itself unless one of those  *)
(* above it was written after the tree it was checked against had changed, *)
(* or below a parent that was moved, after a list that was not of all; and *)
(* GetTree shows every category that is listed with its parent, but for    *)
(* those put below a parent that stopped being a root.  It lists all when  *)
(* there are no more than the query's limit, whatever that is.             *)
THEOREM TheTreeStaysWhole == Category!Spec => []TreeIsWhole
<1>1. ASSUME CategoryInv, NEW L \in Category!ListByTenant
      PROVE  /\ \A c \in L : \/ c \in Category!GetTree(L) \/ parent[c] \notin L \cup {Category!Root}
                             \/ c \in late \/ parent[c] \in nested
             /\ Category!Cardinality(Category!All) <= ListLimit => L = Category!All
  <2>1. L \subseteq Category!All /\ Category!All \subseteq Ids
    BY DEF Category!ListByTenant, Category!All
  <2>2. ASSUME NEW c \in L, c \notin late, parent[c] \notin nested, parent[c] \in L \cup {Category!Root}
        PROVE  c \in Category!GetTree(L)
    <3>1. c \in Ids /\ Category!Exists(c)
      BY <2>1 DEF Category!All
    <3>2. Placed(c)
      BY <1>1, <3>1 DEF CategoryInv
    <3>. QED
      BY <2>1, <2>2, <3>1, <3>2, CategoryRecords DEF Placed, Category!GetTree
  <2>3. ASSUME Category!Cardinality(Category!All) <= ListLimit
        PROVE  L = Category!All
    <3>1. Cardinality(L) = Cardinality(Category!All)
      BY <1>1, <2>3 DEF Category!ListByTenant, Category!Cardinality, Cardinality
    <3>2. IsFiniteSet(Category!All)
      <4>1. IsFiniteSet(Ids)
        BY Zenon, AdministrationAssumption
      <4>. QED
        BY <2>1, <4>1, FS_Subset
    <3>. QED
      BY <2>1, <3>1, <3>2, FS_Subset
  <2>. QED
    BY <2>2, <2>3
<1>2. CategoryInv => TreeIsWhole
  BY <1>1 DEF CategoryInv, TreeIsWhole, Category!TreeIsWhole
<1>. QED
  BY <1>2, InitCategory, CategoryStep, PTL DEF Category!Spec

-----------------------------------------------------------------------------
(* Articles.  The index over all skus keeps any two articles apart, so     *)
(* what refers to a sku refers to one of them.  An update writes the       *)
(* rotation it read, or the one it was given.                              *)
ArticleRecord(v) ==
    v = [tenant |-> v.tenant, sku |-> v.sku, rotation |-> v.rotation, expires |-> v.expires]

Stocked(i) == article[i] # Article!Absent

CallOK(q) ==
    /\ "at" \in DOMAIN q
    /\ q.at = "write" => q.rotation = Article!Rotation(q.row, q.was.rotation)

ArticleTypes ==
    /\ article = [i \in Ids |-> article[i]] /\ named = [i \in Ids |-> named[i]]
    /\ call = [c \in Actors |-> call[c]]
    /\ \A i \in Ids : Stocked(i) => ArticleRecord(article[i])

ArticleInv ==
    /\ ArticleTypes
    /\ \A c \in Actors : CallOK(call[c])
    /\ \A i, j \in Ids : Stocked(i) /\ Stocked(j) /\ i # j => article[i].sku # article[j].sku
    /\ \A sku \in stock \cup ordered : \E i \in Ids : Stocked(i) /\ article[i].sku = sku
    /\ \A i \in Ids \ outdated : Stocked(i) => article[i].rotation = named[i]

LEMMA ArticleFacts ==
    /\ CallOK(Article!NoCall) /\ "none" \notin Ids
    /\ \A v : ArticleRecord(v) => v # Article!Absent
<1>1. CallOK(Article!NoCall)
  BY DEF Article!NoCall, CallOK
<1>2. ASSUME NEW v, ArticleRecord(v) PROVE v # Article!Absent
  <2>1. PICK w : w = [tenant |-> v.tenant, sku |-> v.sku, rotation |-> v.rotation, expires |-> v.expires]
    OBVIOUS
  <2>2. w # Article!Absent
    BY <2>1 DEF Article!Absent
  <2>. QED
    BY <1>2, <2>1, <2>2 DEF ArticleRecord
<1>3. "none" \notin Ids
  BY AdministrationAssumption
<1>. QED
  BY <1>1, <1>2, <1>3

LEMMA InitArticle == Article!Init => ArticleInv
<1>. SUFFICES ASSUME Article!Init PROVE ArticleInv
  OBVIOUS
<1>1. \A i \in Ids : ~Stocked(i)
  BY DEF Article!Init, Stocked
<1>. QED
  BY <1>1, ArticleFacts DEF Article!Init, ArticleInv, ArticleTypes

(* A call goes on and writes nothing.                                      *)
LEMMA CallGoesOn ==
    ASSUME ArticleInv, NEW c \in Actors, NEW q, CallOK(q), call' = [call EXCEPT ![c] = q],
           UNCHANGED <<article, stock, ordered, named, outdated>>
    PROVE  ArticleInv'
<1>1. ArticleTypes'
  BY DEF ArticleInv, ArticleTypes, Stocked
<1>2. ASSUME NEW d \in Actors PROVE CallOK(call'[d])
  BY DEF ArticleInv, ArticleTypes
<1>. QED
  BY <1>1, <1>2 DEF ArticleInv, Stocked, CallOK, Article!Rotation

LEMMA Creatings == \A t, todo : CallOK(Article!Creating(t, todo))
<1>. SUFFICES ASSUME NEW t, NEW todo PROVE CallOK(Article!Creating(t, todo))
  OBVIOUS
<1>1. PICK q : q = [at |-> "check", tenant |-> t, todo |-> todo]
  OBVIOUS
<1>2. CallOK(q)
  BY <1>1 DEF CallOK
<1>. QED
  BY <1>1, <1>2, ArticleFacts DEF Article!Creating

LEMMA CallsWait ==
    ASSUME ArticleInv, NEW c \in Actors,
           \/ Article!CreateArticle(c) \/ Article!ImportArticlesFromJSON(c)
           \/ Article!CheckSku(c) \/ Article!UpdateArticle(c) \/ Article!ReadExisting(c)
    PROVE  ArticleInv'
<1>0. UNCHANGED <<article, stock, ordered, named, outdated>>
  BY DEF Article!CreateArticle, Article!ImportArticlesFromJSON, Article!CheckSku,
     Article!UpdateArticle, Article!ReadExisting, Article!Rest
<1>1. CASE Article!CreateArticle(c) \/ Article!ImportArticlesFromJSON(c)
  <2>1. \E t, todo : call' = [call EXCEPT ![c] = Article!Creating(t, todo)]
    BY <1>1, Zenon DEF Article!CreateArticle, Article!ImportArticlesFromJSON, Article!Begin
  <2>. QED
    BY <1>0, <2>1, Creatings, CallGoesOn
<1>2. CASE Article!CheckSku(c)
  <2>1. PICK q : /\ (\E t, todo : q = Article!Creating(t, todo)) \/ q = [call[c] EXCEPT !.at = "insert"]
                 /\ call' = [call EXCEPT ![c] = q]
    BY <1>2, Zenon DEF Article!CheckSku, Article!Goes
  <2>2. CallOK([call[c] EXCEPT !.at = "insert"])
    BY DEF ArticleInv, CallOK
  <2>. QED
    BY <1>0, <2>1, <2>2, Creatings, CallGoesOn
<1>3. CASE Article!UpdateArticle(c)
  <2>1. PICK i, row : call' = [call EXCEPT ![c] = [at |-> "read", id |-> i, row |-> row]]
    BY <1>3, Zenon DEF Article!UpdateArticle, Article!Begin
  <2>2. PICK q : q = [at |-> "read", id |-> i, row |-> row]
    OBVIOUS
  <2>3. CallOK(q)
    BY <2>2 DEF CallOK
  <2>. QED
    BY <1>0, <2>1, <2>2, <2>3, CallGoesOn
<1>4. CASE Article!ReadExisting(c)
  <2>1. PICK i, row : i = call[c].id /\ row = call[c].row
    OBVIOUS
  <2>2. PICK new : new = [at |-> "write", id |-> i, row |-> row, was |-> article[i],
                          rotation |-> Article!Rotation(row, article[i].rotation)]
    OBVIOUS
  <2>3. CallOK(new)
    BY <2>2 DEF CallOK
  <2>4. call' = [call EXCEPT ![c] = IF i \notin Article!Present THEN Article!NoCall ELSE new]
    BY <1>4, <2>1, <2>2, Zenon DEF Article!ReadExisting, Article!Goes, Article!Kept
  <2>. QED
    BY <1>0, <2>3, <2>4, ArticleFacts, CallGoesOn
<1>. QED
  BY <1>1, <1>2, <1>3, <1>4

(* An article is written whose sku no other has, in place of one that      *)
(* nothing refers to by another sku.                                       *)
LEMMA OtherArticles ==
    ASSUME ArticleInv, NEW j \in Ids, NEW new, ArticleRecord(new), NEW name,
           article' = [article EXCEPT ![j] = new], named' = [named EXCEPT ![j] = name],
           UNCHANGED <<stock, ordered>>, outdated \ {j} \subseteq outdated',
           \A i \in Ids \ {j} : Stocked(i) => article[i].sku # new.sku,
           Stocked(j) /\ article[j].sku # new.sku => article[j].sku \notin stock \cup ordered,
           j \notin outdated' => new.rotation = name,
           NEW c \in Actors, NEW q, CallOK(q), call' = [call EXCEPT ![c] = q]
    PROVE  ArticleInv'
<1>1. /\ article'[j] = new /\ named'[j] = name
      /\ \A i \in Ids \ {j} : article'[i] = article[i] /\ named'[i] = named[i]
  BY DEF ArticleInv, ArticleTypes
<1>2. Stocked(j)' /\ \A i \in Ids \ {j} : Stocked(i)' = Stocked(i)
  BY <1>1, ArticleFacts DEF Stocked
<1>3. ArticleTypes'
  BY <1>1, <1>2 DEF ArticleInv, ArticleTypes
<1>4. ASSUME NEW d \in Actors PROVE CallOK(call'[d])
  BY DEF ArticleInv, ArticleTypes
<1>5. \A i, k \in Ids : Stocked(i)' /\ Stocked(k)' /\ i # k => article'[i].sku # article'[k].sku
  BY <1>1, <1>2 DEF ArticleInv
<1>6. ASSUME NEW sku \in stock' \cup ordered' PROVE \E i \in Ids : Stocked(i)' /\ article'[i].sku = sku
  <2>1. PICK i \in Ids : Stocked(i) /\ article[i].sku = sku
    BY DEF ArticleInv
  <2>. QED
    BY <1>1, <1>2, <2>1
<1>7. ASSUME NEW i \in Ids \ outdated', Stocked(i)' PROVE article'[i].rotation = named'[i]
  BY <1>1, <1>2, <1>7 DEF ArticleInv
<1>. QED
  BY <1>3, <1>4, <1>5, <1>6, <1>7 DEF ArticleInv, CallOK, Article!Rotation

LEMMA InsertArticleKeeps ==
    ASSUME ArticleInv, NEW c \in Actors, Article!InsertArticle(c)
    PROVE  ArticleInv'
<1>1. PICK row, t, q : /\ row = Head(call[c].todo) /\ t = call[c].tenant
                       /\ q = Article!Creating(t, Tail(call[c].todo))
  OBVIOUS
<1>2. CallOK(q) /\ call' = [call EXCEPT ![c] = q] /\ UNCHANGED <<stock, ordered>>
  BY <1>1, Creatings DEF Article!InsertArticle, Article!Goes
<1>3. CASE UNCHANGED <<article, named, outdated>>
  BY <1>2, <1>3, CallGoesOn
<1>4. CASE ~UNCHANGED <<article, named, outdated>>
  <2>0. PICK new : new = [tenant |-> t, sku |-> row.sku, rotation |-> Article!Rotation(row, "fifo"),
                          expires |-> row.expires]
    OBVIOUS
  <2>1. PICK j \in Ids \ (Article!Present \cup Article!Meant) :
          /\ ~Article!SkuTaken(row.sku, t, "none") /\ article' = [article EXCEPT ![j] = new]
          /\ named' = [named EXCEPT ![j] = Article!Rotation(row, "fifo")] /\ outdated' = outdated \ {j}
    BY <1>1, <1>4, <2>0, Zenon DEF Article!InsertArticle
  <2>2. ArticleRecord(new) /\ new.sku = row.sku /\ new.rotation = Article!Rotation(row, "fifo")
    BY <2>0 DEF ArticleRecord
  <2>3. ~Stocked(j)
    BY <2>1 DEF Stocked, Article!Present
  <2>4. \A i \in Ids \ {j} : Stocked(i) => article[i].sku # new.sku
    BY <2>1, <2>2, ArticleFacts DEF Article!SkuTaken, Article!Present, Stocked
  <2>5. outdated \ {j} \subseteq outdated'
    BY <2>1
  <2>. QED
    BY <1>2, <2>1, <2>2, <2>3, <2>4, <2>5, OtherArticles
<1>. QED
  BY <1>3, <1>4

LEMMA WriteArticleKeeps ==
    ASSUME ArticleInv, NEW c \in Actors, Article!WriteArticle(c)
    PROVE  ArticleInv'
<1>1. PICK j, row, was, rotation :
        j = call[c].id /\ row = call[c].row /\ was = call[c].was /\ rotation = call[c].rotation
  OBVIOUS
<1>2. rotation = Article!Rotation(row, was.rotation)
  BY <1>1 DEF Article!WriteArticle, ArticleInv, CallOK
<1>3. call' = [call EXCEPT ![c] = Article!NoCall] /\ UNCHANGED <<stock, ordered>>
  BY DEF Article!WriteArticle, Article!Goes
<1>4. CASE UNCHANGED <<article, named, outdated>>
  BY <1>3, <1>4, ArticleFacts, CallGoesOn
<1>5. CASE ~UNCHANGED <<article, named, outdated>>
  <2>0. PICK new, name : /\ new = [article[j] EXCEPT !.sku = row.sku, !.rotation = rotation,
                                                     !.expires = row.expires]
                         /\ name = Article!Rotation(row, named[j])
    OBVIOUS
  <2>1. /\ j \in Article!Present /\ ~Article!SkuTaken(row.sku, was.tenant, j)
        /\ row.sku # article[j].sku => ~Article!Referred(article[j].sku)
        /\ article' = [article EXCEPT ![j] = new] /\ named' = [named EXCEPT ![j] = name]
        /\ outdated' = IF article[j] # was THEN outdated \cup {j} ELSE outdated
    BY <1>1, <1>5, <2>0, Zenon DEF Article!WriteArticle
  <2>2. j \in Ids /\ Stocked(j) /\ ArticleRecord(article[j])
    BY <2>1 DEF Article!Present, Stocked, ArticleInv, ArticleTypes
  <2>3. PICK old : old = article[j] /\ ArticleRecord(old)
    BY <2>2
  <2>4. ArticleRecord(new) /\ new.sku = row.sku /\ new.rotation = rotation
    <3>1. new = [tenant |-> old.tenant, sku |-> row.sku, rotation |-> rotation, expires |-> row.expires]
      BY <2>0, <2>3 DEF ArticleRecord
    <3>. QED
      BY <3>1 DEF ArticleRecord
  <2>5. \A i \in Ids \ {j} : Stocked(i) => article[i].sku # new.sku
    BY <2>1, <2>4 DEF Article!SkuTaken, Article!Present, Stocked
  <2>6. article[j].sku # new.sku => article[j].sku \notin stock \cup ordered
    BY <2>1, <2>4 DEF Article!Referred
  <2>7. j \notin outdated' => new.rotation = name
    BY <1>2, <2>0, <2>1, <2>2, <2>4 DEF Article!Rotation, ArticleInv
  <2>8. outdated \ {j} \subseteq outdated'
    BY <2>1
  <2>. QED
    BY <1>3, <2>1, <2>2, <2>4, <2>5, <2>6, <2>7, <2>8, ArticleFacts, OtherArticles
<1>. QED
  BY <1>4, <1>5

LEMMA DeleteArticleKeeps ==
    ASSUME ArticleInv, NEW c \in Actors, Article!DeleteArticle(c)
    PROVE  ArticleInv'
<1>1. PICK j \in Article!Present :
        /\ article[j].sku \notin ordered /\ call' = [call EXCEPT ![c] = Article!NoCall]
        /\ article' = [article EXCEPT ![j] = Article!Absent]
        /\ stock' = stock \ {article[j].sku} /\ named' = [named EXCEPT ![j] = "none"]
        /\ UNCHANGED <<ordered, outdated>>
  BY DEF Article!DeleteArticle, Article!Begin, Article!Cascade
<1>2. /\ j \in Ids /\ ~Stocked(j)'
      /\ \A i \in Ids \ {j} : article'[i] = article[i] /\ named'[i] = named[i] /\ Stocked(i)' = Stocked(i)
  BY <1>1 DEF ArticleInv, ArticleTypes, Stocked, Article!Present
<1>3. ArticleTypes'
  BY <1>1, <1>2 DEF ArticleInv, ArticleTypes
<1>4. ASSUME NEW d \in Actors PROVE CallOK(call'[d])
  BY <1>1, ArticleFacts DEF ArticleInv, ArticleTypes
<1>5. \A i, k \in Ids : Stocked(i)' /\ Stocked(k)' /\ i # k => article'[i].sku # article'[k].sku
  BY <1>2 DEF ArticleInv
<1>6. ASSUME NEW sku \in stock' \cup ordered' PROVE \E i \in Ids : Stocked(i)' /\ article'[i].sku = sku
  <2>1. PICK i \in Ids : Stocked(i) /\ article[i].sku = sku
    BY <1>1 DEF ArticleInv
  <2>. QED
    BY <1>1, <1>2, <2>1
<1>7. ASSUME NEW i \in Ids \ outdated', Stocked(i)' PROVE article'[i].rotation = named'[i]
  BY <1>1, <1>2, <1>7 DEF ArticleInv
<1>. QED
  BY <1>3, <1>4, <1>5, <1>6, <1>7 DEF ArticleInv, CallOK, Article!Rotation

(* Stock is put down, and ordered, of an article that is there.            *)
LEMMA ReferringKeeps ==
    ASSUME ArticleInv, NEW j \in Ids, Article!AddStock(j) \/ Article!AddOrderItem(j)
    PROVE  ArticleInv'
<1>1. /\ Stocked(j) /\ stock' \cup ordered' = stock \cup ordered \cup {article[j].sku}
      /\ UNCHANGED <<article, call, named, outdated>>
  BY DEF Article!AddStock, Article!AddOrderItem, Article!Present, Stocked
<1>2. ASSUME NEW sku \in stock' \cup ordered' PROVE \E i \in Ids : Stocked(i)' /\ article'[i].sku = sku
  <2>1. PICK i \in Ids : Stocked(i) /\ article[i].sku = sku
    BY <1>1 DEF ArticleInv
  <2>. QED
    BY <1>1, <2>1 DEF Stocked
<1>3. ArticleTypes'
  BY <1>1 DEF ArticleInv, ArticleTypes, Stocked
<1>. QED
  BY <1>1, <1>2, <1>3 DEF ArticleInv, CallOK, Article!Rotation, Stocked

LEMMA ArticleStep ==
    ASSUME ArticleInv, [Article!Next]_(Article!articleVars)
    PROVE  ArticleInv'
<1>1. CASE UNCHANGED Article!articleVars
  <2>1. UNCHANGED <<article, stock, ordered, call, named, outdated>>
    BY <1>1 DEF Article!articleVars
  <2>2. ArticleTypes'
    BY <2>1 DEF ArticleInv, ArticleTypes, Stocked
  <2>. QED
    BY <2>1, <2>2 DEF ArticleInv, CallOK, Article!Rotation, Stocked
<1>2. CASE Article!Next
  BY <1>2, CallsWait, InsertArticleKeeps, WriteArticleKeeps, DeleteArticleKeeps, ReferringKeeps
  DEF Article!Next
<1>. QED
  BY <1>1, <1>2

(* The preview of an import is a function of what there is.                *)
LEMMA PreviewAlwaysKept == Article!PreviewIsKept
<1>. SUFFICES ASSUME NEW t \in Tenants, NEW row1 \in Rows, NEW row2 \in Rows, NEW n \in 1 .. 2
              PROVE  LET given == <<row1, row2>>
                         says == Article!ValidateImportRows(t, given)[n]
                     IN  \/ n \in Article!Imports(t, given) <=> says = "new"
                         \/ given[n].sku = Example
                         \/ says = "new" /\ \E i \in Article!Present \ Article!OfTenant(t) :
                                              article[i].sku = given[n].sku
                         \/ says = "duplicate" /\ row1.sku # row2.sku
  BY DEF Article!PreviewIsKept
<1>. DEFINE given == <<row1, row2>>
            says == Article!ValidateImportRows(t, given)[n]
<1>1. DOMAIN given = 1 .. 2 /\ given[1] = row1 /\ given[2] = row2
  OBVIOUS
<1>2. says = IF Article!SeenBefore(given, n) THEN "duplicate"
             ELSE IF Article!ArticleExistsBySkuForTenant(given[n].sku, t) THEN "exists" ELSE "new"
  BY <1>1 DEF Article!ValidateImportRows
<1>3. n \in Article!Imports(t, given) <=>
        /\ given[n].sku # Example /\ ~Article!SkuTaken(given[n].sku, t, "none")
        /\ \A k \in 1 .. (n - 1) : given[k].sku # given[n].sku
  BY <1>1 DEF Article!Imports
<1>4. Article!ArticleExistsBySkuForTenant(given[n].sku, t) => Article!SkuTaken(given[n].sku, t, "none")
  BY ArticleFacts DEF Article!ArticleExistsBySkuForTenant, Article!SkuTaken, Article!OfTenant, Article!Present
<1>5. Article!SkuTaken(given[n].sku, t, "none") =>
        \/ Article!ArticleExistsBySkuForTenant(given[n].sku, t)
        \/ \E i \in Article!Present \ Article!OfTenant(t) : article[i].sku = given[n].sku
  BY DEF Article!ArticleExistsBySkuForTenant, Article!SkuTaken, Article!OfTenant
<1>6. CASE \E k \in 1 .. (n - 1) : given[k].sku = given[n].sku
  <2>1. Article!SeenBefore(given, n)
    BY <1>6 DEF Article!SeenBefore
  <2>. QED
    BY <1>2, <1>3, <1>6, <2>1
<1>7. CASE ~\E k \in 1 .. (n - 1) : given[k].sku = given[n].sku
  <2>1. Article!SeenBefore(given, n) => row1.sku # row2.sku
    BY <1>1, <1>7 DEF Article!SeenBefore
  <2>. QED
    BY <1>2, <1>3, <1>4, <1>5, <1>7, <2>1
<1>. QED
  BY <1>6, <1>7

(* However requests overlap, what is in stock or on an order is of exactly *)
(* one article, an article rotates as it was last told by name unless an   *)
(* update wrote what had changed since it was read, and an import makes    *)
(* the articles its preview told.                                          *)
THEOREM ArticlesStayAsTold == Article!Spec => []ArticlesAreAsTold
<1>1. ArticleInv => Article!ReferencesResolve
  BY DEF ArticleInv, Article!ReferencesResolve, Article!Present, Stocked
<1>2. ArticleInv => Article!RotationIsAsAsked
  BY DEF ArticleInv, Article!RotationIsAsAsked, Article!Present, Stocked
<1>3. ArticleInv => ArticlesAreAsTold
  BY <1>1, <1>2, PreviewAlwaysKept DEF ArticlesAreAsTold
<1>. QED
  BY <1>3, InitArticle, ArticleStep, PTL DEF Article!Spec

-----------------------------------------------------------------------------
(* Signing up.  A token keeps what it was stored with, and is spent for    *)
(* good; so whatever was read of it, or of the tokens there were, is true  *)
(* of it still.                                                            *)
TokenRecords == [state : {"live", "used", "expired"}, email : Tenants, slug : Slugs,
                 seeds : BOOLEAN, knew : SUBSET Keys]
Storing == [at : {"store"}, email : Tenants, slug : Slugs, seeds : BOOLEAN, knew : SUBSET Keys]
Signing == [at : {"free"}, email : Tenants, slug : Slugs, seeds : BOOLEAN] \cup Storing
             \cup [at : {"verify"}, token : Keys]
             \cup [at : {"seed"}, slug : Slugs, tx : {"none", "open"}, done : Nat]

Known(t) == token[t] # Tenant!NoToken

SignupTypes ==
    /\ token \in [Keys -> TokenRecords \cup {Tenant!NoToken}]
    /\ tenants \in [Slugs -> Keys \cup {Tenant!Nobody}]
    /\ users \in [Tenants -> Slugs \cup {Tenant!Nobody, "another tenant"}]
    /\ signup \in [Actors -> Signing \cup {Tenant!Idle}]
    /\ demo \in [Slugs -> SUBSET Tenant!AllSeeded]

(* The tokens known to a request are for other emails and slugs.           *)
Apart(knew, email, slug) ==
    \A u \in knew : Known(u) /\ token[u].email # email /\ token[u].slug # slug

TokenOK(t) == Known(t) => Apart(token[t].knew, token[t].email, token[t].slug)

TenantOK(s) ==
    tenants[s] # Tenant!Nobody =>
        /\ Known(tenants[s]) /\ token[tenants[s]].slug = s /\ token[tenants[s]].state = "used"
        /\ users[token[tenants[s]].email] = s

Seeds(s) == tenants[s] # Tenant!Nobody /\ token[tenants[s]].seeds
DemoOK(s) == demo[s] # {} => demo[s] = Tenant!AllSeeded /\ Seeds(s)

SignerOK(c) ==
    /\ signup[c].at = "store" => Apart(signup[c].knew, signup[c].email, signup[c].slug)
    /\ signup[c].at = "verify" => Known(signup[c].token)
    /\ signup[c].at = "seed" => Seeds(signup[c].slug)

SignupInv ==
    /\ SignupTypes
    /\ \A t \in Keys : TokenOK(t)
    /\ \A s \in Slugs : TenantOK(s) /\ DemoOK(s)
    /\ \A c \in Actors : SignerOK(c)

(* What was stored stays, and so do tenants.                               *)
Persists ==
    /\ \A t \in Keys : Known(t) =>
        /\ Known(t)' /\ token'[t].email = token[t].email /\ token'[t].slug = token[t].slug
        /\ token'[t].seeds = token[t].seeds /\ token'[t].knew = token[t].knew
    /\ \A s \in Slugs : tenants[s] # Tenant!Nobody => tenants'[s] = tenants[s]

LEMMA SignupRecords ==
    /\ Tenant!Idle.at = "none" /\ Tenant!NoToken.state = "none" /\ Tenant!NoToken \notin TokenRecords
    /\ Tenant!Idle \notin Signing /\ Tenant!Nobody \notin Keys /\ Tenant!Nobody \notin Slugs
    /\ Tenant!Nobody # "another tenant"
BY AdministrationAssumption
   DEF Tenant!Idle, Tenant!NoToken, TokenRecords, Signing, Storing, Tenant!Nobody

LEMMA InitSignup == Tenant!Init => SignupInv
<1>. SUFFICES ASSUME Tenant!Init PROVE SignupInv
  OBVIOUS
<1>1. SignupTypes
  BY DEF Tenant!Init, SignupTypes
<1>. QED
  BY <1>1, SignupRecords
  DEF Tenant!Init, SignupInv, TokenOK, TenantOK, DemoOK, SignerOK, Known

(* What a request that waits holds.                                        *)
LEMMA SignerType ==
    ASSUME SignupTypes, NEW c \in Actors
    PROVE  /\ signup[c].at = "free" => /\ signup[c].email \in Tenants /\ signup[c].slug \in Slugs
                                       /\ signup[c].seeds \in BOOLEAN
           /\ signup[c].at = "store" => signup[c] \in Storing
           /\ signup[c].at = "verify" => signup[c].token \in Keys
           /\ signup[c].at = "seed" => /\ signup[c].slug \in Slugs /\ signup[c].done \in Nat
                                       /\ signup[c].tx \in {"none", "open"}
                                       /\ signup[c] \in [at : {"seed"}, slug : Slugs,
                                                         tx : {"none", "open"}, done : Nat]
BY SignupRecords DEF SignupTypes, Signing, Storing

LEMMA TenantToken ==
    ASSUME SignupInv, NEW s \in Slugs, tenants[s] # Tenant!Nobody
    PROVE  tenants[s] \in Keys /\ Known(tenants[s]) /\ token[tenants[s]] \in TokenRecords
<1>1. tenants[s] \in Keys
  BY DEF SignupInv, SignupTypes
<1>2. Known(tenants[s])
  BY DEF SignupInv, TenantOK
<1>3. token[tenants[s]] \in TokenRecords \cup {Tenant!NoToken}
  BY <1>1 DEF SignupInv, SignupTypes
<1>. QED
  BY <1>1, <1>2, <1>3 DEF Known

LEMMA SignerWaits ==
    ASSUME SignupInv, Persists, NEW d \in Actors, signup'[d] = signup[d]
    PROVE  SignerOK(d)'
<1>1. CASE signup[d].at = "store"
  <2>1. signup[d].knew \in SUBSET Keys /\ Apart(signup[d].knew, signup[d].email, signup[d].slug)
    BY <1>1, SignerType DEF SignupInv, SignerOK, Storing
  <2>. QED
    BY <1>1, <2>1 DEF Persists, SignerOK, Apart
<1>2. CASE signup[d].at = "verify"
  <2>1. signup[d].token \in Keys /\ Known(signup[d].token)
    BY <1>2, SignerType DEF SignupInv, SignerOK
  <2>. QED
    BY <1>2, <2>1 DEF Persists, SignerOK
<1>3. CASE signup[d].at = "seed"
  <2>1. PICK s \in Slugs : s = signup[d].slug /\ Seeds(s) /\ tenants[s] \in Keys /\ Known(tenants[s])
    BY <1>3, SignerType, TenantToken DEF SignupInv, SignerOK, Seeds
  <2>2. Seeds(s)'
    BY <2>1 DEF Persists, Seeds
  <2>. QED
    BY <1>3, <2>1, <2>2 DEF SignerOK
<1>. QED
  BY <1>1, <1>2, <1>3 DEF SignerOK

LEMMA StoredTokenStays ==
    ASSUME SignupInv, Persists, NEW t \in Keys, Known(t)
    PROVE  TokenOK(t)'
<1>1. token[t].knew \in SUBSET Keys /\ Apart(token[t].knew, token[t].email, token[t].slug)
  BY DEF SignupInv, SignupTypes, TokenOK, Known, TokenRecords
<1>. QED
  BY <1>1 DEF Persists, TokenOK, Apart

LEMMA DemoStays ==
    ASSUME SignupInv, Persists, NEW s \in Slugs, demo'[s] = demo[s]
    PROVE  DemoOK(s)'
BY TenantToken DEF SignupInv, Persists, DemoOK, Seeds

LEMMA TenantStays ==
    ASSUME SignupInv, Persists, NEW s \in Slugs, tenants[s] # Tenant!Nobody,
           token'[tenants[s]].state = token[tenants[s]].state,
           \A m \in Tenants : users[m] # Tenant!Nobody => users'[m] = users[m]
    PROVE  TenantOK(s)'
<1>1. PICK t \in Keys : t = tenants[s] /\ token[t] \in TokenRecords
  BY TenantToken
<1>2. token[t].email \in Tenants /\ users[token[t].email] = s /\ s # Tenant!Nobody
  BY <1>1, SignupRecords DEF SignupInv, TenantOK, TokenRecords
<1>. QED
  BY <1>1, <1>2 DEF SignupInv, Persists, TenantOK

(* A request goes on and writes nothing.                                   *)
LEMMA RequestGoesOn ==
    ASSUME SignupInv, NEW c \in Actors, NEW q, q \in Signing \cup {Tenant!Idle},
           signup' = [signup EXCEPT ![c] = q], UNCHANGED <<token, tenants, users, demo>>,
           q.at = "store" => Apart(q.knew, q.email, q.slug),
           q.at = "verify" => Known(q.token),
           q.at = "seed" => Seeds(q.slug)
    PROVE  SignupInv'
<1>1. SignupTypes'
  BY DEF SignupInv, SignupTypes
<1>2. Persists
  BY DEF Persists, Known
<1>3. signup'[c] = q /\ \A d \in Actors \ {c} : signup'[d] = signup[d]
  BY DEF SignupInv, SignupTypes
<1>4. SignerOK(c)'
  BY <1>3 DEF SignerOK, Apart, Known, Seeds
<1>5. \A d \in Actors : SignerOK(d)'
  BY <1>2, <1>3, <1>4, SignerWaits
<1>6. \A t \in Keys : TokenOK(t)'
  BY DEF SignupInv, TokenOK, Apart, Known
<1>7. \A s \in Slugs : TenantOK(s)' /\ DemoOK(s)'
  BY DEF SignupInv, TenantOK, DemoOK, Known, Seeds
<1>. QED
  BY <1>1, <1>5, <1>6, <1>7 DEF SignupInv

LEMMA SignupWaits ==
    ASSUME SignupInv, NEW c \in Actors,
           \/ Tenant!CheckFree(c) \/ Tenant!CheckPending(c) \/ Tenant!ReadToken(c)
           \/ Tenant!BeginSeed(c) \/ Tenant!GoesDown(c)
    PROVE  SignupInv'
<1>1. Tenant!Idle \in Signing \cup {Tenant!Idle} /\ Tenant!Idle.at = "none"
  BY SignupRecords
<1>2. CASE Tenant!CheckFree(c)
  <2>1. PICK m \in Tenants, s \in Slugs, b \in BOOLEAN :
          /\ signup' = [signup EXCEPT ![c] = [at |-> "free", email |-> m, slug |-> s, seeds |-> b]]
          /\ UNCHANGED <<token, tenants, users, demo>>
    BY <1>2 DEF Tenant!CheckFree, Tenant!Goes
  <2>2. PICK q : q = [at |-> "free", email |-> m, slug |-> s, seeds |-> b]
    OBVIOUS
  <2>3. q \in Signing \cup {Tenant!Idle} /\ q.at = "free"
    BY <2>2 DEF Signing
  <2>. QED
    BY <2>1, <2>2, <2>3, RequestGoesOn
<1>3. CASE Tenant!CheckPending(c)
  <2>1. PICK m, s, b : m = signup[c].email /\ s = signup[c].slug /\ b = signup[c].seeds
    OBVIOUS
  <2>2. m \in Tenants /\ s \in Slugs /\ b \in BOOLEAN
    BY <1>3, <2>1, SignerType DEF Tenant!CheckPending, SignupInv
  <2>3. PICK q : /\ q = IF Tenant!PendingFor(m, s) = {}
                        THEN [at |-> "store", email |-> m, slug |-> s, seeds |-> b, knew |-> Tenant!Live]
                        ELSE Tenant!Idle
                 /\ signup' = [signup EXCEPT ![c] = q] /\ UNCHANGED <<token, tenants, users, demo>>
    BY <1>3, <2>1 DEF Tenant!CheckPending, Tenant!Goes
  <2>4. Tenant!Live \in SUBSET Keys /\ \A u \in Tenant!Live : Known(u)
    BY SignupRecords DEF Tenant!Live, Known
  <2>5. CASE Tenant!PendingFor(m, s) = {}
    <3>1. q \in Signing /\ q.at = "store" /\ q.knew = Tenant!Live /\ q.email = m /\ q.slug = s
      BY <2>2, <2>3, <2>4, <2>5 DEF Signing, Storing
    <3>2. Apart(Tenant!Live, m, s)
      BY <2>4, <2>5 DEF Tenant!PendingFor, Apart
    <3>. QED
      BY <2>3, <3>1, <3>2, RequestGoesOn
  <2>6. CASE Tenant!PendingFor(m, s) # {}
    BY <1>1, <2>3, <2>6, RequestGoesOn
  <2>. QED
    BY <2>5, <2>6
<1>4. CASE Tenant!ReadToken(c)
  <2>1. PICK t \in Tenant!Live : /\ signup' = [signup EXCEPT ![c] = [at |-> "verify", token |-> t]]
                                 /\ UNCHANGED <<token, tenants, users, demo>>
    BY <1>4 DEF Tenant!ReadToken, Tenant!Goes
  <2>0. PICK q : q = [at |-> "verify", token |-> t]
    OBVIOUS
  <2>2. t \in Keys /\ Known(t)
    BY SignupRecords DEF Tenant!Live, Known
  <2>3. q \in Signing \cup {Tenant!Idle} /\ q.at = "verify" /\ q.token = t
    BY <2>0, <2>2 DEF Signing
  <2>. QED
    BY <2>0, <2>1, <2>2, <2>3, RequestGoesOn
<1>5. CASE Tenant!BeginSeed(c)
  <2>1. PICK s, n : s = signup[c].slug /\ n = signup[c].done
    OBVIOUS
  <2>2. /\ s \in Slugs /\ n \in Nat /\ Seeds(s)
        /\ signup[c] \in [at : {"seed"}, slug : Slugs, tx : {"none", "open"}, done : Nat]
    BY <1>5, <2>1, SignerType DEF Tenant!BeginSeed, SignupInv, SignerOK
  <2>3. PICK q : /\ q = IF demo[s] = {} THEN [signup[c] EXCEPT !.tx = "open"] ELSE Tenant!Idle
                 /\ signup' = [signup EXCEPT ![c] = q] /\ UNCHANGED <<token, tenants, users, demo>>
    BY <1>5, <2>1 DEF Tenant!BeginSeed, Tenant!Goes
  <2>4. CASE demo[s] = {}
    <3>1. q \in Signing /\ q.at = "seed" /\ q.slug = s
      BY <2>1, <2>2, <2>3, <2>4 DEF Signing
    <3>. QED
      BY <2>2, <2>3, <3>1, RequestGoesOn
  <2>5. CASE demo[s] # {}
    BY <1>1, <2>3, <2>5, RequestGoesOn
  <2>. QED
    BY <2>4, <2>5
<1>6. CASE Tenant!GoesDown(c)
  BY <1>1, <1>6, RequestGoesOn DEF Tenant!GoesDown, Tenant!Goes
<1>. QED
  BY <1>2, <1>3, <1>4, <1>5, <1>6

LEMMA StoreTokenKeeps ==
    ASSUME SignupInv, NEW c \in Actors, Tenant!StoreToken(c)
    PROVE  SignupInv'
<1>1. PICK m, s, b, knew : /\ m = signup[c].email /\ s = signup[c].slug
                           /\ b = signup[c].seeds /\ knew = signup[c].knew
  OBVIOUS
<1>2. /\ m \in Tenants /\ s \in Slugs /\ b \in BOOLEAN /\ knew \in SUBSET Keys /\ Apart(knew, m, s)
  BY <1>1, SignerType DEF Tenant!StoreToken, SignupInv, SignerOK, Storing
<1>0. PICK row : row = [state |-> "live", email |-> m, slug |-> s, seeds |-> b, knew |-> knew]
  OBVIOUS
<1>3. PICK t \in Keys :
        /\ ~Known(t)
        /\ token' = [token EXCEPT ![t] = row] /\ signup' = [signup EXCEPT ![c] = Tenant!Idle]
        /\ UNCHANGED <<tenants, users, demo>>
  BY <1>0, <1>1 DEF Tenant!StoreToken, Tenant!Goes, Known
<1>4. row \in TokenRecords /\ row.knew = knew /\ row.email = m /\ row.slug = s
  BY <1>0, <1>2 DEF TokenRecords
<1>5. SignupTypes'
  BY <1>3, <1>4 DEF SignupInv, SignupTypes
<1>6. token'[t] = row /\ \A u \in Keys \ {t} : token'[u] = token[u]
  BY <1>3 DEF SignupInv, SignupTypes
<1>7. Persists
  BY <1>3, <1>6 DEF Persists, Known
<1>8. signup'[c] = Tenant!Idle /\ \A d \in Actors \ {c} : signup'[d] = signup[d]
  BY <1>3 DEF SignupInv, SignupTypes
<1>9. \A d \in Actors : SignerOK(d)'
  <2>1. SignerOK(c)'
    BY <1>8, SignupRecords DEF SignerOK
  <2>. QED
    BY <1>7, <1>8, <2>1, SignerWaits
<1>10. ASSUME NEW u \in Keys PROVE TokenOK(u)'
  <2>1. CASE u = t
    <3>1. Apart(knew, m, s)'
      BY <1>2, <1>3, <1>6 DEF Apart, Known
    <3>. QED
      BY <1>4, <1>6, <2>1, <3>1 DEF TokenOK
  <2>2. CASE u # t /\ Known(u)
    BY <1>7, <2>2, StoredTokenStays
  <2>3. CASE u # t /\ ~Known(u)
    BY <1>6, <2>3 DEF TokenOK, Known
  <2>. QED
    BY <2>1, <2>2, <2>3
<1>11. ASSUME NEW r \in Slugs PROVE TenantOK(r)' /\ DemoOK(r)'
  <2>1. DemoOK(r)'
    BY <1>3, <1>7, DemoStays
  <2>2. CASE tenants[r] = Tenant!Nobody
    BY <1>3, <2>1, <2>2 DEF TenantOK
  <2>3. CASE tenants[r] # Tenant!Nobody
    <3>1. tenants[r] \in Keys \ {t}
      BY <1>3, <2>3, TenantToken
    <3>. QED
      BY <1>3, <1>6, <1>7, <2>1, <2>3, <3>1, TenantStays
  <2>. QED
    BY <2>2, <2>3
<1>. QED
  BY <1>5, <1>9, <1>10, <1>11 DEF SignupInv

LEMMA CompleteSignupKeeps ==
    ASSUME SignupInv, NEW c \in Actors, Tenant!CompleteSignup(c)
    PROVE  SignupInv'
<1>1. PICK t : t = signup[c].token
  OBVIOUS
<1>2. t \in Keys /\ Known(t) /\ token[t] \in TokenRecords
  <2>1. t \in Keys /\ Known(t)
    BY <1>1, SignerType DEF Tenant!CompleteSignup, SignupInv, SignerOK
  <2>. QED
    BY <2>1 DEF SignupInv, SignupTypes, Known
<1>3. PICK s, m, b : s = token[t].slug /\ m = token[t].email /\ b = token[t].seeds
  OBVIOUS
<1>4. s \in Slugs /\ m \in Tenants /\ b \in BOOLEAN /\ s # Tenant!Nobody /\ t # Tenant!Nobody
  BY <1>2, <1>3, SignupRecords DEF TokenRecords
<1>5. CASE signup' = [signup EXCEPT ![c] = Tenant!Idle] /\ UNCHANGED <<token, tenants, users, demo>>
  BY <1>5, SignupRecords, RequestGoesOn
<1>6. CASE ~(signup' = [signup EXCEPT ![c] = Tenant!Idle] /\ UNCHANGED <<token, tenants, users, demo>>)
  <2>1. PICK q : q = IF b THEN [at |-> "seed", slug |-> s, tx |-> "none", done |-> 0] ELSE Tenant!Idle
    OBVIOUS
  <2>2. /\ tenants[s] = Tenant!Nobody /\ users[m] = Tenant!Nobody
        /\ tenants' = [tenants EXCEPT ![s] = t] /\ users' = [users EXCEPT ![m] = s]
        /\ token' = [token EXCEPT ![t] = [token[t] EXCEPT !.state = "used"]]
        /\ signup' = [signup EXCEPT ![c] = q] /\ demo' = demo
    BY <1>1, <1>3, <1>6, <2>1, Zenon DEF Tenant!CompleteSignup, Tenant!RollsBack, Tenant!Goes
  <2>3. q \in Signing \cup {Tenant!Idle} /\ (q.at \in {"none", "seed"}) /\ (q.at = "seed" => b /\ q.slug = s)
    BY <1>4, <2>1, SignupRecords DEF Signing
  <2>4. /\ \A u \in Keys \ {t} : token'[u] = token[u]
        /\ token'[t] \in TokenRecords /\ token'[t].state = "used" /\ token'[t].slug = s
        /\ token'[t].email = m /\ token'[t].seeds = b /\ token'[t].knew = token[t].knew
    BY <1>2, <1>3, <2>2 DEF SignupInv, SignupTypes, TokenRecords
  <2>5. /\ tenants'[s] = t /\ \A r \in Slugs \ {s} : tenants'[r] = tenants[r]
        /\ users'[m] = s /\ \A n \in Tenants \ {m} : users'[n] = users[n]
        /\ signup'[c] = q /\ \A d \in Actors \ {c} : signup'[d] = signup[d]
    BY <1>4, <2>2 DEF SignupInv, SignupTypes
  <2>6. SignupTypes'
    BY <1>2, <1>4, <2>2, <2>3, <2>4 DEF SignupInv, SignupTypes
  <2>7. Known(t)'
    BY <2>4, SignupRecords DEF Known
  <2>8. Persists
    BY <1>3, <2>2, <2>4, <2>5, <2>7 DEF Persists, Known
  <2>9. \A u \in Keys : TokenOK(u)'
    <3>1. ASSUME NEW u \in Keys PROVE TokenOK(u)'
      <4>1. CASE Known(u)
        BY <2>8, <4>1, StoredTokenStays
      <4>2. CASE ~Known(u)
        BY <1>2, <2>4, <4>2 DEF TokenOK, Known
      <4>. QED
        BY <4>1, <4>2
    <3>. QED
      BY <3>1
  <2>10. TenantOK(s)' /\ Seeds(s)' = (b)
    BY <1>4, <2>4, <2>5, <2>7 DEF TenantOK, Seeds
  <2>11. \A d \in Actors : SignerOK(d)'
    <3>1. SignerOK(c)'
      BY <2>3, <2>5, <2>10 DEF SignerOK
    <3>. QED
      BY <2>5, <2>8, <3>1, SignerWaits
  <2>12. ASSUME NEW r \in Slugs PROVE TenantOK(r)' /\ DemoOK(r)'
    <3>1. DemoOK(r)'
      BY <2>2, <2>8, DemoStays
    <3>2. CASE r = s
      BY <2>10, <3>1, <3>2
    <3>3. CASE r # s /\ tenants[r] # Tenant!Nobody
      <4>1. tenants[r] \in Keys \ {t}
        BY <1>3, <3>3, TenantToken DEF SignupInv, TenantOK
      <4>2. \A n \in Tenants : users[n] # Tenant!Nobody => users'[n] = users[n]
        BY <2>2, <2>5
      <4>. QED
        BY <2>4, <2>8, <3>1, <3>3, <4>1, <4>2, TenantStays
    <3>4. CASE r # s /\ tenants[r] = Tenant!Nobody
      BY <2>5, <3>1, <3>4 DEF TenantOK
    <3>. QED
      BY <3>2, <3>3, <3>4
  <2>. QED
    BY <2>6, <2>9, <2>11, <2>12 DEF SignupInv
<1>. QED
  BY <1>5, <1>6

LEMMA SeedStepKeeps ==
    ASSUME SignupInv, NEW c \in Actors, Tenant!SeedStep(c)
    PROVE  SignupInv'
<1>1. PICK s, n : s = signup[c].slug /\ n = signup[c].done + 1
  OBVIOUS
<1>2. /\ s \in Slugs /\ n \in Nat /\ Seeds(s) /\ signup[c].at = "seed"
      /\ signup[c] \in [at : {"seed"}, slug : Slugs, tx : {"none", "open"}, done : Nat]
  BY <1>1, SignerType DEF Tenant!SeedStep, SignupInv, SignerOK
<1>3. PICK q : q = IF n = Len(Tenant!SeedSteps) THEN Tenant!Idle ELSE [signup[c] EXCEPT !.done = n]
  OBVIOUS
<1>4. /\ demo' = [demo EXCEPT ![s] = IF n = Len(Tenant!SeedSteps) THEN Tenant!AllSeeded ELSE demo[s]]
      /\ signup' = [signup EXCEPT ![c] = q] /\ UNCHANGED <<token, tenants, users>>
  BY <1>1, <1>3, Zenon DEF Tenant!SeedStep, Tenant!Written, Tenant!Goes
<1>5. q \in Signing \cup {Tenant!Idle} /\ q.at \in {"none", "seed"}
      /\ (q.at = "seed" => q.slug = s)
  BY <1>1, <1>2, <1>3, SignupRecords DEF Signing
<1>6. SignupTypes'
  BY <1>4, <1>5 DEF SignupInv, SignupTypes
<1>7. Persists
  BY <1>4 DEF Persists, Known
<1>8. signup'[c] = q /\ \A d \in Actors \ {c} : signup'[d] = signup[d]
  BY <1>4 DEF SignupInv, SignupTypes
<1>9. Seeds(s)'
  BY <1>2, <1>4 DEF Seeds
<1>10. \A d \in Actors : SignerOK(d)'
  <2>1. SignerOK(c)'
    BY <1>5, <1>8, <1>9 DEF SignerOK
  <2>. QED
    BY <1>7, <1>8, <2>1, SignerWaits
<1>11. \A t \in Keys : TokenOK(t)'
  BY <1>4 DEF SignupInv, TokenOK, Apart, Known
<1>12. ASSUME NEW r \in Slugs PROVE TenantOK(r)' /\ DemoOK(r)'
  <2>1. TenantOK(r)'
    BY <1>4 DEF SignupInv, TenantOK, Known
  <2>2. CASE r = s
    <3>1. demo'[s] = Tenant!AllSeeded \/ demo'[s] = demo[s]
      BY <1>2, <1>4 DEF SignupInv, SignupTypes
    <3>. QED
      BY <1>2, <1>9, <2>1, <2>2, <3>1 DEF SignupInv, DemoOK
  <2>3. CASE r # s
    BY <1>4, <1>7, <2>1, <2>3, DemoStays DEF SignupInv, SignupTypes
  <2>. QED
    BY <2>2, <2>3
<1>. QED
  BY <1>6, <1>10, <1>11, <1>12 DEF SignupInv

(* A token expires, an administrator creates a user.                       *)
LEMMA ExpireKeeps ==
    ASSUME SignupInv, NEW t \in Keys, Tenant!Expire(t)
    PROVE  SignupInv'
<1>1. /\ token[t].state = "live" /\ token' = [token EXCEPT ![t] = [token[t] EXCEPT !.state = "expired"]]
      /\ UNCHANGED <<tenants, users, signup, demo>>
  BY DEF Tenant!Expire, Tenant!Live
<1>2. Known(t) /\ token[t] \in TokenRecords
  BY <1>1, SignupRecords DEF SignupInv, SignupTypes, Known
<1>3. /\ \A u \in Keys \ {t} : token'[u] = token[u]
      /\ token'[t] \in TokenRecords /\ token'[t].slug = token[t].slug
      /\ token'[t].email = token[t].email /\ token'[t].seeds = token[t].seeds
      /\ token'[t].knew = token[t].knew
  BY <1>1, <1>2 DEF SignupInv, SignupTypes, TokenRecords
<1>4. SignupTypes'
  BY <1>1, <1>3 DEF SignupInv, SignupTypes
<1>5. Known(t)'
  BY <1>3, SignupRecords DEF Known
<1>6. Persists
  BY <1>1, <1>3, <1>5 DEF Persists, Known
<1>7. \A d \in Actors : SignerOK(d)'
  BY <1>1, <1>6, SignerWaits
<1>8. ASSUME NEW u \in Keys PROVE TokenOK(u)'
  <2>1. CASE Known(u)
    BY <1>6, <2>1, StoredTokenStays
  <2>2. CASE ~Known(u)
    BY <1>2, <1>3, <2>2 DEF TokenOK, Known
  <2>. QED
    BY <2>1, <2>2
<1>9. ASSUME NEW r \in Slugs PROVE TenantOK(r)' /\ DemoOK(r)'
  <2>1. DemoOK(r)'
    BY <1>1, <1>6, DemoStays
  <2>2. CASE tenants[r] # Tenant!Nobody
    <3>1. tenants[r] \in Keys \ {t}
      BY <1>1, <2>2, TenantToken DEF SignupInv, TenantOK
    <3>. QED
      BY <1>1, <1>3, <1>6, <2>1, <2>2, <3>1, TenantStays
  <2>3. CASE tenants[r] = Tenant!Nobody
    BY <1>1, <2>1, <2>3 DEF TenantOK
  <2>. QED
    BY <2>2, <2>3
<1>. QED
  BY <1>4, <1>7, <1>8, <1>9 DEF SignupInv

LEMMA CreateUserKeeps ==
    ASSUME SignupInv, NEW m \in Tenants, Tenant!CreateUser(m)
    PROVE  SignupInv'
<1>1. /\ users[m] = Tenant!Nobody /\ users' = [users EXCEPT ![m] = "another tenant"]
      /\ UNCHANGED <<token, tenants, signup, demo>>
  BY DEF Tenant!CreateUser
<1>2. SignupTypes'
  BY <1>1 DEF SignupInv, SignupTypes
<1>3. Persists
  BY <1>1 DEF Persists, Known
<1>4. \A d \in Actors : SignerOK(d)'
  BY <1>1, <1>3, SignerWaits
<1>5. \A t \in Keys : TokenOK(t)'
  BY <1>1 DEF SignupInv, TokenOK, Apart, Known
<1>6. \A n \in Tenants : users[n] # Tenant!Nobody => users'[n] = users[n]
  BY <1>1 DEF SignupInv, SignupTypes
<1>7. ASSUME NEW r \in Slugs PROVE TenantOK(r)' /\ DemoOK(r)'
  <2>1. DemoOK(r)'
    BY <1>1, <1>3, DemoStays
  <2>2. CASE tenants[r] # Tenant!Nobody
    BY <1>1, <1>3, <1>6, <2>1, <2>2, TenantStays
  <2>3. CASE tenants[r] = Tenant!Nobody
    BY <1>1, <2>1, <2>3 DEF TenantOK
  <2>. QED
    BY <2>2, <2>3
<1>. QED
  BY <1>2, <1>4, <1>5, <1>7 DEF SignupInv

LEMMA SignupInvariant == Tenant!Spec => []SignupInv
<1>1. SignupInv /\ [Tenant!Next]_(Tenant!signupVars) => SignupInv'
  <2>. SUFFICES ASSUME SignupInv, [Tenant!Next]_(Tenant!signupVars) PROVE SignupInv'
    OBVIOUS
  <2>1. CASE UNCHANGED Tenant!signupVars
    <3>1. UNCHANGED <<token, tenants, users, signup, demo>>
      BY <2>1 DEF Tenant!signupVars
    <3>2. SignupTypes'
      BY <3>1 DEF SignupInv, SignupTypes
    <3>3. (\A t \in Keys : TokenOK(t)) => (\A t \in Keys : TokenOK(t))'
      BY <3>1 DEF TokenOK, Apart, Known
    <3>4. (\A s \in Slugs : TenantOK(s) /\ DemoOK(s)) => (\A s \in Slugs : TenantOK(s) /\ DemoOK(s))'
      BY <3>1 DEF TenantOK, DemoOK, Known, Seeds
    <3>5. (\A c \in Actors : SignerOK(c)) => (\A c \in Actors : SignerOK(c))'
      BY <3>1 DEF SignerOK, Apart, Known, Seeds
    <3>. QED
      BY <3>2, <3>3, <3>4, <3>5 DEF SignupInv
  <2>2. CASE Tenant!Next
    BY <2>2, SignupWaits, StoreTokenKeeps, CompleteSignupKeeps, SeedStepKeeps, ExpireKeeps,
       CreateUserKeeps DEF Tenant!Next
  <2>. QED
    BY <2>1, <2>2
<1>. QED
  BY <1>1, InitSignup, PTL DEF Tenant!Spec

(* Whatever overlaps, a tenant has the administrator its token named and   *)
(* all of the demonstration data or none; two pending requests are for one *)
(* email or slug only if they overlapped.                                  *)
THEOREM TenantsAreWhole == Tenant!Spec => []TenantIsWhole
<1>1. SignupInv => TenantIsWhole
  <2>. SUFFICES ASSUME SignupInv PROVE TenantIsWhole
    OBVIOUS
  <2>1. Tenant!PendingOnce
    BY SignupRecords DEF Tenant!PendingOnce, Tenant!Live, SignupInv, TokenOK, Known, Apart
  <2>2. Tenant!TenantHasItsAdmin
    BY DEF Tenant!TenantHasItsAdmin, SignupInv, TenantOK
  <2>3. Tenant!DemoIsWhole
    BY DEF Tenant!DemoIsWhole, SignupInv, DemoOK, Seeds
  <2>. QED
    BY <2>1, <2>2, <2>3 DEF TenantIsWhole
<1>. QED
  BY <1>1, SignupInvariant, PTL

-----------------------------------------------------------------------------
(* Password resets.  A link works while it is unused; it is unused until   *)
(* the first reset with it, so whoever read it before has started before   *)
(* that reset.  A link once stored is never stored again.                  *)
LinkRecords == [state : {"unused", "used", "expired"}, found : SUBSET Ids]
Mailing == [at : {"mail"}, link : Ids, found : SUBSET Ids]
Resets == [at : {"reset"}, link : Ids, since : Nat]

Stored(l) == link[l] # Password!NoLink
UsedUp(k) == Stored(k) /\ link[k].state # "unused"

PasswordTypes ==
    /\ link \in [Ids -> LinkRecords \cup {Password!NoLink}]
    /\ mailed \subseteq Ids /\ done \in Nat
    /\ resets \in [Ids -> SUBSET [number : Nat, since : Nat]]
    /\ reset \in [Actors -> Mailing \cup Resets \cup {Password!Idle}]

(* What a link found is used up, or will be when it is stored.             *)
LinkOK(l) ==
    /\ ~Stored(l) \/ link[l].state = "unused" => resets[l] = {}
    /\ Stored(l) => l \in mailed /\ \A k \in link[l].found : UsedUp(k)
    /\ \A r \in resets[l] : r.number <= done
    /\ \A r, s \in resets[l] : r.number < s.number => s.since < r.number

CallerOK(c) ==
    /\ reset[c].at = "mail" =>
         /\ ~Stored(reset[c].link) /\ reset[c].link \in mailed
         /\ \A k \in reset[c].found : Stored(k)
         /\ \A d \in Actors \ {c} : reset[d].at = "mail" => reset[d].link # reset[c].link
    /\ reset[c].at = "reset" =>
         /\ Stored(reset[c].link) /\ reset[c].since <= done
         /\ \A r \in resets[reset[c].link] : reset[c].since < r.number

PasswordInv ==
    /\ PasswordTypes
    /\ \A l \in Ids : LinkOK(l)
    /\ \A c \in Actors : CallerOK(c)

LEMMA PasswordRecords ==
    /\ Password!Idle.at = "none" /\ Password!NoLink.state = "none" /\ Password!NoLink \notin LinkRecords
    /\ Password!Idle \notin Mailing \cup Resets
BY DEF Password!Idle, Password!NoLink, LinkRecords, Mailing, Resets

LEMMA InitPassword == Password!Init => PasswordInv
BY PasswordRecords DEF Password!Init, PasswordInv, PasswordTypes, LinkOK, CallerOK, Stored

LEMMA RequestKeeps ==
    ASSUME PasswordInv, NEW c \in Actors, Password!RequestPasswordReset(c)
    PROVE  PasswordInv'
<1>1. PICK l \in Ids \ mailed :
        /\ reset' = [reset EXCEPT ![c] = [at |-> "mail", link |-> l, found |-> Password!Usable]]
        /\ mailed' = mailed \cup {l} /\ UNCHANGED <<link, resets, done>>
  BY DEF Password!RequestPasswordReset, Password!Goes
<1>2. Password!Usable \in SUBSET Ids /\ \A k \in Password!Usable : Stored(k)
  BY PasswordRecords DEF Password!Usable, Stored
<1>3. PasswordTypes'
  BY <1>1, <1>2 DEF PasswordInv, PasswordTypes, Mailing
<1>4. \A k \in Ids : LinkOK(k)'
  BY <1>1 DEF PasswordInv, LinkOK, Stored, UsedUp
<1>5. ~Stored(l)
  BY <1>1 DEF PasswordInv, LinkOK
<1>6. \A d \in Actors : reset[d].at = "mail" => reset[d].link # l
  BY <1>1 DEF PasswordInv, CallerOK
<1>7. reset'[c] = [at |-> "mail", link |-> l, found |-> Password!Usable]
      /\ \A d \in Actors \ {c} : reset'[d] = reset[d]
  BY <1>1 DEF PasswordInv, PasswordTypes
<1>8. ASSUME NEW d \in Actors PROVE CallerOK(d)'
  BY <1>1, <1>2, <1>5, <1>6, <1>7 DEF PasswordInv, CallerOK, Stored
<1>. QED
  BY <1>3, <1>4, <1>8 DEF PasswordInv

LEMMA CommitRequestKeeps ==
    ASSUME PasswordInv, NEW c \in Actors, Password!CommitRequest(c)
    PROVE  PasswordInv'
<1>1. PICK l, found : l = reset[c].link /\ found = reset[c].found
  OBVIOUS
<1>2. reset[c] \in Mailing /\ reset[c].at = "mail"
  BY PasswordRecords DEF Password!CommitRequest, PasswordInv, PasswordTypes, Mailing, Resets
<1>3. l \in Ids /\ found \in SUBSET Ids /\ ~Stored(l) /\ l \in mailed /\ \A k \in found : Stored(k)
  BY <1>1, <1>2 DEF PasswordInv, CallerOK, Mailing
<1>4. /\ link' = [k \in Ids |-> IF k = l THEN [state |-> "unused", found |-> found]
                                ELSE IF k \in found THEN [link[k] EXCEPT !.state = "used"] ELSE link[k]]
      /\ reset' = [reset EXCEPT ![c] = Password!Idle] /\ UNCHANGED <<mailed, resets, done>>
  BY <1>1 DEF Password!CommitRequest, Password!Goes, Password!Invalidated
<1>5. \A k \in Ids \ {l} : /\ Stored(k) = Stored(k)' /\ (UsedUp(k) => UsedUp(k)')
                           /\ Stored(k) => link'[k].found = link[k].found
                           /\ link'[k].state = "unused" => link[k].state = "unused"
                           /\ k \in found => UsedUp(k)'
  BY <1>3, <1>4, PasswordRecords DEF PasswordInv, PasswordTypes, Stored, UsedUp, LinkRecords
<1>6. link'[l] = [state |-> "unused", found |-> found] /\ l \notin found /\ ~UsedUp(l) /\ Stored(l)'
  BY <1>3, <1>4, PasswordRecords DEF Stored, UsedUp, Password!NoLink
<1>7. PasswordTypes'
  <2>1. \A k \in found : link[k] \in LinkRecords
    BY <1>3 DEF PasswordInv, PasswordTypes, Stored
  <2>2. link' \in [Ids -> LinkRecords \cup {Password!NoLink}]
    BY <1>3, <1>4, <2>1 DEF PasswordInv, PasswordTypes, LinkRecords
  <2>. QED
    BY <1>4, <2>2 DEF PasswordInv, PasswordTypes
<1>8. ASSUME NEW k \in Ids PROVE LinkOK(k)'
  <2>1. CASE k = l
    BY <1>3, <1>4, <1>5, <1>6, <2>1 DEF PasswordInv, LinkOK
  <2>2. CASE k # l
    <3>1. \A j \in link[k].found : Stored(k) => UsedUp(j) /\ j \in Ids \ {l}
      BY <1>6, <2>2 DEF PasswordInv, PasswordTypes, LinkOK, LinkRecords, Stored
    <3>. QED
      BY <1>4, <1>5, <2>2, <3>1 DEF PasswordInv, LinkOK
  <2>. QED
    BY <2>1, <2>2
<1>9. ASSUME NEW d \in Actors PROVE CallerOK(d)'
  <2>1. CASE d = c
    BY <1>4, <2>1, PasswordRecords DEF PasswordInv, PasswordTypes, CallerOK
  <2>2. CASE d # c
    <3>1. reset'[d] = reset[d] /\ \A e \in Actors : reset'[e].at = "mail" => reset'[e] = reset[e]
      BY <1>4, <2>2, PasswordRecords DEF PasswordInv, PasswordTypes
    <3>2. reset[d].at = "mail" => reset[d].link # l /\ reset[d].link \in Ids
                                    /\ reset[d].found \in SUBSET Ids
      BY <1>1, <1>2, <2>2, PasswordRecords DEF PasswordInv, PasswordTypes, CallerOK, Mailing, Resets
    <3>3. reset[d].at = "reset" => reset[d].link # l /\ reset[d].link \in Ids
      BY <1>3, PasswordRecords DEF PasswordInv, PasswordTypes, CallerOK, Mailing, Resets
    <3>. QED
      BY <1>4, <1>5, <1>6, <3>1, <3>2, <3>3 DEF PasswordInv, CallerOK
  <2>. QED
    BY <2>1, <2>2
<1>. QED
  BY <1>7, <1>8, <1>9 DEF PasswordInv

LEMMA ResetKeeps ==
    ASSUME PasswordInv, NEW c \in Actors, Password!ResetPassword(c)
    PROVE  PasswordInv'
<1>1. PICK l, since : l = reset[c].link /\ since = reset[c].since
  OBVIOUS
<1>2. reset[c] \in Resets /\ reset[c].at = "reset"
  BY PasswordRecords DEF Password!ResetPassword, PasswordInv, PasswordTypes, Mailing, Resets
<1>3. l \in Ids /\ since \in Nat /\ Stored(l) /\ since <= done /\ \A r \in resets[l] : since < r.number
  BY <1>1, <1>2 DEF PasswordInv, CallerOK, Resets
<1>4. PICK this : this = [number |-> done + 1, since |-> since]
  OBVIOUS
<1>5. /\ link' = [link EXCEPT ![l] = [link[l] EXCEPT !.state = "used"]]
      /\ resets' = [resets EXCEPT ![l] = resets[l] \cup {this}]
      /\ done' = done + 1 /\ reset' = [reset EXCEPT ![c] = Password!Idle] /\ mailed' = mailed
  BY <1>1, <1>4 DEF Password!ResetPassword, Password!Goes, Password!Spent
<1>6. done \in Nat /\ \A k \in Ids : resets[k] \in SUBSET [number : Nat, since : Nat]
  BY DEF PasswordInv, PasswordTypes
<1>7. \A k \in Ids : /\ Stored(k) = Stored(k)' /\ (UsedUp(k) => UsedUp(k)')
                     /\ Stored(k) => link'[k].found = link[k].found
                     /\ link'[k].state = "unused" => k # l /\ link[k].state = "unused"
                     /\ k # l => resets'[k] = resets[k]
  BY <1>3, <1>5, PasswordRecords DEF PasswordInv, PasswordTypes, Stored, UsedUp, LinkRecords
<1>8. resets'[l] = resets[l] \cup {this} /\ link'[l].state = "used"
  BY <1>3, <1>5 DEF PasswordInv, PasswordTypes, Stored, LinkRecords
<1>9. PasswordTypes'
  BY <1>3, <1>4, <1>5, <1>6 DEF PasswordInv, PasswordTypes, LinkRecords, Stored
<1>10. ASSUME NEW k \in Ids PROVE LinkOK(k)'
  <2>1. \A j \in link[k].found : Stored(k) => UsedUp(j) /\ j \in Ids
    BY DEF PasswordInv, PasswordTypes, LinkOK, LinkRecords, Stored
  <2>2. /\ ~Stored(k)' \/ link'[k].state = "unused" => resets'[k] = {}
        /\ Stored(k)' => k \in mailed' /\ \A j \in link'[k].found : UsedUp(j)'
    BY <1>3, <1>5, <1>7, <2>1 DEF PasswordInv, LinkOK
  <2>3. \A r \in resets'[k] : r.number <= done'
    BY <1>4, <1>5, <1>6, <1>7, <1>8 DEF PasswordInv, LinkOK
  <2>4. \A r, s \in resets'[k] : r.number < s.number => s.since < r.number
    BY <1>3, <1>4, <1>6, <1>7, <1>8 DEF PasswordInv, LinkOK
  <2>. QED
    BY <2>2, <2>3, <2>4 DEF LinkOK
<1>11. ASSUME NEW d \in Actors PROVE CallerOK(d)'
  <2>1. CASE d = c
    BY <1>5, <2>1, PasswordRecords DEF PasswordInv, PasswordTypes, CallerOK
  <2>2. CASE d # c
    <3>1. reset'[d] = reset[d] /\ \A e \in Actors : reset'[e].at = "mail" => reset'[e] = reset[e]
      BY <1>5, <2>2, PasswordRecords DEF PasswordInv, PasswordTypes
    <3>2. reset[d].at = "mail" => reset[d].link \in Ids /\ reset[d].found \in SUBSET Ids
      BY PasswordRecords DEF PasswordInv, PasswordTypes, Mailing, Resets
    <3>3. reset[d].at = "reset" => reset[d].link \in Ids /\ reset[d].since \in Nat
      BY PasswordRecords DEF PasswordInv, PasswordTypes, Mailing, Resets
    <3>4. reset[d].at = "reset" => \A r \in resets'[reset[d].link] : reset[d].since < r.number
      BY <1>4, <1>6, <1>7, <1>8, <3>3 DEF PasswordInv, CallerOK
    <3>. QED
      BY <1>5, <1>6, <1>7, <3>1, <3>2, <3>3, <3>4 DEF PasswordInv, CallerOK
  <2>. QED
    BY <2>1, <2>2
<1>. QED
  BY <1>9, <1>10, <1>11 DEF PasswordInv

(* A request rolls back, a link expires, a token is read.                  *)
LEMMA LinksWait ==
    ASSUME PasswordInv,
           \/ \E c \in Actors : Password!RequestRollsBack(c) \/ Password!ReadToken(c)
           \/ \E l \in Ids : Password!Expire(l)
    PROVE  PasswordInv'
<1>1. ASSUME NEW c \in Actors, Password!RequestRollsBack(c) PROVE PasswordInv'
  <2>1. reset' = [reset EXCEPT ![c] = Password!Idle] /\ UNCHANGED <<link, mailed, resets, done>>
    BY <1>1 DEF Password!RequestRollsBack, Password!Goes
  <2>. QED
    BY <2>1, PasswordRecords DEF PasswordInv, PasswordTypes, LinkOK, CallerOK, Stored, UsedUp
<1>2. ASSUME NEW c \in Actors, Password!ReadToken(c) PROVE PasswordInv'
  <2>1. PICK l \in mailed \cap Password!Usable :
          /\ reset' = [reset EXCEPT ![c] = [at |-> "reset", link |-> l, since |-> done]]
          /\ UNCHANGED <<link, mailed, resets, done>>
    BY <1>2 DEF Password!ReadToken, Password!Goes
  <2>2. l \in Ids /\ Stored(l) /\ resets[l] = {}
    BY PasswordRecords DEF Password!Usable, PasswordInv, LinkOK, Stored
  <2>3. reset'[c] = [at |-> "reset", link |-> l, since |-> done]
        /\ \A d \in Actors \ {c} : reset'[d] = reset[d]
    BY <2>1 DEF PasswordInv, PasswordTypes
  <2>4. PasswordTypes'
    BY <2>1, <2>2 DEF PasswordInv, PasswordTypes, Resets
  <2>5. \A k \in Ids : LinkOK(k)'
    BY <2>1 DEF PasswordInv, LinkOK, Stored, UsedUp
  <2>6. done \in Nat
    BY DEF PasswordInv, PasswordTypes
  <2>7. ASSUME NEW d \in Actors PROVE CallerOK(d)'
    BY <2>1, <2>2, <2>3, <2>6 DEF PasswordInv, CallerOK, Stored
  <2>. QED
    BY <2>4, <2>5, <2>7 DEF PasswordInv
<1>3. ASSUME NEW l \in Ids, Password!Expire(l) PROVE PasswordInv'
  <2>1. /\ link[l].state = "unused" /\ link' = [link EXCEPT ![l] = [link[l] EXCEPT !.state = "expired"]]
        /\ UNCHANGED <<mailed, resets, done, reset>>
    BY <1>3 DEF Password!Expire, Password!Usable
  <2>2. Stored(l) /\ link[l] \in LinkRecords
    BY <2>1, PasswordRecords DEF PasswordInv, PasswordTypes, Stored
  <2>3. PasswordTypes'
    BY <2>1, <2>2 DEF PasswordInv, PasswordTypes, LinkRecords
  <2>4. \A k \in Ids : /\ Stored(k) = Stored(k)' /\ (UsedUp(k) => UsedUp(k)')
                       /\ link'[k].found = link[k].found
                       /\ link'[k].state = "unused" => link[k].state = "unused"
    BY <2>1, <2>2, PasswordRecords DEF PasswordInv, PasswordTypes, Stored, UsedUp, LinkRecords
  <2>5. ASSUME NEW k \in Ids PROVE LinkOK(k)'
    <3>1. \A j \in link[k].found : Stored(k) => UsedUp(j) /\ j \in Ids
      BY DEF PasswordInv, PasswordTypes, LinkOK, LinkRecords, Stored
    <3>. QED
      BY <2>1, <2>4, <3>1 DEF PasswordInv, LinkOK
  <2>6. ASSUME NEW d \in Actors PROVE CallerOK(d)'
    <3>1. /\ reset[d].at = "mail" => reset[d].link \in Ids /\ reset[d].found \in SUBSET Ids
          /\ reset[d].at = "reset" => reset[d].link \in Ids
      BY PasswordRecords DEF PasswordInv, PasswordTypes, Mailing, Resets
    <3>. QED
      BY <2>1, <2>4, <3>1 DEF PasswordInv, CallerOK
  <2>. QED
    BY <2>3, <2>5, <2>6 DEF PasswordInv
<1>. QED
  BY <1>1, <1>2, <1>3

LEMMA PasswordStep ==
    ASSUME PasswordInv, [Password!Next]_(Password!resetVars)
    PROVE  PasswordInv'
<1>1. CASE UNCHANGED Password!resetVars
  BY <1>1 DEF Password!resetVars, PasswordInv, PasswordTypes, LinkOK, CallerOK, Stored, UsedUp
<1>2. CASE Password!Next
  BY <1>2, RequestKeeps, CommitRequestKeeps, ResetKeeps, LinksWait DEF Password!Next
<1>. QED
  BY <1>1, <1>2

(* However requests and resets overlap, a link sets the password twice     *)
(* only in resets that overlapped, and of two links that work neither was  *)
(* there when the other was asked for.                                     *)
THEOREM LinksAreSpentOnce == Password!Spec => []LinksAreSpent
<1>1. PasswordInv => LinksAreSpent
  BY PasswordRecords DEF PasswordInv, LinkOK, Stored, UsedUp, LinksAreSpent, Password!LinkWorksOnce,
     Password!OldLinksDie, Password!Usable
<1>. QED
  BY <1>1, InitPassword, PasswordStep, PTL DEF Password!Spec

-----------------------------------------------------------------------------
(* The limiter.  What a refused request was told and what is in the bucket *)
(* are together never less than a token.  What the requests of a window    *)
(* took and what is left are no more than the window refilled and a bucket *)
(* for each time the cleaner can have deleted one; before he deletes one,  *)
(* he came since it was asked for, and one bucket less was taken.          *)
Times(k) == k * PerToken

Filled(k) == Limiter!Full * (k \div (2 * IdleTicks))

Taken(n) == Times(passed[n]) + level <= Filled(n - phase + 3 * IdleTicks - 2) + n
TakenBefore(n) == seen > phase => Times(passed[n]) <= Filled(n - phase + 2 * IdleTicks - 2) + n

LimiterInv ==
    /\ Limiter!TypeOK
    /\ \A p \in promises : p + level >= PerToken
    /\ \A n \in 1..Window : Taken(n) /\ TakenBefore(n)

LEMMA LimiterSizes ==
    /\ Burst \in Nat \ {0} /\ PerToken \in Nat \ {0} /\ Second \in Nat \ {0} /\ IdleTicks \in Nat \ {0}
    /\ Window \in Nat
    /\ Limiter!Full \in Nat /\ Limiter!Full >= PerToken /\ Limiter!Full = Times(Burst)
    /\ Times(0) = 0
    /\ \A k \in Nat : Times(k) \in Nat /\ Times(k + 1) = Times(k) + PerToken
<1>1. /\ Burst \in Nat \ {0} /\ PerToken \in Nat \ {0}
      /\ Second \in Nat \ {0} /\ IdleTicks \in Nat \ {0} /\ Window \in Nat
  BY Zenon, AdministrationAssumption
<1>2. ASSUME NEW b \in Nat, NEW p \in Nat
      PROVE  /\ b * p \in Nat /\ (b + 1) * p = b * p + p /\ 0 * p = 0
             /\ b # 0 => b * p >= p
  OBVIOUS
<1>. QED
  BY <1>1, <1>2 DEF Limiter!Full, Times

LEMMA LimiterNumbers ==
    /\ PerToken \in Nat /\ Second \in Nat /\ IdleTicks \in Nat /\ IdleTicks > 0 /\ Window \in Nat
    /\ Limiter!Full \in Nat /\ Limiter!Full >= PerToken
BY LimiterSizes

(* What is filled grows with time, by a bucket in twice the cleaner's.     *)
LEMMA Filling ==
    /\ \A k \in Nat : Filled(k) \in Nat /\ Filled(k + 2 * IdleTicks) = Filled(k) + Limiter!Full
    /\ \A j, k \in Nat : j <= k => Filled(j) <= Filled(k)
<1>. DEFINE D == 2 * IdleTicks
<1>1. D \in Nat \ {0} /\ Limiter!Full \in Nat
  BY LimiterSizes
<1>2. ASSUME NEW k \in Nat, NEW d \in Nat \ {0}
      PROVE  k \div d \in Nat /\ (k + d) \div d = k \div d + 1
  <2>1. /\ k \div d \in Nat /\ k % d \in 0..(d - 1) /\ k = (k \div d) * d + (k % d)
        /\ (k + d) \div d \in Nat /\ (k + d) % d \in 0..(d - 1)
        /\ k + d = ((k + d) \div d) * d + ((k + d) % d)
    OBVIOUS
  <2>2. ASSUME NEW q \in Nat, NEW r \in 0..(d - 1), NEW u \in Nat, NEW v \in 0..(d - 1),
               q * d + r + d = u * d + v
        PROVE  u = q + 1
    <3>1. (q + 1) * d = q * d + d
      OBVIOUS
    <3>2. CASE u > q + 1
      <4>1. PICK e \in Nat : u = q + 2 + e
        <5>1. u - (q + 2) \in Nat
          BY <3>2
        <5>. QED
          BY <5>1
      <4>2. u * d = q * d + d + d + e * d /\ e * d \in Nat /\ q * d \in Nat
        BY <4>1
      <4>. QED
        BY <2>2, <4>2
    <3>3. CASE u < q + 1
      <4>1. PICK e \in Nat : q = u + e
        <5>1. q - u \in Nat
          BY <3>3
        <5>. QED
          BY <5>1
      <4>2. q * d = u * d + e * d /\ e * d \in Nat /\ u * d \in Nat
        BY <4>1
      <4>. QED
        BY <2>2, <4>2
    <3>. QED
      BY <3>2, <3>3
  <2>. QED
    BY <2>1, <2>2
<1>3. ASSUME NEW j \in Nat, NEW k \in Nat, j <= k, NEW d \in Nat \ {0}
      PROVE  j \div d <= k \div d
  <2>1. /\ j \div d \in Nat /\ j % d \in 0..(d - 1) /\ j = (j \div d) * d + (j % d)
        /\ k \div d \in Nat /\ k % d \in 0..(d - 1) /\ k = (k \div d) * d + (k % d)
    OBVIOUS
  <2>2. ASSUME NEW q \in Nat, NEW r \in 0..(d - 1), NEW u \in Nat, NEW v \in 0..(d - 1),
               q * d + r <= u * d + v
        PROVE  q <= u
    <3>1. SUFFICES ASSUME q > u PROVE FALSE
      OBVIOUS
    <3>2. PICK e \in Nat : q = u + 1 + e
      <4>1. q - (u + 1) \in Nat
        BY <3>1
      <4>. QED
        BY <4>1
    <3>3. q * d = u * d + d + e * d /\ e * d \in Nat /\ u * d \in Nat
      BY <3>2
    <3>. QED
      BY <2>2, <3>3
  <2>. QED
    BY <1>3, <2>1, <2>2
<1>4. ASSUME NEW b \in Nat, NEW j \in Nat, NEW k \in Nat
      PROVE  b * j \in Nat /\ b * (j + 1) = b * j + b /\ (j <= k => b * j <= b * k)
  <2>1. b * j \in Nat /\ b * (j + 1) = b * j + b
    OBVIOUS
  <2>2. ASSUME j <= k PROVE b * j <= b * k
    <3>1. PICK e \in Nat : k = j + e
      <4>1. k - j \in Nat
        BY <2>2
      <4>. QED
        BY <4>1
    <3>2. b * k = b * j + b * e /\ b * e \in Nat
      BY <3>1
    <3>. QED
      BY <2>1, <3>2
  <2>. QED
    BY <2>1, <2>2
<1>. HIDE DEF D
<1>5. \A k \in Nat : Filled(k) = Limiter!Full * (k \div D)
  BY DEF Filled, D
<1>6. ASSUME NEW k \in Nat
      PROVE  Filled(k) \in Nat /\ Filled(k + D) = Filled(k) + Limiter!Full
  <2>1. k \div D \in Nat /\ (k + D) \div D = k \div D + 1
    BY <1>1, <1>2, Zenon
  <2>2. k + D \in Nat
    BY <1>1
  <2>. QED
    BY <1>1, <1>4, <1>5, <2>1, <2>2
<1>7. ASSUME NEW j \in Nat, NEW k \in Nat, j <= k
      PROVE  Filled(j) <= Filled(k)
  <2>1. j \div D \in Nat /\ k \div D \in Nat /\ j \div D <= k \div D
    BY <1>1, <1>2, <1>3, <1>7
  <2>. QED
    BY <1>1, <1>4, <1>5, <2>1
<1>. QED
  BY <1>6, <1>7 DEF D

LEMMA LimiterTypes ==
    /\ Limiter!TypeOK <=> /\ level \in 0..Limiter!Full /\ seen \in 0..(IdleTicks + 1)
                         /\ phase \in 0..(IdleTicks - 1) /\ passed \in [1..Window -> Nat]
                         /\ promises \subseteq 0..(PerToken + Second)
    /\ Limiter!TypeOK => /\ level \in Nat /\ level <= Limiter!Full /\ seen \in Nat /\ phase \in Nat
                         /\ \A p \in promises : p \in Nat /\ p <= PerToken + Second
                         /\ \A n \in 1..Window : passed[n] \in Nat
<1>1. Limiter!TypeOK <=> /\ level \in 0..Limiter!Full /\ seen \in 0..(IdleTicks + 1)
                         /\ phase \in 0..(IdleTicks - 1) /\ passed \in [1..Window -> Nat]
                         /\ promises \subseteq 0..(PerToken + Second)
  BY DEF Limiter!TypeOK, Limiter!Never
<1>. QED
  BY <1>1, LimiterNumbers

LEMMA LimiterTypesKept ==
    ASSUME level' \in 0..Limiter!Full, seen' \in 0..(IdleTicks + 1), phase' \in 0..(IdleTicks - 1),
           passed' = [n \in 1..Window |-> passed'[n]], \A n \in 1..Window : passed'[n] \in Nat,
           promises' \subseteq 0..(PerToken + Second)
    PROVE  Limiter!TypeOK'
<1>1. Limiter!Full' = Limiter!Full
  BY DEF Limiter!Full
<1>2. passed' \in [1..Window -> Nat]
  OBVIOUS
<1>. QED
  BY <1>1, <1>2 DEF Limiter!TypeOK, Limiter!Never

LEMMA LimiterKept ==
    ASSUME Limiter!TypeOK', \A p \in promises' : p + level' >= PerToken,
           \A n \in 1..Window : Taken(n)' /\ TakenBefore(n)'
    PROVE  LimiterInv'
BY DEF LimiterInv

LEMMA RoundedUp ==
    ASSUME NEW ticks \in Nat
    PROVE  /\ Limiter!secondsUntil(ticks) * Second \in Nat
           /\ Limiter!secondsUntil(ticks) * Second >= ticks
           /\ Limiter!secondsUntil(ticks) * Second <= ticks + Second
<1>. DEFINE whole == (ticks + Second - 1) \div Second
            left  == (ticks + Second - 1) % Second
<1>1. Second \in Nat \ {0} /\ ticks + Second - 1 \in Nat
  BY LimiterSizes
<1>2. /\ whole \in Nat /\ left \in 0 .. (Second - 1)
      /\ ticks + Second - 1 = whole * Second + left
  BY <1>1
<1>3. whole * Second >= ticks /\ whole * Second <= ticks + Second
  <2>. HIDE DEF whole, left
  <2>1. PICK all : all \in Nat /\ all = whole * Second
    BY <1>1, <1>2
  <2>. QED
    BY <1>1, <1>2, <2>1
<1>4. CASE whole < 1
  BY <1>1, <1>2, <1>3, <1>4 DEF Limiter!secondsUntil
<1>5. CASE ~(whole < 1)
  BY <1>1, <1>2, <1>3, <1>5 DEF Limiter!secondsUntil
<1>. QED
  BY <1>4, <1>5

LEMMA InitLimiter == Limiter!Init => LimiterInv
<1>. SUFFICES ASSUME Limiter!Init PROVE LimiterInv
  OBVIOUS
<1>1. Limiter!TypeOK
  BY LimiterSizes DEF Limiter!Init, Limiter!TypeOK, Limiter!Never
<1>2. ASSUME NEW n \in 1..Window
      PROVE  Taken(n) /\ TakenBefore(n)
  <2>1. /\ passed[n] = 0 /\ level = Limiter!Full /\ phase = 0
    BY DEF Limiter!Init
  <2>2. /\ n + IdleTicks - 2 \in Nat /\ n + 2 * IdleTicks - 2 \in Nat
        /\ n - 0 + 3 * IdleTicks - 2 = (n + IdleTicks - 2) + 2 * IdleTicks
        /\ n - 0 + 2 * IdleTicks - 2 = n + 2 * IdleTicks - 2
    BY LimiterNumbers
  <2>3. /\ Filled(n - phase + 3 * IdleTicks - 2) = Filled(n + IdleTicks - 2) + Limiter!Full
        /\ Filled(n - phase + 2 * IdleTicks - 2) \in Nat /\ Filled(n + IdleTicks - 2) \in Nat
    BY <2>1, <2>2, Filling
  <2>. QED
    BY <2>1, <2>3, LimiterSizes DEF Taken, TakenBefore
<1>3. \A p \in promises : p + level >= PerToken
  BY DEF Limiter!Init
<1>. QED
  BY <1>1, <1>2, <1>3 DEF LimiterInv

LEMMA LimiterRequestKeeps ==
    ASSUME LimiterInv, Limiter!Request
    PROVE  LimiterInv'
<1>1. seen' = 0 /\ phase' = phase
  BY DEF Limiter!Request
<1>2. /\ level \in Nat /\ level <= Limiter!Full /\ phase \in 0..(IdleTicks - 1)
      /\ promises \subseteq 0..(PerToken + Second) /\ passed \in [1..Window -> Nat]
  BY LimiterTypes DEF LimiterInv
<1>3. \A n \in 1..Window : TakenBefore(n)'
  <2>1. ~(seen' > phase')
    BY <1>1, <1>2, LimiterNumbers
  <2>. QED
    BY <2>1 DEF TakenBefore
<1>6. ASSUME NEW n \in 1..Window
      PROVE  /\ Filled(n - phase + 3 * IdleTicks - 2)' = Filled(n - phase + 3 * IdleTicks - 2)
             /\ Filled(n - phase + 3 * IdleTicks - 2) \in Nat
  <2>1. n - phase + 3 * IdleTicks - 2 \in Nat
    BY <1>2, LimiterNumbers
  <2>. QED
    BY <1>1, <2>1, Filling DEF Filled, Limiter!Full
<1>4. CASE /\ level >= PerToken /\ level' = level - PerToken /\ promises' = {}
           /\ passed' = [n \in 1..Window |-> passed[n] + 1]
  <2>1. ASSUME NEW n \in 1..Window
        PROVE  passed'[n] \in Nat /\ Taken(n)'
    <3>1. passed[n] \in Nat /\ passed'[n] = passed[n] + 1
      BY <1>2, <1>4
    <3>2. Times(passed'[n]) = Times(passed[n]) + PerToken /\ Times(passed[n]) \in Nat
      BY <3>1, LimiterSizes
    <3>3. Times(passed[n]) + level <= Filled(n - phase + 3 * IdleTicks - 2) + n
      BY DEF LimiterInv, Taken
    <3>4. Times(passed'[n]) + level' <= Filled(n - phase + 3 * IdleTicks - 2) + n
      BY <1>2, <1>4, <1>6, <3>2, <3>3, LimiterNumbers
    <3>. QED
      BY <1>6, <3>1, <3>4 DEF Taken, Times
  <2>2. level' \in 0..Limiter!Full
    BY <1>2, <1>4, LimiterSizes
  <2>3. Limiter!TypeOK'
    <3>1. seen' \in 0..(IdleTicks + 1) /\ phase' \in 0..(IdleTicks - 1) /\ promises' = {}
      BY <1>1, <1>2, <1>4, LimiterNumbers
    <3>2. passed' = [n \in 1..Window |-> passed'[n]] /\ \A n \in 1..Window : passed'[n] \in Nat
      BY <1>4, <2>1
    <3>. QED
      BY <2>2, <3>1, <3>2, LimiterTypesKept
  <2>. QED
    BY <1>3, <1>4, <2>1, <2>3, LimiterKept
<1>5. CASE /\ level < PerToken /\ level' = level /\ promises' = promises \cup {Limiter!computeHeaders}
           /\ passed' = passed
  <2>1. PICK ticks \in Nat : ticks = PerToken - level
    BY <1>2, <1>5, LimiterSizes
  <2>2. PICK told : told = Limiter!computeHeaders /\ told \in Nat /\ told >= ticks /\ told <= ticks + Second
    BY <2>1, RoundedUp DEF Limiter!computeHeaders
  <2>3. told \in 0..(PerToken + Second) /\ told + level >= PerToken
    BY <1>2, <2>1, <2>2, LimiterSizes
  <2>4. Limiter!TypeOK'
    <3>1. seen' \in 0..(IdleTicks + 1) /\ phase' \in 0..(IdleTicks - 1) /\ level' \in 0..Limiter!Full
      BY <1>1, <1>2, <1>5, LimiterNumbers
    <3>2. promises' \subseteq 0..(PerToken + Second)
      BY <1>2, <1>5, <2>2, <2>3
    <3>3. passed' = [n \in 1..Window |-> passed'[n]] /\ \A n \in 1..Window : passed'[n] \in Nat
      BY <1>2, <1>5
    <3>. QED
      BY <3>1, <3>2, <3>3, LimiterTypesKept
  <2>5. \A p \in promises' : p + level' >= PerToken
    BY <1>5, <2>2, <2>3 DEF LimiterInv
  <2>6. \A n \in 1..Window : Taken(n)'
    BY <1>1, <1>5, <1>6 DEF LimiterInv, Taken, Times
  <2>. QED
    BY <1>3, <2>4, <2>5, <2>6, LimiterKept
<1>. QED
  BY <1>4, <1>5, Zenon DEF Limiter!Request

(* The cleaner comes when he was away for IdleTicks.                       *)
LEMMA PhaseTurns ==
    ASSUME phase \in 0..(IdleTicks - 1), phase' = (phase + 1) % IdleTicks
    PROVE  IF phase + 1 = IdleTicks THEN phase' = 0 ELSE phase' = phase + 1
<1>1. ASSUME NEW m \in Nat, NEW p \in Nat \ {0}, m <= p
      PROVE  m % p = IF m = p THEN 0 ELSE m
  <2>1. PICK q \in Nat, r \in 0..(p - 1) : m = q * p + r /\ r = m % p
    <3>1. m \div p \in Nat /\ m % p \in 0..(p - 1) /\ m = (m \div p) * p + (m % p)
      OBVIOUS
    <3>. QED
      BY <3>1
  <2>2. CASE q = 0
    BY <1>1, <2>1, <2>2
  <2>3. CASE q # 0
    <3>1. PICK d \in Nat : q = 1 + d
      <4>1. q - 1 \in Nat
        BY <2>3
      <4>. QED
        BY <4>1
    <3>2. q * p = p + d * p /\ d * p \in Nat
      BY <3>1
    <3>. QED
      BY <1>1, <2>1, <3>2
  <2>. QED
    BY <2>2, <2>3
<1>2. phase + 1 \in Nat /\ IdleTicks \in Nat \ {0} /\ phase + 1 <= IdleTicks
  BY LimiterSizes
<1>3. (phase + 1) % IdleTicks = IF phase + 1 = IdleTicks THEN 0 ELSE phase + 1
  BY <1>1, <1>2
<1>. QED
  BY <1>3

LEMMA LimiterTickKeeps ==
    ASSUME LimiterInv, Limiter!Tick
    PROVE  LimiterInv'
<1>1. /\ phase' = (phase + 1) % IdleTicks
      /\ passed' = [n \in 1..Window |-> IF n = 1 THEN 0 ELSE passed[n - 1]]
      /\ promises' = {IF p = 0 THEN 0 ELSE p - 1 : p \in promises}
  BY DEF Limiter!Tick
<1>3. /\ level \in Nat /\ level <= Limiter!Full /\ seen \in 0..(IdleTicks + 1)
      /\ phase \in 0..(IdleTicks - 1)
  BY LimiterTypes DEF LimiterInv
<1>2. \/ /\ phase + 1 = IdleTicks /\ seen >= IdleTicks
         /\ seen' = IdleTicks + 1 /\ level' = Limiter!Full
      \/ /\ seen' = IF seen = IdleTicks + 1 THEN seen ELSE seen + 1
         /\ level' = IF level < Limiter!Full THEN level + 1 ELSE Limiter!Full
  <2>1. CASE Limiter!Deletes
    <3>1. seen' = IdleTicks + 1 /\ level' = Limiter!Full
      BY <2>1 DEF Limiter!Tick, Limiter!Never
    <3>. QED
      BY <1>3, <2>1, <3>1, LimiterSizes DEF Limiter!Deletes, Limiter!Stale
  <2>2. CASE ~Limiter!Deletes
    BY <2>2 DEF Limiter!Tick, Limiter!Never
  <2>. QED
    BY <2>1, <2>2
<1>4. /\ level' \in 0..Limiter!Full /\ (level' = Limiter!Full \/ level' = level + 1)
      /\ seen' \in 0..(IdleTicks + 1)
  BY <1>2, <1>3, LimiterSizes
<1>7. /\ phase + 1 # IdleTicks => phase' = phase + 1
      /\ phase + 1 = IdleTicks => phase' = 0
      /\ phase' \in 0..(IdleTicks - 1)
  BY <1>1, <1>3, PhaseTurns, LimiterNumbers
<1>5. ASSUME NEW n \in 1..Window
      PROVE  passed'[n] \in Nat /\ Taken(n)' /\ TakenBefore(n)'
  <2>. DEFINE then == n - phase' + 3 * IdleTicks - 2
              past == n - phase' + 2 * IdleTicks - 2
  <2>1. /\ then \in Nat /\ past \in Nat /\ then = (n - phase' + IdleTicks - 2) + 2 * IdleTicks
        /\ n - phase' + IdleTicks - 2 \in Nat
    <3>1. ASSUME NEW i \in Nat, NEW p \in 0..(i - 1)
          PROVE  /\ n - p + 3 * i - 2 \in Nat /\ n - p + 2 * i - 2 \in Nat /\ n - p + i - 2 \in Nat
                 /\ n - p + 3 * i - 2 = (n - p + i - 2) + 2 * i
      BY LimiterNumbers
    <3>. QED
      BY <1>7, <3>1, LimiterNumbers
  <2>2. /\ Filled(then) = Filled(n - phase' + IdleTicks - 2) + Limiter!Full
        /\ Filled(n - phase' + IdleTicks - 2) \in Nat
        /\ Filled(then) \in Nat /\ Filled(past) \in Nat
    BY <2>1, Filling
  <2>3. /\ passed'[n] \in Nat
        /\ Times(passed'[n]) + level' <= Filled(then) + n
        /\ seen' > phase' => Times(passed'[n]) <= Filled(past) + n
    <3>1. CASE n = 1
      <4>1. passed'[n] = 0 /\ Times(passed'[n]) = 0
        BY <1>1, <3>1, LimiterSizes
      <4>2. level' <= Filled(then) + n /\ 0 <= Filled(past) + n
        BY <1>4, <2>2, LimiterNumbers
      <4>. HIDE DEF then, past
      <4>. QED
        BY <1>4, <4>1, <4>2, LimiterNumbers
    <3>2. CASE n # 1
      <4>. DEFINE m == n - 1
                  was == m - phase + 3 * IdleTicks - 2
                  before == m - phase + 2 * IdleTicks - 2
      <4>1. m \in 1..Window /\ passed'[n] = passed[m]
        BY <1>1, <3>2, LimiterNumbers
      <4>2. passed[m] \in Nat /\ Times(passed[m]) \in Nat
        BY <4>1, LimiterSizes, LimiterTypes DEF LimiterInv
      <4>3. /\ Times(passed[m]) + level <= Filled(was) + m
            /\ seen > phase => Times(passed[m]) <= Filled(before) + m
        BY <4>1 DEF LimiterInv, Taken, TakenBefore
      <4>4. was \in Nat /\ before \in Nat
        BY <1>3, <4>1, LimiterNumbers
      <4>5. Filled(was) \in Nat /\ Filled(before) \in Nat
        BY <4>4, Filling
      <4>6. CASE phase + 1 # IdleTicks
        <5>1. was = then /\ before = past
          BY <1>3, <1>7, <4>1, <4>6, LimiterNumbers
        <5>2. seen' > phase' => seen > phase
          BY <1>2, <1>3, <1>7, <4>6, LimiterNumbers
        <5>. HIDE DEF m, was, before, then, past
        <5>3. level' <= level + 1
          BY <1>2, <1>3, <4>6, LimiterNumbers
        <5>4. n = m + 1 /\ m \in Nat
          BY <4>1, LimiterNumbers DEF m
        <5>. QED
          BY <1>3, <1>4, <2>2, <4>1, <4>2, <4>3, <4>5, <5>1, <5>2, <5>3, <5>4, LimiterNumbers
      <4>7. CASE phase + 1 = IdleTicks
        <5>1. was = past /\ before = n - phase' + IdleTicks - 2 /\ was <= then
          BY <1>3, <1>7, <4>1, <4>7, LimiterNumbers
        <5>2. Filled(was) <= Filled(then)
          BY <2>1, <4>4, <5>1, Filling
        <5>3. \/ level' <= level + 1
              \/ seen > phase /\ level' = Limiter!Full
          BY <1>2, <1>3, <4>7, LimiterNumbers
        <5>4. n = m + 1 /\ m \in Nat
          BY <4>1, LimiterNumbers
        <5>5. Filled(then) = Filled(before) + Limiter!Full
          BY <2>2, <5>1
        <5>. HIDE DEF m, was, before, then, past
        <5>. QED
          BY <1>3, <1>4, <2>2, <4>1, <4>2, <4>3, <4>5, <5>1, <5>2, <5>3, <5>4, <5>5, LimiterNumbers
      <4>. QED
        BY <4>6, <4>7
    <3>. QED
      BY <3>1, <3>2
  <2>. QED
    BY <2>3 DEF Taken, TakenBefore, Times, Filled, Limiter!Full
<1>6. ASSUME NEW p \in promises'
      PROVE  p \in 0..(PerToken + Second) /\ p + level' >= PerToken
  <2>1. PICK q \in promises : p = IF q = 0 THEN 0 ELSE q - 1
    BY <1>1
  <2>2. q \in Nat /\ q <= PerToken + Second /\ q + level >= PerToken
    BY LimiterTypes DEF LimiterInv
  <2>3. CASE level' = Limiter!Full
    BY <2>1, <2>2, <2>3, LimiterNumbers
  <2>4. CASE level' = level + 1
    BY <1>3, <2>1, <2>2, <2>4, LimiterNumbers
  <2>. QED
    BY <1>4, <2>3, <2>4
<1>8. Limiter!TypeOK'
  BY <1>1, <1>4, <1>5, <1>6, <1>7, LimiterTypesKept
<1>. QED
  BY <1>5, <1>6, <1>8, LimiterKept

LEMMA LimiterStep ==
    ASSUME LimiterInv, [Limiter!Next]_(Limiter!limiterVars)
    PROVE  LimiterInv'
<1>1. CASE UNCHANGED Limiter!limiterVars
  BY <1>1 DEF LimiterInv, Taken, TakenBefore, Filled, Times, Limiter!limiterVars, Limiter!TypeOK,
     Limiter!Full, Limiter!Never
<1>. QED
  BY <1>1, LimiterRequestKeeps, LimiterTickKeeps DEF Limiter!Next

LEMMA LimiterInvariant == Limiter!Spec => []LimiterInv
BY InitLimiter, LimiterStep, PTL DEF Limiter!Spec

(* A refused request that comes back after the seconds it was told finds a *)
(* token unless another passed; and in a window of any length no more pass *)
(* than a bucket, its refilling and the cleaner's new buckets let, at most *)
(* one in twice his time, whenever he comes and whatever the bucket holds. *)
THEOREM LimiterStaysHonest == Limiter!Spec => []LimiterIsHonest
<1>1. LimiterInv => Limiter!RetryAfterIsHonest
  BY LimiterSizes DEF LimiterInv, Limiter!TypeOK, Limiter!RetryAfterIsHonest
<1>2. ASSUME LimiterInv, NEW n \in 1..Window
      PROVE  passed[n] <= Burst * (1 + Limiter!NewBuckets(n)) + n \div PerToken
  <2>. DEFINE all == Burst * (1 + Limiter!NewBuckets(n))
  <2>1. PICK q \in Nat, r \in 0..(PerToken - 1) : n = q * PerToken + r /\ q = n \div PerToken
    <3>1. ASSUME NEW m \in Nat, NEW p \in Nat \ {0}
          PROVE  /\ m \div p \in Nat /\ m % p \in 0..(p - 1)
                 /\ m = (m \div p) * p + (m % p)
      OBVIOUS
    <3>2. /\ n \div PerToken \in Nat /\ n % PerToken \in 0..(PerToken - 1)
          /\ n = (n \div PerToken) * PerToken + (n % PerToken)
      <4>1. n \in Nat /\ PerToken \in Nat \ {0}
        BY LimiterSizes
      <4>. QED
        BY <3>1, <4>1
    <3>. QED
      BY <3>2
  <2>2. all \in Nat /\ Filled(n + IdleTicks - 2) + Limiter!Full = Times(all)
    <3>1. n + IdleTicks - 2 \in Nat /\ 2 * IdleTicks \in Nat \ {0}
      BY LimiterSizes
    <3>2. Limiter!NewBuckets(n) \in Nat
      BY <3>1 DEF Limiter!NewBuckets
    <3>3. Filled(n + IdleTicks - 2) = Limiter!Full * Limiter!NewBuckets(n)
      BY DEF Filled, Limiter!NewBuckets
    <3>4. ASSUME NEW b \in Nat, NEW p \in Nat, NEW k \in Nat
          PROVE  b * (1 + k) \in Nat /\ (b * p) * k + b * p = (b * (1 + k)) * p
      OBVIOUS
    <3>. QED
      BY <3>2, <3>3, <3>4, LimiterSizes DEF Limiter!Full, Times
  <2>3. passed[n] \in Nat /\ level \in Nat /\ Times(passed[n]) + level <= Times(all) + n
    <3>1. /\ passed[n] \in Nat /\ level \in Nat /\ phase \in 0..(IdleTicks - 1)
          /\ Times(passed[n]) + level <= Filled(n - phase + 3 * IdleTicks - 2) + n
      BY <1>2, LimiterTypes DEF LimiterInv, Taken
    <3>2. /\ n - phase + 3 * IdleTicks - 2 \in Nat /\ n + IdleTicks - 2 \in Nat
          /\ n + 3 * IdleTicks - 2 = (n + IdleTicks - 2) + 2 * IdleTicks
          /\ n - phase + 3 * IdleTicks - 2 <= (n + IdleTicks - 2) + 2 * IdleTicks
          /\ (n + IdleTicks - 2) + 2 * IdleTicks \in Nat
      BY <3>1, LimiterNumbers
    <3>3. /\ Filled((n + IdleTicks - 2) + 2 * IdleTicks) = Times(all)
          /\ Filled(n - phase + 3 * IdleTicks - 2) <= Filled((n + IdleTicks - 2) + 2 * IdleTicks)
          /\ Filled(n - phase + 3 * IdleTicks - 2) \in Nat
      BY <2>2, <3>2, Filling
    <3>4. Times(passed[n]) \in Nat /\ Times(all) \in Nat
      BY <2>2, <3>1, LimiterSizes
    <3>. HIDE DEF all
    <3>. QED
      BY <3>1, <3>3, <3>4, LimiterNumbers
  <2>. HIDE DEF all
  <2>4. Times(passed[n]) < Times(all) + Times(q) + PerToken
    <3>1. n = Times(q) + r
      BY <2>1 DEF Times
    <3>2. Times(passed[n]) \in Nat /\ Times(all) \in Nat /\ Times(q) \in Nat
      BY <2>2, <2>3, LimiterSizes
    <3>. QED
      BY <2>1, <2>3, <3>1, <3>2, LimiterSizes
  <2>5. ASSUME NEW a \in Nat, NEW b \in Nat, NEW k \in Nat, NEW p \in Nat \ {0}, k > a + b
        PROVE  k * p >= a * p + b * p + p
    <3>1. PICK d \in Nat : k = a + b + 1 + d
      <4>1. k - (a + b + 1) \in Nat
        BY <2>5
      <4>. QED
        BY <4>1
    <3>2. k * p = a * p + b * p + p + d * p /\ d * p \in Nat
      BY <3>1
    <3>. QED
      BY <3>2
  <2>6. passed[n] > all + q => Times(passed[n]) >= Times(all) + Times(q) + PerToken
    BY <2>2, <2>3, <2>5, LimiterSizes DEF Times
  <2>7. Times(passed[n]) \in Nat /\ Times(all) \in Nat /\ Times(q) \in Nat
    BY <2>2, <2>3, LimiterSizes
  <2>. QED
    BY <2>1, <2>2, <2>3, <2>4, <2>6, <2>7, LimiterSizes DEF all
<1>3. LimiterInv => LimiterIsHonest
  BY <1>1, <1>2 DEF LimiterIsHonest, Limiter!WindowBounded
<1>. QED
  BY <1>3, LimiterInvariant, PTL

-----------------------------------------------------------------------------
(* From where to pick.                                                     *)

(* Sums.                                                                   *)

(* These sums are the sums of StockSums.                                   *)
LEMMA SumOfIs ==
    ASSUME NEW S, NEW f
    PROVE  Pick!SumOf(f, S) = SumOver(S, [s \in S |-> <<f[s]>>], 1)
BY DEF Pick!SumOf, Pick!SumOver, Pick!Units, Pick!Cardinality, SumOver, Units, Cardinality

(* A sum of natural numbers is one.                                        *)
LEMMA SumOfType ==
    ASSUME NEW S, IsFiniteSet(S), NEW f, \A s \in S : f[s] \in Nat
    PROVE  Pick!SumOf(f, S) \in Nat
<1>. DEFINE F == [s \in S |-> <<f[s]>>]
<1>1. \A s \in S : F[s][1] \in Nat
  OBVIOUS
<1>. HIDE DEF F
<1>2. SumOver(S, F, 1) \in Nat
  BY <1>1, SumType
<1>. QED
  BY <1>2, SumOfIs DEF F

(* A sum depends on the amounts alone.                                     *)
LEMMA SumOfSame ==
    ASSUME NEW S, NEW f, NEW g, \A s \in S : f[s] = g[s]
    PROVE  Pick!SumOf(f, S) = Pick!SumOf(g, S)
<1>1. [s \in S |-> <<f[s]>>] = [s \in S |-> <<g[s]>>]
  OBVIOUS
<1>. QED
  BY <1>1 DEF Pick!SumOf

(* One amount grows, and so does the sum.                                  *)
LEMMA SumOfGrows ==
    ASSUME NEW S, IsFiniteSet(S), NEW t \in S, NEW n \in Nat, NEW f, NEW g,
           \A s \in S : f[s] \in Nat, g[t] = f[t] + n, \A s \in S \ {t} : g[s] = f[s]
    PROVE  Pick!SumOf(g, S) = Pick!SumOf(f, S) + n
<1>. DEFINE F == [s \in S |-> <<f[s]>>]
            G == [s \in S |-> <<g[s]>>]
<1>1. /\ \A s \in S : F[s][1] \in Nat /\ G[s][1] \in Nat
      /\ \A s \in S \ {t} : G[s][1] = F[s][1]
      /\ G[t][1] = F[t][1] + n
  OBVIOUS
<1>. HIDE DEF F, G
<1>2. SumOver(S, G, 1) = SumOver(S, F, 1) - F[t][1] + G[t][1]
  BY <1>1, SumChange
<1>3. SumOver(S, F, 1) \in Nat
  BY <1>1, SumType
<1>4. SumOver(S, G, 1) = SumOver(S, F, 1) + n
  BY <1>1, <1>2, <1>3
<1>. QED
  BY <1>4, SumOfIs DEF F, G

(* A sum of nothing.                                                       *)
LEMMA SumOfNothing ==
    ASSUME NEW S, NEW f, \A s \in S : f[s] = 0
    PROVE  Pick!SumOf(f, S) = 0
<1>. DEFINE F == [s \in S |-> <<f[s]>>]
<1>1. \A s \in S : F[s][1] = 0
  OBVIOUS
<1>. HIDE DEF F
<1>2. SumOver(S, F, 1) = 0
  BY <1>1, SumOfZeros
<1>. QED
  BY <1>2, SumOfIs DEF F

(* Larger amounts have a larger sum.                                       *)
LEMMA SumOfMonotonic ==
    ASSUME NEW S, IsFiniteSet(S), NEW f, NEW g,
           \A s \in S : f[s] \in Nat /\ g[s] \in Nat /\ f[s] <= g[s]
    PROVE  Pick!SumOf(f, S) <= Pick!SumOf(g, S)
<1>. DEFINE F == [s \in S |-> <<f[s]>>]
            G == [s \in S |-> <<g[s]>>]
<1>1. \A s \in S : F[s][1] \in Nat /\ G[s][1] \in Nat /\ F[s][1] <= G[s][1]
  OBVIOUS
<1>. HIDE DEF F, G
<1>2. \A s \in S : {s} \X (1 .. F[s][1]) \subseteq {s} \X (1 .. G[s][1])
  BY <1>1
<1>3. Units(S, F, 1) \subseteq Units(S, G, 1)
  BY <1>2 DEF Units
<1>4. SumOver(S, F, 1) <= SumOver(S, G, 1)
  BY <1>1, <1>3, UnitsFinite, FS_Subset DEF SumOver
<1>. QED
  BY <1>4, SumOfIs DEF F, G

(* Some amounts of a set have no larger sum than all.                      *)
LEMMA SumOfSubset ==
    ASSUME NEW S, IsFiniteSet(S), NEW T, T \subseteq S, NEW f, \A s \in S : f[s] \in Nat
    PROVE  /\ Pick!SumOf(f, T) <= Pick!SumOf(f, S)
           /\ Pick!SumOf(f, T) \in Nat /\ Pick!SumOf(f, S) \in Nat
<1>. DEFINE F == [s \in T |-> <<f[s]>>]
            G == [s \in S |-> <<f[s]>>]
<1>1. \A s \in T : F[s][1] = G[s][1]
  OBVIOUS
<1>2. \A s \in S : G[s][1] \in Nat
  OBVIOUS
<1>. HIDE DEF F, G
<1>3. \A u \in Units(T, F, 1) : u \in Units(S, G, 1)
  <2>1. ASSUME NEW s \in T PROVE {s} \X (1 .. F[s][1]) = {s} \X (1 .. G[s][1]) /\ s \in S
    BY <1>1
  <2>. QED
    BY <2>1 DEF Units
<1>4. SumOver(T, F, 1) <= SumOver(S, G, 1)
  BY <1>2, <1>3, UnitsFinite, FS_Subset DEF SumOver
<1>5. IsFiniteSet(T)
  BY FS_Subset
<1>6. Pick!SumOf(f, T) \in Nat /\ Pick!SumOf(f, S) \in Nat
  BY <1>5, SumOfType
<1>. QED
  BY <1>4, <1>6, SumOfIs DEF F, G

(* Amounts that are counted under other names add up to the same.          *)
LEMMA SumOfRenamed ==
    ASSUME NEW S, IsFiniteSet(S), NEW T, NEW b \in Bijection(S, T), NEW f, NEW g,
           \A s \in S : f[s] \in Nat /\ f[s] = g[b[s]]
    PROVE  Pick!SumOf(f, S) = Pick!SumOf(g, T)
<1>. DEFINE F == [s \in S |-> <<f[s]>>]
            G == [s \in T |-> <<g[s]>>]
            U == Units(S, F, 1)
            V == Units(T, G, 1)
            c == [u \in U |-> <<b[u[1]], u[2]>>]
<1>1. /\ b \in [S -> T] /\ \A s, t \in S : b[s] = b[t] => s = t
      /\ \A t \in T : \E s \in S : b[s] = t
  BY DEF Bijection, Injection, Surjection, IsInjective
<1>2. \A s \in S : F[s][1] \in Nat /\ F[s][1] = G[b[s]][1]
  BY <1>1
<1>. HIDE DEF F, G
<1>3. \A u : u \in U <=> \E s \in S : \E i \in 1 .. F[s][1] : u = <<s, i>>
  BY DEF Units
<1>4. \A v : v \in V <=> \E t \in T : \E i \in 1 .. G[t][1] : v = <<t, i>>
  BY DEF Units
<1>. HIDE DEF U, V
<1>5. c \in [U -> V]
  <2>1. ASSUME NEW u \in U PROVE <<b[u[1]], u[2]>> \in V
    <3>1. PICK s \in S : \E i \in 1 .. F[s][1] : u = <<s, i>>
      BY <1>3
    <3>2. PICK i \in 1 .. F[s][1] : u = <<s, i>>
      BY <3>1
    <3>3. b[s] \in T /\ i \in 1 .. G[b[s]][1]
      BY <1>1, <1>2
    <3>. QED
      BY <1>4, <3>2, <3>3
  <2>. QED
    BY <2>1
<1>6. \A u, w \in U : c[u] = c[w] => u = w
  BY <1>1, <1>3
<1>7. \A v \in V : \E u \in U : c[u] = v
  <2>1. ASSUME NEW v \in V PROVE \E u \in U : c[u] = v
    <3>1. PICK t \in T : \E i \in 1 .. G[t][1] : v = <<t, i>>
      BY <1>4
    <3>2. PICK i \in 1 .. G[t][1] : v = <<t, i>>
      BY <3>1
    <3>3. PICK s \in S : b[s] = t
      BY <1>1
    <3>4. i \in 1 .. F[s][1]
      BY <1>2, <3>2, <3>3
    <3>5. <<s, i>> \in U
      BY <1>3, <3>4
    <3>. QED
      BY <3>2, <3>3, <3>5
  <2>. QED
    BY <2>1
<1>8. ExistsBijection(U, V)
  <2>. HIDE DEF c
  <2>. QED
    BY <1>5, <1>6, <1>7 DEF ExistsBijection, Bijection, Injection, Surjection, IsInjective
<1>9. IsFiniteSet(U)
  BY <1>2, UnitsFinite DEF U
<1>10. Cardinality(U) = Cardinality(V)
  BY <1>8, <1>9, FS_Bijection
<1>. QED
  BY <1>10, SumOfIs DEF SumOver, F, G, U, V

-----------------------------------------------------------------------------
(* Counting to a number.                                                   *)
LEMMA CountingTo ==
    ASSUME NEW N \in Nat, NEW S, 0 \in S, \A n \in 1 .. N : n - 1 \in S => n \in S
    PROVE  \A n \in 0 .. N : n \in S
<1>. DEFINE Missing == {n \in 0 .. N : n \notin S}
            less == {p \in Nat \X Nat : p[1] < p[2]}
<1>1. SUFFICES ASSUME Missing # {} PROVE FALSE
  OBVIOUS
<1>2. IsWellFoundedOn(less, Nat)
  BY NatLessThanWellFounded DEF OpToRel
<1>3. Missing \subseteq Nat
  OBVIOUS
<1>4. PICK x \in Missing : \A y \in Missing : ~ (<<y, x>> \in less)
  <2>. HIDE DEF less, Missing
  <2>. QED
    BY <1>1, <1>2, <1>3, WFMin, Zenon
<1>5. x \in 1 .. N
  OBVIOUS
<1>6. x - 1 \in 0 .. N /\ x - 1 < x
  BY <1>5
<1>7. <<x - 1, x>> \in less
  BY <1>6
<1>8. x - 1 \notin Missing
  <2>. HIDE DEF less, Missing
  <2>. QED
    BY <1>4, <1>7
<1>. QED
  BY <1>4, <1>5, <1>6, <1>8
-----------------------------------------------------------------------------
(* The rows of the query.                                                  *)
LotLike == [quantity : Nat, expires : 0 .. Forever, archived : BOOLEAN]
StockTypes == inventory \in [Positions -> [quantity : Nat, reserved : Nat, lots : Seq(LotLike)]]

(* Those of a row of inventory, and those at a location.                   *)
RowsOf(l) == {r \in Pick!PickRows : r.row = l}
RowsAt(l) == {r \in Pick!PickRows : LocationOf[r.row] = l}

(* What a row has to give.                                                 *)
LEMMA FreeType ==
    ASSUME StockTypes, NEW l \in Positions
    PROVE  Pick!Free(l) \in Nat
<1>1. inventory[l].quantity \in Nat /\ inventory[l].reserved \in Nat
  BY DEF StockTypes
<1>. QED
  BY <1>1 DEF Pick!Free

(* The lots a row of inventory is joined with.                             *)
LEMMA LotsOfType ==
    ASSUME StockTypes, NEW l \in Positions
    PROVE  /\ \E k \in Nat : DOMAIN Pick!LotsOf(l) = 1 .. k
           /\ \A n \in DOMAIN Pick!LotsOf(l) :
                  /\ Pick!LotsOf(l)[n].quantity \in Nat /\ Pick!LotsOf(l)[n].expires \in 0 .. Forever
                  /\ Pick!LotsOf(l)[n].lotted \in BOOLEAN
                  /\ Pick!LotsOf(l)[n].lotted \/ Pick!LotsOf(l)[n] = Pick!Unlotted
<1>. DEFINE lots == inventory[l].lots
<1>1. lots \in Seq(LotLike)
  BY DEF StockTypes
<1>. HIDE DEF lots
<1>2. \A n \in DOMAIN lots : /\ lots[n].quantity \in Nat /\ lots[n].expires \in 0 .. Forever
                             /\ lots[n].archived \in BOOLEAN
  <2>1. \A n \in DOMAIN lots : lots[n] \in LotLike
    BY <1>1
  <2>. QED
    BY <2>1 DEF LotLike
<1>3. PICK k \in Nat : DOMAIN lots = 1 .. k
  BY <1>1
<1>4. Forever \in 0 .. Forever
  BY SuggestionsAssumption
<1>5. CASE lots = <<>>
  <2>1. Pick!LotsOf(l) = <<Pick!Unlotted>>
    BY <1>5 DEF Pick!LotsOf, lots
  <2>2. DOMAIN Pick!LotsOf(l) = 1 .. 1 /\ Pick!LotsOf(l)[1] = Pick!Unlotted
    BY <2>1
  <2>3. \A n \in DOMAIN Pick!LotsOf(l) : Pick!LotsOf(l)[n] = Pick!Unlotted
    BY <2>2
  <2>4. \E j \in Nat : DOMAIN Pick!LotsOf(l) = 1 .. j
    BY <2>2
  <2>5. /\ Pick!Unlotted.quantity \in Nat /\ Pick!Unlotted.expires \in 0 .. Forever
        /\ Pick!Unlotted.lotted \in BOOLEAN
    BY <1>4 DEF Pick!Unlotted
  <2>. QED
    BY <2>3, <2>4, <2>5
<1>6. CASE lots # <<>>
  <2>1. Pick!LotsOf(l) = [n \in DOMAIN lots |->
                        IF lots[n].archived THEN Pick!Unlotted
                        ELSE [quantity |-> lots[n].quantity, expires |-> lots[n].expires,
                              lotted |-> TRUE]]
    BY <1>6, Zenon DEF Pick!LotsOf, lots
  <2>2. DOMAIN Pick!LotsOf(l) = DOMAIN lots
    BY <2>1
  <2>3. \A n \in DOMAIN lots :
            Pick!LotsOf(l)[n] = IF lots[n].archived THEN Pick!Unlotted
                           ELSE [quantity |-> lots[n].quantity, expires |-> lots[n].expires,
                                 lotted |-> TRUE]
    BY <2>1
  <2>4. \E j \in Nat : DOMAIN Pick!LotsOf(l) = 1 .. j
    BY <1>3, <2>2
  <2>5. ASSUME NEW n \in DOMAIN Pick!LotsOf(l)
        PROVE  /\ Pick!LotsOf(l)[n].quantity \in Nat /\ Pick!LotsOf(l)[n].expires \in 0 .. Forever
               /\ Pick!LotsOf(l)[n].lotted \in BOOLEAN
               /\ Pick!LotsOf(l)[n].lotted \/ Pick!LotsOf(l)[n] = Pick!Unlotted
    <3>1. n \in DOMAIN lots
      BY <2>2
    <3>2. CASE lots[n].archived
      <4>1. Pick!LotsOf(l)[n] = Pick!Unlotted
        BY <2>3, <3>1, <3>2
      <4>. QED
        BY <1>4, <4>1 DEF Pick!Unlotted
    <3>3. CASE ~lots[n].archived
      <4>1. Pick!LotsOf(l)[n] = [quantity |-> lots[n].quantity, expires |-> lots[n].expires,
                            lotted |-> TRUE]
        BY <2>3, <3>1, <3>3
      <4>. QED
        BY <1>2, <3>1, <4>1
    <3>. QED
      BY <3>2, <3>3
  <2>. QED
    BY <2>4, <2>5
<1>. QED
  BY <1>5, <1>6

(* A row is one of inventory, with stock to give, and one of its lots.     *)
LEMMA RowFacts ==
    ASSUME StockTypes, NEW r \in Pick!PickRows
    PROVE  /\ r.row \in Positions /\ Pick!Free(r.row) > 0
           /\ r.place \in DOMAIN Pick!LotsOf(r.row) /\ r.lot = Pick!LotsOf(r.row)[r.place]
           /\ r = [row |-> r.row, place |-> r.place, lot |-> r.lot]
           /\ r.lot.quantity \in Nat /\ r.lot.expires \in 0 .. Forever /\ r.lot.lotted \in BOOLEAN
           /\ r.lot.lotted \/ r.lot = Pick!Unlotted
<1>1. PICK l \in Positions : /\ Pick!Free(l) > 0
                             /\ r \in {[row |-> l, place |-> n, lot |-> Pick!LotsOf(l)[n]] :
                                       n \in DOMAIN Pick!LotsOf(l)}
  BY Zenon DEF Pick!PickRows
<1>2. PICK n \in DOMAIN Pick!LotsOf(l) : r = [row |-> l, place |-> n, lot |-> Pick!LotsOf(l)[n]]
  BY <1>1, Zenon
<1>3. /\ r.row = l /\ r.place = n /\ r.lot = Pick!LotsOf(l)[n]
      /\ r = [row |-> r.row, place |-> r.place, lot |-> r.lot]
  BY <1>2
<1>. QED
  BY <1>1, <1>3, LotsOfType

(* And every such row is there.                                            *)
LEMMA RowThere ==
    ASSUME NEW l \in Positions, Pick!Free(l) > 0, NEW n \in DOMAIN Pick!LotsOf(l)
    PROVE  [row |-> l, place |-> n, lot |-> Pick!LotsOf(l)[n]] \in Pick!PickRows
<1>1. [row |-> l, place |-> n, lot |-> Pick!LotsOf(l)[n]]
         \in {[row |-> l, place |-> m, lot |-> Pick!LotsOf(l)[m]] : m \in DOMAIN Pick!LotsOf(l)}
  BY Zenon
<1>2. l \in {k \in Positions : Pick!Free(k) > 0}
  OBVIOUS
<1>. QED
  BY <1>1, <1>2, Zenon DEF Pick!PickRows

(* A row of inventory comes as often as it has lots.                       *)
LEMMA RowsAreLots ==
    ASSUME StockTypes, NEW l \in Positions, Pick!Free(l) > 0
    PROVE  [n \in DOMAIN Pick!LotsOf(l) |-> [row |-> l, place |-> n, lot |-> Pick!LotsOf(l)[n]]]
              \in Bijection(DOMAIN Pick!LotsOf(l), RowsOf(l))
<1>. DEFINE b == [n \in DOMAIN Pick!LotsOf(l) |-> [row |-> l, place |-> n, lot |-> Pick!LotsOf(l)[n]]]
<1>1. \A n \in DOMAIN Pick!LotsOf(l) : b[n] \in RowsOf(l) /\ b[n].place = n
  <2>1. ASSUME NEW n \in DOMAIN Pick!LotsOf(l) PROVE b[n] \in RowsOf(l) /\ b[n].place = n
    <3>1. b[n] \in Pick!PickRows
      BY RowThere
    <3>. QED
      BY <3>1 DEF RowsOf
  <2>. QED
    BY <2>1
<1>2. \A r \in RowsOf(l) : \E n \in DOMAIN Pick!LotsOf(l) : b[n] = r
  <2>1. ASSUME NEW r \in RowsOf(l) PROVE \E n \in DOMAIN Pick!LotsOf(l) : b[n] = r
    <3>1. r \in Pick!PickRows /\ r.row = l
      BY DEF RowsOf
    <3>2. /\ r.place \in DOMAIN Pick!LotsOf(l) /\ r.lot = Pick!LotsOf(l)[r.place]
          /\ r = [row |-> l, place |-> r.place, lot |-> r.lot]
      BY <3>1, RowFacts
    <3>3. b[r.place] = r
      BY <3>2
    <3>. QED
      BY <3>2, <3>3
  <2>. QED
    BY <2>1
<1>3. b = [n \in DOMAIN Pick!LotsOf(l) |-> b[n]]
  OBVIOUS
<1>. HIDE DEF b
<1>4. b \in [DOMAIN Pick!LotsOf(l) -> RowsOf(l)]
  BY <1>1, <1>3
<1>5. b \in Bijection(DOMAIN Pick!LotsOf(l), RowsOf(l))
  BY <1>1, <1>2, <1>4 DEF Bijection, Injection, Surjection, IsInjective
<1>. QED
  BY <1>5 DEF b

(* A row is at a location.                                                 *)
LEMMA AtIsALocation ==
    ASSUME StockTypes, NEW r \in Pick!PickRows
    PROVE  r.row \in Positions /\ Pick!At(r) \in Sites /\ Pick!At(r) = LocationOf[r.row]
BY RowFacts, SuggestionsAssumption DEF Pick!At

(* The rows are finitely many.                                             *)
LEMMA RowsFinite ==
    ASSUME StockTypes
    PROVE  /\ IsFiniteSet(Pick!PickRows) /\ \A l \in Positions : IsFiniteSet(RowsOf(l))
           /\ \A l \in Sites : IsFiniteSet(RowsAt(l))
<1>1. ASSUME NEW l \in Positions PROVE IsFiniteSet(RowsOf(l))
  <2>1. CASE Pick!Free(l) > 0
    <3>1. IsFiniteSet(DOMAIN Pick!LotsOf(l))
      BY LotsOfType, FS_Interval
    <3>2. ExistsBijection(DOMAIN Pick!LotsOf(l), RowsOf(l))
      BY <2>1, RowsAreLots, Zenon DEF ExistsBijection
    <3>. QED
      BY <3>1, <3>2, FS_Bijection
  <2>2. CASE ~(Pick!Free(l) > 0)
    <3>1. RowsOf(l) = {}
      BY <2>2, RowFacts DEF RowsOf
    <3>. QED
      BY <3>1, FS_EmptySet
  <2>. QED
    BY <2>1, <2>2
<1>. DEFINE Places == {RowsOf(l) : l \in Positions}
            g == [l \in Positions |-> RowsOf(l)]
<1>2. IsFiniteSet(Places)
  <2>1. g \in Surjection(Positions, Places)
    BY DEF Surjection
  <2>. QED
    BY <2>1, FS_Surjection, SuggestionsAssumption
<1>3. Pick!PickRows = UNION Places
  BY RowFacts DEF RowsOf
<1>4. \A T \in Places : IsFiniteSet(T)
  BY <1>1
<1>5. IsFiniteSet(UNION Places)
  <2>. HIDE DEF Places
  <2>. QED
    BY <1>2, <1>4, FS_UNION
<1>6. \A l \in Sites : RowsAt(l) \subseteq Pick!PickRows
  BY DEF RowsAt
<1>. QED
  BY <1>1, <1>3, <1>5, <1>6, FS_Subset, Zenon

(* An order of the rows has each of them once.                             *)
LEMMA OrderedFacts ==
    ASSUME StockTypes, NEW list \in Pick!Ordered
    PROVE  /\ Len(list) \in Nat /\ DOMAIN list = 1 .. Len(list)
           /\ \A n \in 1 .. Len(list) : list[n] \in Pick!PickRows
           /\ \A m, n \in 1 .. Len(list) : m # n => list[m] # list[n]
           /\ \A r \in Pick!PickRows : \E n \in 1 .. Len(list) : list[n] = r
           /\ \A m, n \in 1 .. Len(list) : m < n => list[m].lot.expires <= list[n].lot.expires
<1>. DEFINE k == Cardinality(Pick!PickRows)
<1>1. IsFiniteSet(Pick!PickRows) /\ k \in Nat
  BY RowsFinite, FS_CardinalityType
<1>2. /\ list \in [1 .. k -> Pick!PickRows]
      /\ \A m, n \in 1 .. k : m # n => list[m] # list[n]
      /\ \A m, n \in DOMAIN list : m < n => Pick!Before(list[m], list[n])
  <2>1. \A S : Pick!Cardinality(S) = Cardinality(S)
    BY DEF Pick!Cardinality, Cardinality
  <2>. QED
    BY <2>1, Zenon DEF Pick!Ordered, Pick!SetToSeqs
<1>3. IsFiniteSet(1 .. k) /\ Cardinality(1 .. k) = k
  BY <1>1, FS_Interval
<1>4. list \in Injection(1 .. k, Pick!PickRows)
  BY <1>2 DEF Injection, IsInjective
<1>5. list \in Surjection(1 .. k, Pick!PickRows)
  BY <1>1, <1>3, <1>4, FS_Injection, Zenon
<1>6. \A r \in Pick!PickRows : \E n \in 1 .. k : list[n] = r
  BY <1>5 DEF Surjection
<1>. HIDE DEF k
<1>7. DOMAIN list = 1 .. k /\ Len(list) = k
  BY <1>1, <1>2
<1>8. ASSUME NEW m \in 1 .. k, NEW n \in 1 .. k, m < n
      PROVE  list[m].lot.expires <= list[n].lot.expires
  <2>1. Pick!Before(list[m], list[n])
    BY <1>2, <1>7, <1>8
  <2>2. list[m] \in Pick!PickRows /\ list[n] \in Pick!PickRows
    BY <1>2
  <2>3. list[m].lot.expires \in 0 .. Forever /\ list[n].lot.expires \in 0 .. Forever
    BY <2>2, RowFacts
  <2>. QED
    BY <2>1, <2>3, SuggestionsAssumption DEF Pick!Before
<1>. QED
  BY <1>1, <1>2, <1>6, <1>7, <1>8
-----------------------------------------------------------------------------
(* The loop.  Nothing more can be had of a row: all of its lot is given,   *)
(* or as much as it has from its location.                                 *)
Spent(made, r) ==
    \/ r.lot.lotted /\ made.given[r] = r.lot.quantity
    \/ made.taken[Pick!At(r)] >= Pick!Free(r.row)

Unmet(made, qty) == ~(qty > 0) \/ made.remaining > 0

LoopTypes(made) ==
    /\ made.given \in [Pick!PickRows -> Nat] /\ made.taken \in [Sites -> Nat]
    /\ made.remaining \in Nat /\ made.total \in Nat

(* After n passes over the rows in this order.                             *)
LoopInv(made, list, n, qty) ==
    /\ LoopTypes(made)
    /\ \A m \in 1 .. Len(list) : m > n => made.given[list[m]] = 0
    /\ \A r \in Pick!PickRows : r.lot.lotted => made.given[r] <= r.lot.quantity
    /\ \A l \in Sites : made.taken[l] = Pick!SumOf(made.given, RowsAt(l))
    /\ \A l \in Sites :
           made.taken[l] > 0 =>
               \E i \in Positions : LocationOf[i] = l /\ made.taken[l] <= Pick!Free(i)
    /\ \A i \in Positions : Pick!SumOf(made.given, RowsOf(i)) <= Pick!Free(i)
    /\ made.total = Pick!SumOf(made.given, Pick!PickRows)
    /\ IF qty > 0 THEN made.total + made.remaining = qty ELSE made.remaining = 0
    /\ Unmet(made, qty) => \A m \in 1 .. Len(list) : m <= n => Spent(made, list[m])
    /\ \A k, m \in 1 .. Len(list) :
           k <= n /\ m < k /\ made.given[list[k]] > 0 => Spent(made, list[m])

(* What a pass gives of a row.                                             *)
Amount(made, r, qty) == Pick!Limited(qty, Pick!UpperBound(r, made.taken), made.remaining)

LEMMA AmountFacts ==
    ASSUME StockTypes, NEW r \in Pick!PickRows, NEW made, LoopTypes(made), NEW qty \in Int
    PROVE  /\ Amount(made, r, qty) \in Nat
           /\ Amount(made, r, qty) > 0 =>
                  made.taken[Pick!At(r)] + Amount(made, r, qty) <= Pick!Free(r.row)
           /\ r.lot.lotted => Amount(made, r, qty) <= r.lot.quantity
           /\ qty > 0 => Amount(made, r, qty) <= made.remaining
           /\ \/ r.lot.lotted /\ Amount(made, r, qty) = r.lot.quantity
              \/ made.taken[Pick!At(r)] + Amount(made, r, qty) >= Pick!Free(r.row)
              \/ qty > 0 /\ Amount(made, r, qty) = made.remaining
<1>1. /\ Pick!At(r) \in Sites /\ r.lot.quantity \in Nat /\ r.lot.lotted \in BOOLEAN
      /\ Pick!Free(r.row) \in Nat
  BY RowFacts, FreeType, AtIsALocation
<1>2. made.taken[Pick!At(r)] \in Nat /\ made.remaining \in Nat
  BY <1>1 DEF LoopTypes
<1>3. PICK free \in Nat : free = Pick!Free(r.row)
  BY <1>1
<1>4. PICK had \in Nat : had = made.taken[Pick!At(r)]
  BY <1>2
<1>5. PICK in \in Nat : in = r.lot.quantity
  BY <1>1
<1>6. PICK still \in Nat : still = made.remaining
  BY <1>2
<1>7. PICK left \in Nat : /\ left = Pick!LocationAvailable(r, made.taken)
                          /\ left = IF free >= had THEN free - had ELSE 0
  BY <1>3, <1>4 DEF Pick!LocationAvailable
<1>8. Pick!UpperBound(r, made.taken) = IF r.lot.lotted /\ in < left THEN in ELSE left
  BY <1>5, <1>7 DEF Pick!UpperBound
<1>9. PICK most \in Nat : /\ most = Pick!UpperBound(r, made.taken)
                          /\ most > 0 => had + most <= free
                          /\ r.lot.lotted => most <= in
                          /\ \/ r.lot.lotted /\ most = in
                             \/ had + most >= free
  BY <1>1, <1>3, <1>4, <1>7, <1>8
<1>10. Amount(made, r, qty) = IF qty > 0 /\ most > still THEN still ELSE most
  BY <1>6, <1>9 DEF Amount, Pick!Limited
<1>. QED
  BY <1>1, <1>3, <1>4, <1>5, <1>6, <1>9, <1>10

LEMMA TakeFacts ==
    ASSUME StockTypes, NEW r \in Pick!PickRows, NEW made, LoopTypes(made), NEW qty \in Int,
           Amount(made, r, qty) \in Nat, made.given[r] = 0,
           qty > 0 => Amount(made, r, qty) <= made.remaining
    PROVE  /\ LoopTypes(Pick!Take(made, r, qty))
           /\ Pick!Take(made, r, qty).given[r] = Amount(made, r, qty)
           /\ \A s \in Pick!PickRows \ {r} : Pick!Take(made, r, qty).given[s] = made.given[s]
           /\ Pick!Take(made, r, qty).taken[Pick!At(r)] = made.taken[Pick!At(r)] + Amount(made, r, qty)
           /\ \A l \in Sites \ {Pick!At(r)} : Pick!Take(made, r, qty).taken[l] = made.taken[l]
           /\ Pick!Take(made, r, qty).total = made.total + Amount(made, r, qty)
           /\ Pick!Take(made, r, qty).remaining =
                IF qty > 0 THEN made.remaining - Amount(made, r, qty) ELSE 0
<1>1. PICK n \in Nat : n = Amount(made, r, qty)
  OBVIOUS
<1>2. Pick!Take(made, r, qty) =
        [given     |-> [made.given EXCEPT ![r] = @ + n],
         taken     |-> [made.taken EXCEPT ![Pick!At(r)] = @ + n],
         remaining |-> IF qty > 0 THEN made.remaining - n ELSE 0,
         total     |-> made.total + n]
  BY <1>1, Zenon DEF Pick!Take, Amount
<1>3. /\ Pick!Take(made, r, qty).given = [made.given EXCEPT ![r] = @ + n]
      /\ Pick!Take(made, r, qty).taken = [made.taken EXCEPT ![Pick!At(r)] = @ + n]
      /\ Pick!Take(made, r, qty).remaining = IF qty > 0 THEN made.remaining - n ELSE 0
      /\ Pick!Take(made, r, qty).total = made.total + n
  BY <1>2
<1>4. Pick!At(r) \in Sites
  BY AtIsALocation
<1>. QED
  BY <1>1, <1>3, <1>4 DEF LoopTypes

LEMMA TakeKeepsLoop ==
    ASSUME StockTypes, NEW list \in Pick!Ordered, NEW qty \in Int, NEW made,
           NEW n \in 1 .. Len(list), LoopInv(made, list, n - 1, qty)
    PROVE  LoopInv(Pick!Take(made, list[n], qty), list, n, qty)
<1>. DEFINE r == list[n]
            next == Pick!Take(made, r, qty)
            more == Amount(made, r, qty)
<1>1. /\ Len(list) \in Nat /\ r \in Pick!PickRows
      /\ \A m \in 1 .. Len(list) : list[m] \in Pick!PickRows
      /\ \A m, k \in 1 .. Len(list) : m # k => list[m] # list[k]
  BY OrderedFacts
<1>2. /\ r.row \in Positions /\ Pick!At(r) \in Sites /\ Pick!At(r) = LocationOf[r.row]
      /\ \A i \in Positions : Pick!Free(i) \in Nat
  BY <1>1, AtIsALocation, FreeType
<1>3. LoopTypes(made)
  BY DEF LoopInv
<1>4. made.given[r] = 0
  <2>1. n > n - 1
    OBVIOUS
  <2>. QED
    BY <2>1 DEF LoopInv
<1>5. /\ more \in Nat
      /\ more > 0 => made.taken[Pick!At(r)] + more <= Pick!Free(r.row)
      /\ r.lot.lotted => more <= r.lot.quantity
      /\ qty > 0 => more <= made.remaining
      /\ \/ r.lot.lotted /\ more = r.lot.quantity
         \/ made.taken[Pick!At(r)] + more >= Pick!Free(r.row)
         \/ qty > 0 /\ more = made.remaining
  BY <1>1, <1>3, AmountFacts
<1>6. /\ LoopTypes(next) /\ next.given[r] = more
      /\ \A s \in Pick!PickRows \ {r} : next.given[s] = made.given[s]
      /\ next.taken[Pick!At(r)] = made.taken[Pick!At(r)] + more
      /\ \A l \in Sites \ {Pick!At(r)} : next.taken[l] = made.taken[l]
      /\ next.total = made.total + more
      /\ next.remaining = IF qty > 0 THEN made.remaining - more ELSE 0
  BY <1>1, <1>3, <1>4, <1>5, TakeFacts
<1>. HIDE DEF r, next, more
<1>7. \A m \in 1 .. Len(list) : m > n => next.given[list[m]] = 0
  <2>1. ASSUME NEW m \in 1 .. Len(list), m > n PROVE next.given[list[m]] = 0
    <3>1. list[m] \in Pick!PickRows \ {r}
      BY <1>1, <2>1 DEF r
    <3>2. m > n - 1
      BY <1>1, <2>1
    <3>3. made.given[list[m]] = 0
      BY <3>2 DEF LoopInv
    <3>. QED
      BY <1>6, <3>1, <3>3
  <2>. QED
    BY <2>1
<1>8. \A s \in Pick!PickRows : s.lot.lotted => next.given[s] <= s.lot.quantity
  BY <1>5, <1>6 DEF LoopInv
<1>9. \A l \in Sites : next.taken[l] = Pick!SumOf(next.given, RowsAt(l))
  <2>1. ASSUME NEW l \in Sites PROVE next.taken[l] = Pick!SumOf(next.given, RowsAt(l))
    <3>1. IsFiniteSet(RowsAt(l)) /\ RowsAt(l) \subseteq Pick!PickRows
      BY RowsFinite DEF RowsAt
    <3>2. made.taken[l] = Pick!SumOf(made.given, RowsAt(l))
      BY DEF LoopInv
    <3>3. \A s \in RowsAt(l) : made.given[s] \in Nat
      BY <1>3, <3>1 DEF LoopTypes
    <3>4. CASE l = Pick!At(r)
      <4>1. r \in RowsAt(l)
        BY <1>1, <3>4 DEF RowsAt, Pick!At
      <4>2. next.given[r] = made.given[r] + more
        BY <1>4, <1>5, <1>6
      <4>3. \A s \in RowsAt(l) \ {r} : next.given[s] = made.given[s]
        BY <1>6, <3>1
      <4>4. Pick!SumOf(next.given, RowsAt(l)) = Pick!SumOf(made.given, RowsAt(l)) + more
        BY <1>5, <3>1, <3>3, <4>1, <4>2, <4>3, SumOfGrows
      <4>. QED
        BY <1>6, <3>2, <3>4, <4>4
    <3>5. CASE l # Pick!At(r)
      <4>1. \A s \in RowsAt(l) : next.given[s] = made.given[s]
        BY <1>6, <3>1, <3>5 DEF RowsAt, Pick!At
      <4>2. Pick!SumOf(next.given, RowsAt(l)) = Pick!SumOf(made.given, RowsAt(l))
        BY <4>1, SumOfSame
      <4>. QED
        BY <1>6, <3>2, <3>5, <4>2
    <3>. QED
      BY <3>4, <3>5
  <2>. QED
    BY <2>1
<1>10. \A l \in Sites :
           next.taken[l] > 0 =>
               \E i \in Positions : LocationOf[i] = l /\ next.taken[l] <= Pick!Free(i)
  <2>1. ASSUME NEW l \in Sites, next.taken[l] > 0
        PROVE  \E i \in Positions : LocationOf[i] = l /\ next.taken[l] <= Pick!Free(i)
    <3>1. made.taken[l] \in Nat /\ made.taken[Pick!At(r)] \in Nat
      BY <1>2, <1>3 DEF LoopTypes
    <3>2. CASE l = Pick!At(r) /\ more > 0
      BY <1>2, <1>5, <1>6, <3>2
    <3>3. CASE ~(l = Pick!At(r) /\ more > 0)
      <4>1. next.taken[l] = made.taken[l]
        BY <1>5, <1>6, <3>1, <3>3
      <4>. QED
        BY <2>1, <4>1 DEF LoopInv
    <3>. QED
      BY <3>2, <3>3
  <2>. QED
    BY <2>1
<1>12. \A i \in Positions : Pick!SumOf(next.given, RowsOf(i)) <= Pick!Free(i)
  <2>1. ASSUME NEW i \in Positions PROVE Pick!SumOf(next.given, RowsOf(i)) <= Pick!Free(i)
    <3>1. CASE i = r.row /\ more > 0
      <4>1. RowsOf(i) \subseteq RowsAt(Pick!At(r)) /\ IsFiniteSet(RowsAt(Pick!At(r)))
        BY <1>2, <3>1, RowsFinite DEF RowsOf, RowsAt
      <4>2. \A s \in RowsAt(Pick!At(r)) : next.given[s] \in Nat
        BY <1>6 DEF LoopTypes, RowsAt
      <4>3. /\ Pick!SumOf(next.given, RowsOf(i)) <= Pick!SumOf(next.given, RowsAt(Pick!At(r)))
            /\ Pick!SumOf(next.given, RowsOf(i)) \in Nat
            /\ Pick!SumOf(next.given, RowsAt(Pick!At(r))) \in Nat
        BY <4>1, <4>2, SumOfSubset
      <4>4. next.taken[Pick!At(r)] = Pick!SumOf(next.given, RowsAt(Pick!At(r)))
        BY <1>2, <1>9
      <4>5. next.taken[Pick!At(r)] <= Pick!Free(i)
        BY <1>5, <1>6, <3>1
      <4>. QED
        BY <1>2, <4>3, <4>4, <4>5
    <3>2. CASE ~(i = r.row /\ more > 0)
      <4>1. \A s \in RowsOf(i) : next.given[s] = made.given[s]
        BY <1>4, <1>5, <1>6, <3>2 DEF RowsOf
      <4>2. Pick!SumOf(next.given, RowsOf(i)) = Pick!SumOf(made.given, RowsOf(i))
        BY <4>1, SumOfSame
      <4>. QED
        BY <4>2 DEF LoopInv
    <3>. QED
      BY <3>1, <3>2
  <2>. QED
    BY <2>1
<1>11. next.total = Pick!SumOf(next.given, Pick!PickRows)
  <2>1. \A s \in Pick!PickRows : made.given[s] \in Nat
    BY <1>3 DEF LoopTypes
  <2>2. next.given[r] = made.given[r] + more
    BY <1>4, <1>5, <1>6
  <2>3. Pick!SumOf(next.given, Pick!PickRows) = Pick!SumOf(made.given, Pick!PickRows) + more
    <3>1. IsFiniteSet(Pick!PickRows) /\ r \in Pick!PickRows /\ more \in Nat
      BY <1>1, <1>5, RowsFinite
    <3>2. \A s \in Pick!PickRows \ {r} : next.given[s] = made.given[s]
      BY <1>6
    <3>. QED
      BY <2>1, <2>2, <3>1, <3>2, SumOfGrows
  <2>4. made.total = Pick!SumOf(made.given, Pick!PickRows)
    BY DEF LoopInv
  <2>. QED
    BY <1>6, <2>3, <2>4
<1>13. IF qty > 0 THEN next.total + next.remaining = qty ELSE next.remaining = 0
  <2>1. IF qty > 0 THEN made.total + made.remaining = qty ELSE made.remaining = 0
    BY DEF LoopInv
  <2>2. made.total \in Nat /\ made.remaining \in Nat
    BY <1>3 DEF LoopTypes
  <2>. QED
    BY <1>5, <1>6, <2>1, <2>2
(* A row that was spent before the pass is spent after it.                 *)
<1>14. ASSUME NEW s \in Pick!PickRows \ {r}, Spent(made, s)
       PROVE  Spent(next, s)
  <2>1. /\ s.row \in Positions /\ Pick!At(s) \in Sites /\ next.given[s] = made.given[s]
        /\ Pick!Free(s.row) \in Nat
    BY <1>2, <1>6, AtIsALocation
  <2>2. CASE s.lot.lotted /\ made.given[s] = s.lot.quantity
    BY <2>1, <2>2 DEF Spent
  <2>3. CASE made.taken[Pick!At(s)] >= Pick!Free(s.row)
    <3>1. made.taken[Pick!At(s)] \in Nat
      BY <1>3, <2>1 DEF LoopTypes
    <3>2. next.taken[Pick!At(s)] >= Pick!Free(s.row)
      BY <1>2, <1>5, <1>6, <2>1, <2>3, <3>1
    <3>. QED
      BY <3>2 DEF Spent
  <2>. QED
    BY <1>14, <2>2, <2>3 DEF Spent
(* As long as a pass gives something, all rows before it are.              *)
<1>15. ASSUME Unmet(next, qty) \/ more > 0 PROVE Unmet(made, qty)
  <2>1. made.remaining \in Nat
    BY <1>3 DEF LoopTypes
  <2>. QED
    BY <1>5, <1>6, <1>15, <2>1 DEF Unmet
<1>16. ASSUME Unmet(made, qty), NEW m \in 1 .. Len(list), m < n PROVE Spent(next, list[m])
  <2>1. m <= n - 1
    BY <1>1, <1>16
  <2>2. Spent(made, list[m])
    BY <1>16, <2>1 DEF LoopInv
  <2>3. list[m] \in Pick!PickRows \ {r}
    BY <1>1, <1>16 DEF r
  <2>. QED
    BY <1>14, <2>2, <2>3
<1>17. ASSUME Unmet(next, qty) PROVE Spent(next, r)
  <2>1. ~(qty > 0 /\ more = made.remaining)
    <3>1. made.remaining \in Nat
      BY <1>3 DEF LoopTypes
    <3>. QED
      BY <1>5, <1>6, <1>17, <3>1 DEF Unmet
  <2>. QED
    BY <1>5, <1>6, <2>1 DEF Spent
<1>18. Unmet(next, qty) => \A m \in 1 .. Len(list) : m <= n => Spent(next, list[m])
  <2>1. ASSUME Unmet(next, qty), NEW m \in 1 .. Len(list), m <= n PROVE Spent(next, list[m])
    <3>1. CASE m = n
      BY <1>17, <2>1, <3>1 DEF r
    <3>2. CASE m < n
      BY <1>15, <1>16, <2>1, <3>2
    <3>. QED
      BY <1>1, <2>1, <3>1, <3>2
  <2>. QED
    BY <2>1
<1>19. \A k, m \in 1 .. Len(list) :
           k <= n /\ m < k /\ next.given[list[k]] > 0 => Spent(next, list[m])
  <2>1. ASSUME NEW k \in 1 .. Len(list), NEW m \in 1 .. Len(list),
               k <= n, m < k, next.given[list[k]] > 0
        PROVE  Spent(next, list[m])
    <3>1. CASE k = n
      <4>1. more > 0
        BY <1>6, <2>1, <3>1 DEF r
      <4>. QED
        BY <1>15, <1>16, <2>1, <3>1, <4>1
    <3>2. CASE k < n
      <4>1. list[k] \in Pick!PickRows \ {r} /\ list[m] \in Pick!PickRows \ {r}
        BY <1>1, <2>1, <3>2 DEF r
      <4>2. made.given[list[k]] > 0
        BY <1>6, <2>1, <4>1
      <4>3. k <= n - 1
        BY <1>1, <3>2
      <4>4. Spent(made, list[m])
        BY <2>1, <4>2, <4>3 DEF LoopInv
      <4>. QED
        BY <1>14, <4>1, <4>4
    <3>. QED
      BY <1>1, <2>1, <3>1, <3>2
  <2>. QED
    BY <2>1
<1>20. LoopInv(next, list, n, qty)
  BY <1>6, <1>7, <1>8, <1>9, <1>10, <1>11, <1>12, <1>13, <1>18, <1>19, Zenon DEF LoopInv
<1>. QED
  BY <1>20 DEF next, r

(* The loop as a function of the passes made.                              *)
IsRun(h, list, qty) ==
    h = [n \in 0 .. Len(list) |->
            IF n = 0 THEN Pick!Untouched(qty) ELSE Pick!Take(h[n - 1], list[n], qty)]

LEMMA RunExists ==
    ASSUME NEW list, Len(list) \in Nat, NEW qty
    PROVE  \E h : IsRun(h, list, qty)
<1>. DEFINE Begins(h, n) == /\ h[0] = Pick!Untouched(qty)
                            /\ \A m \in 1 .. n : h[m] = Pick!Take(h[m - 1], list[m], qty)
            S == {n \in 0 .. Len(list) : \E h : Begins(h, n)}
<1>1. 0 \in S
  <2>. DEFINE h == [m \in {0} |-> Pick!Untouched(qty)]
  <2>1. h[0] = Pick!Untouched(qty)
    OBVIOUS
  <2>2. 1 .. 0 = {}
    OBVIOUS
  <2>3. Begins(h, 0)
    BY <2>1, <2>2
  <2>4. 0 \in 0 .. Len(list)
    OBVIOUS
  <2>. HIDE DEF Begins, h
  <2>. QED
    BY <2>3, <2>4
<1>2. ASSUME NEW n \in 1 .. Len(list), n - 1 \in S PROVE n \in S
  <2>1. PICK h : Begins(h, n - 1)
    BY <1>2
  <2>. DEFINE last == Pick!Take(h[n - 1], list[n], qty)
              g == [m \in 0 .. n |-> IF m = n THEN last ELSE h[m]]
  <2>. HIDE DEF last
  <2>2. g[0] = Pick!Untouched(qty)
    BY <2>1
  <2>3. ASSUME NEW m \in 1 .. n PROVE g[m] = Pick!Take(g[m - 1], list[m], qty)
    <3>1. g[m - 1] = h[m - 1]
      OBVIOUS
    <3>2. CASE m = n
      <4>1. g[m] = last
        BY <3>2
      <4>. QED
        BY <3>1, <3>2, <4>1 DEF last
    <3>3. CASE m # n
      <4>1. m \in 1 .. n - 1 /\ g[m] = h[m]
        BY <3>3
      <4>. QED
        BY <2>1, <3>1, <4>1
    <3>. QED
      BY <3>2, <3>3
  <2>. HIDE DEF g
  <2>4. Begins(g, n)
    BY <2>2, <2>3
  <2>5. n \in 0 .. Len(list)
    OBVIOUS
  <2>. HIDE DEF Begins
  <2>. QED
    BY <2>4, <2>5
<1>3. Len(list) \in S
  <2>. HIDE DEF S
  <2>1. \A n \in 0 .. Len(list) : n \in S
    BY <1>1, <1>2, CountingTo
  <2>. QED
    BY <2>1
<1>4. PICK h : Begins(h, Len(list))
  BY <1>3
<1>. DEFINE g == [n \in 0 .. Len(list) |-> h[n]]
<1>5. \A n \in 0 .. Len(list) :
          h[n] = IF n = 0 THEN Pick!Untouched(qty) ELSE Pick!Take(g[n - 1], list[n], qty)
  <2>1. ASSUME NEW n \in 1 .. Len(list) PROVE h[n] = Pick!Take(g[n - 1], list[n], qty)
    <3>1. g[n - 1] = h[n - 1]
      OBVIOUS
    <3>. QED
      BY <1>4, <3>1
  <2>. HIDE DEF g
  <2>. QED
    BY <1>4, <2>1
<1>6. g = [n \in 0 .. Len(list) |->
              IF n = 0 THEN Pick!Untouched(qty) ELSE Pick!Take(g[n - 1], list[n], qty)]
  BY <1>5, Zenon
<1>7. IsRun(g, list, qty)
  BY <1>6, Zenon DEF IsRun
<1>. QED
  BY <1>7

LEMMA AllocationIsARun ==
    ASSUME NEW list, Len(list) \in Nat, NEW qty
    PROVE  \E h : IsRun(h, list, qty) /\ Pick!allocatePickRows(list, qty) = h[Len(list)]
<1>. DEFINE run == CHOOSE h : IsRun(h, list, qty)
<1>1. IsRun(run, list, qty)
  BY RunExists
<1>2. Pick!allocatePickRows(list, qty) = run[Len(list)]
  BY Zenon DEF Pick!allocatePickRows, IsRun
<1>. QED
  BY <1>1, <1>2

(* Nothing is given before the first pass.                                 *)
LEMMA LoopStarts ==
    ASSUME StockTypes, NEW list \in Pick!Ordered, NEW qty \in Int
    PROVE  LoopInv(Pick!Untouched(qty), list, 0, qty)
<1>. DEFINE made == Pick!Untouched(qty)
<1>1. /\ made.given = [r \in Pick!PickRows |-> 0] /\ made.taken = [l \in Sites |-> 0]
      /\ made.remaining = (IF qty > 0 THEN qty ELSE 0) /\ made.total = 0
  BY DEF Pick!Untouched
<1>. HIDE DEF made
<1>2. LoopTypes(made)
  BY <1>1 DEF LoopTypes
<1>3. Len(list) \in Nat /\ \A m \in 1 .. Len(list) : list[m] \in Pick!PickRows
  BY OrderedFacts
<1>4. \A r \in Pick!PickRows : made.given[r] = 0 /\ r.lot.quantity \in Nat
  BY <1>1, RowFacts
<1>5. \A l \in Sites : made.taken[l] = 0
  BY <1>1
<1>6. ASSUME NEW l \in Sites PROVE made.taken[l] = Pick!SumOf(made.given, RowsAt(l))
  <2>1. \A r \in RowsAt(l) : made.given[r] = 0
    BY <1>4 DEF RowsAt
  <2>2. Pick!SumOf(made.given, RowsAt(l)) = 0
    BY <2>1, SumOfNothing
  <2>. QED
    BY <1>5, <2>2
<1>7. Pick!SumOf(made.given, Pick!PickRows) = 0
  BY <1>4, SumOfNothing
<1>8. ASSUME NEW i \in Positions PROVE Pick!SumOf(made.given, RowsOf(i)) <= Pick!Free(i)
  <2>1. \A r \in RowsOf(i) : made.given[r] = 0
    BY <1>4 DEF RowsOf
  <2>2. Pick!SumOf(made.given, RowsOf(i)) = 0
    BY <2>1, SumOfNothing
  <2>. QED
    BY <2>2, FreeType
<1>9. IF qty > 0 THEN made.total + made.remaining = qty ELSE made.remaining = 0
  BY <1>1
<1>10. \A m \in 1 .. Len(list) : made.given[list[m]] = 0 /\ ~(m <= 0)
  BY <1>3, <1>4
<1>11. \A k, m \in 1 .. Len(list) : ~(k <= 0)
  BY <1>3
<1>12. LoopInv(made, list, 0, qty)
  <2>1. /\ \A r \in Pick!PickRows : r.lot.lotted => made.given[r] <= r.lot.quantity
        /\ \A l \in Sites : ~(made.taken[l] > 0)
        /\ made.total = Pick!SumOf(made.given, Pick!PickRows)
    BY <1>1, <1>4, <1>5, <1>7
  <2>. QED
    BY <1>2, <1>6, <1>8, <1>9, <1>10, <1>11, <2>1 DEF LoopInv
<1>. QED
  BY <1>12 DEF made

LEMMA LoopEnds ==
    ASSUME StockTypes, NEW list \in Pick!Ordered, NEW qty \in Int
    PROVE  LoopInv(Pick!allocatePickRows(list, qty), list, Len(list), qty)
<1>1. Len(list) \in Nat
  BY OrderedFacts
<1>2. PICK h : IsRun(h, list, qty) /\ Pick!allocatePickRows(list, qty) = h[Len(list)]
  BY <1>1, AllocationIsARun
<1>3. h = [n \in 0 .. Len(list) |->
              IF n = 0 THEN Pick!Untouched(qty) ELSE Pick!Take(h[n - 1], list[n], qty)]
  BY <1>2, Zenon DEF IsRun
<1>4. h[0] = Pick!Untouched(qty)
  <2>1. 0 \in 0 .. Len(list)
    BY <1>1
  <2>. QED
    BY <1>3, <2>1, Zenon
<1>5. ASSUME NEW n \in 1 .. Len(list) PROVE h[n] = Pick!Take(h[n - 1], list[n], qty)
  <2>1. n \in 0 .. Len(list) /\ n # 0
    BY <1>1
  <2>. QED
    BY <1>3, <2>1, Zenon
<1>. DEFINE S == {n \in 0 .. Len(list) : LoopInv(h[n], list, n, qty)}
<1>6. 0 \in S
  BY <1>1, <1>4, LoopStarts
<1>7. ASSUME NEW n \in 1 .. Len(list), n - 1 \in S PROVE n \in S
  <2>1. LoopInv(h[n - 1], list, n - 1, qty)
    BY <1>7
  <2>2. LoopInv(h[n], list, n, qty)
    BY <1>5, <2>1, TakeKeepsLoop
  <2>3. n \in 0 .. Len(list)
    BY <1>1
  <2>. QED
    BY <2>2, <2>3
<1>8. Len(list) \in S
  <2>. HIDE DEF S
  <2>1. \A n \in 0 .. Len(list) : n \in S
    BY <1>1, <1>6, <1>7, CountingTo
  <2>. QED
    BY <1>1, <2>1
<1>. QED
  BY <1>2, <1>8
-----------------------------------------------------------------------------
(* What there is.                                                          *)
LEMMA InLotsType ==
    ASSUME StockTypes, NEW l \in Positions
    PROVE  /\ IsFiniteSet(DOMAIN Pick!LotsOf(l)) /\ Pick!InLots(l) \in Nat
           /\ Pick!Reachable(l) \in Nat /\ Pick!Reachable(l) <= Pick!Free(l)
<1>. DEFINE f == [n \in DOMAIN Pick!LotsOf(l) |-> Pick!LotsOf(l)[n].quantity]
<1>1. IsFiniteSet(DOMAIN Pick!LotsOf(l))
  BY LotsOfType, FS_Interval
<1>2. \A n \in DOMAIN Pick!LotsOf(l) : f[n] \in Nat
  BY LotsOfType
<1>3. Pick!InLots(l) \in Nat
  <2>. HIDE DEF f
  <2>1. Pick!SumOf(f, DOMAIN Pick!LotsOf(l)) \in Nat
    BY <1>1, <1>2, SumOfType
  <2>. QED
    BY <2>1 DEF Pick!InLots, f
<1>4. Pick!Free(l) \in Nat
  BY FreeType
<1>. QED
  BY <1>1, <1>3, <1>4 DEF Pick!Reachable, Pick!Least

(* The lots of a row add up to those it comes with.                        *)
LEMMA InLotsOfRows ==
    ASSUME StockTypes, NEW l \in Positions, Pick!Free(l) > 0
    PROVE  Pick!InLots(l) = Pick!SumOf([r \in Pick!PickRows |-> r.lot.quantity], RowsOf(l))
<1>. DEFINE f == [n \in DOMAIN Pick!LotsOf(l) |-> Pick!LotsOf(l)[n].quantity]
            g == [r \in Pick!PickRows |-> r.lot.quantity]
            b == [n \in DOMAIN Pick!LotsOf(l) |-> [row |-> l, place |-> n, lot |-> Pick!LotsOf(l)[n]]]
<1>1. b \in Bijection(DOMAIN Pick!LotsOf(l), RowsOf(l))
  BY RowsAreLots
<1>2. \A n \in DOMAIN Pick!LotsOf(l) : f[n] \in Nat /\ f[n] = g[b[n]]
  <2>1. ASSUME NEW n \in DOMAIN Pick!LotsOf(l) PROVE f[n] \in Nat /\ f[n] = g[b[n]]
    <3>1. b[n] \in Pick!PickRows /\ b[n].lot = Pick!LotsOf(l)[n]
      BY RowThere
    <3>2. g[b[n]] = b[n].lot.quantity
      BY <3>1
    <3>. QED
      BY <3>1, <3>2, LotsOfType
  <2>. QED
    BY <2>1
<1>3. IsFiniteSet(DOMAIN Pick!LotsOf(l))
  BY InLotsType
<1>4. Pick!SumOf(f, DOMAIN Pick!LotsOf(l)) = Pick!SumOf(g, RowsOf(l))
  <2>. HIDE DEF f, g, b
  <2>. QED
    BY <1>1, <1>2, <1>3, SumOfRenamed
<1>. QED
  BY <1>4 DEF Pick!InLots

(* What a row gives, once for every lot.                                   *)
LEMMA GivenOfRow ==
    ASSUME StockTypes, NEW list \in Pick!Ordered, NEW qty \in Int, NEW made,
           LoopInv(made, list, Len(list), qty), NEW l \in Positions
    PROVE  /\ made.taken[LocationOf[l]] \in Nat
           /\ Pick!SumOf(made.given, RowsOf(l)) \in Nat
           /\ Pick!SumOf(made.given, RowsOf(l)) <= made.taken[LocationOf[l]]
           /\ Pick!SumOf(made.given, RowsOf(l)) <= Pick!Free(l)
<1>1. LocationOf[l] \in Sites
  BY SuggestionsAssumption
<1>2. /\ made.taken[LocationOf[l]] \in Nat
      /\ made.taken[LocationOf[l]] = Pick!SumOf(made.given, RowsAt(LocationOf[l]))
      /\ Pick!SumOf(made.given, RowsOf(l)) <= Pick!Free(l)
      /\ \A r \in Pick!PickRows : made.given[r] \in Nat
  BY <1>1 DEF LoopInv, LoopTypes
<1>3. RowsOf(l) \subseteq RowsAt(LocationOf[l]) /\ IsFiniteSet(RowsAt(LocationOf[l]))
  BY <1>1, RowsFinite DEF RowsOf, RowsAt
<1>4. \A r \in RowsAt(LocationOf[l]) : made.given[r] \in Nat
  BY <1>2 DEF RowsAt
<1>. QED
  BY <1>2, <1>3, <1>4, SumOfSubset

(* No more is given of a row than can be had, and that from its location,  *)
(* if more is asked for.                                                   *)
LEMMA TakenIsReachable ==
    ASSUME StockTypes, NEW list \in Pick!Ordered, NEW qty \in Int, NEW made,
           LoopInv(made, list, Len(list), qty), NEW l \in Positions
    PROVE  /\ Pick!SumOf(made.given, RowsOf(l)) <= Pick!Reachable(l)
           /\ Unmet(made, qty) => Pick!Reachable(l) <= made.taken[LocationOf[l]]
<1>. DEFINE g == [r \in Pick!PickRows |-> r.lot.quantity]
            all == Pick!SumOf(made.given, RowsOf(l))
            took == made.taken[LocationOf[l]]
<1>1. /\ took \in Nat /\ all \in Nat /\ all <= took /\ all <= Pick!Free(l)
      /\ \A r \in Pick!PickRows : r.lot.lotted => made.given[r] <= r.lot.quantity
      /\ \A r \in Pick!PickRows : made.given[r] \in Nat
  BY GivenOfRow DEF LoopInv, LoopTypes
<1>2. /\ Pick!Free(l) \in Nat /\ Pick!InLots(l) \in Nat /\ Pick!Reachable(l) \in Nat
      /\ IsFiniteSet(RowsOf(l))
  BY FreeType, InLotsType, RowsFinite
<1>3. ASSUME Unmet(made, qty), NEW r \in RowsOf(l)
      PROVE  \/ r.lot.lotted /\ made.given[r] = r.lot.quantity
             \/ took >= Pick!Free(l)
  <2>1. r \in Pick!PickRows /\ r.row = l
    BY DEF RowsOf
  <2>2. PICK n \in 1 .. Len(list) : list[n] = r
    BY <2>1, OrderedFacts
  <2>3. n <= Len(list)
    BY OrderedFacts
  <2>4. Spent(made, r)
    BY <1>3, <2>2, <2>3 DEF LoopInv
  <2>. QED
    BY <2>1, <2>4 DEF Spent, Pick!At
<1>4. CASE ~(Pick!Free(l) > 0)
  BY <1>1, <1>2, <1>4, InLotsType
<1>5. ASSUME Pick!Free(l) > 0, NEW n \in DOMAIN Pick!LotsOf(l)
      PROVE  \E r \in RowsOf(l) : r.lot = Pick!LotsOf(l)[n]
  <2>. DEFINE r == [row |-> l, place |-> n, lot |-> Pick!LotsOf(l)[n]]
  <2>1. r \in Pick!PickRows
    BY <1>5, RowThere
  <2>2. r \in RowsOf(l) /\ r.lot = Pick!LotsOf(l)[n]
    BY <2>1 DEF RowsOf
  <2>. QED
    BY <2>2
<1>6. CASE Pick!Free(l) > 0 /\ Pick!Unlotted \in {Pick!LotsOf(l)[n] : n \in DOMAIN Pick!LotsOf(l)}
  <2>1. PICK n \in DOMAIN Pick!LotsOf(l) : Pick!LotsOf(l)[n] = Pick!Unlotted
    BY <1>6
  <2>2. PICK r \in RowsOf(l) : r.lot = Pick!Unlotted
    BY <1>5, <1>6, <2>1
  <2>3. ~r.lot.lotted
    BY <2>2 DEF Pick!Unlotted
  <2>4. Pick!Reachable(l) = Pick!Free(l)
    BY <1>6, Zenon DEF Pick!Reachable
  <2>. QED
    BY <1>1, <1>3, <2>3, <2>4
<1>7. CASE Pick!Free(l) > 0 /\ ~(Pick!Unlotted \in {Pick!LotsOf(l)[n] : n \in DOMAIN Pick!LotsOf(l)})
  <2>1. Pick!Reachable(l) = IF Pick!Free(l) <= Pick!InLots(l) THEN Pick!Free(l) ELSE Pick!InLots(l)
    BY <1>7, Zenon DEF Pick!Reachable, Pick!Least
  <2>2. \A r \in RowsOf(l) : r \in Pick!PickRows /\ r.lot.lotted /\ r.lot.quantity \in Nat
    <3>1. ASSUME NEW r \in RowsOf(l)
          PROVE  r \in Pick!PickRows /\ r.lot.lotted /\ r.lot.quantity \in Nat
      <4>1. r \in Pick!PickRows /\ r.row = l
        BY DEF RowsOf
      <4>2. r.lot \in {Pick!LotsOf(l)[n] : n \in DOMAIN Pick!LotsOf(l)}
        BY <4>1, RowFacts
      <4>. QED
        BY <1>7, <4>1, <4>2, RowFacts
    <3>. QED
      BY <3>1
  <2>3. Pick!InLots(l) = Pick!SumOf(g, RowsOf(l))
    BY <1>7, InLotsOfRows
  <2>4. \A r \in RowsOf(l) : g[r] = r.lot.quantity
    BY <2>2
  <2>. HIDE DEF g
  <2>5. Pick!SumOf(made.given, RowsOf(l)) <= Pick!SumOf(g, RowsOf(l))
    <3>1. \A r \in RowsOf(l) : made.given[r] \in Nat /\ g[r] \in Nat /\ made.given[r] <= g[r]
      BY <1>1, <2>2, <2>4
    <3>. QED
      BY <1>2, <3>1, SumOfMonotonic
  <2>6. all <= Pick!InLots(l)
    BY <1>1, <2>3, <2>5
  <2>7. ASSUME Unmet(made, qty), ~(took >= Pick!Free(l))
        PROVE  all = Pick!InLots(l)
    <3>1. \A r \in RowsOf(l) : made.given[r] = g[r]
      BY <1>3, <2>4, <2>7
    <3>2. Pick!SumOf(made.given, RowsOf(l)) = Pick!SumOf(g, RowsOf(l))
      BY <3>1, SumOfSame
    <3>. QED
      BY <1>1, <2>3, <3>2
  <2>. QED
    BY <1>1, <1>2, <2>1, <2>6, <2>7
<1>. QED
  BY <1>4, <1>6, <1>7

(* What expires first is given first.                                      *)
LEMMA EarlierIsSpent ==
    ASSUME StockTypes, NEW list \in Pick!Ordered, NEW qty \in Int, NEW made,
           LoopInv(made, list, Len(list), qty),
           NEW r \in Pick!PickRows, NEW s \in Pick!PickRows,
           made.given[s] > 0, r.lot.expires < s.lot.expires
    PROVE  Spent(made, r)
<1>1. PICK k \in 1 .. Len(list) : list[k] = s
  BY OrderedFacts
<1>2. PICK m \in 1 .. Len(list) : list[m] = r
  BY OrderedFacts
<1>3. /\ r.lot.expires \in Nat /\ s.lot.expires \in Nat /\ Len(list) \in Nat
  BY RowFacts, OrderedFacts, SuggestionsAssumption
<1>4. m < k
  <2>1. m # k
    BY <1>1, <1>2, <1>3
  <2>2. ~(k < m)
    <3>1. k < m => list[k].lot.expires <= list[m].lot.expires
      BY OrderedFacts
    <3>. QED
      BY <1>1, <1>2, <1>3, <3>1
  <2>. QED
    BY <1>3, <2>1, <2>2
<1>5. k <= Len(list)
  BY <1>3
<1>. QED
  BY <1>1, <1>2, <1>4, <1>5 DEF LoopInv
-----------------------------------------------------------------------------
(* Nothing but the answer and the lots of the past is kept.                *)
AnswerTypes ==
    /\ answer.at \in {"given", "outdated"}
    /\ answer = [at |-> answer.at, requested |-> answer.requested, given |-> answer.given,
                 total |-> answer.total, sufficient |-> answer.sufficient]
    /\ answer.requested \in Wanted /\ answer.total \in Nat /\ answer.sufficient \in BOOLEAN
    /\ IsFiniteSet(DOMAIN answer.given)
    /\ \A r \in DOMAIN answer.given : answer.given[r] \in Nat

SuggestInv ==
    /\ inventory \in [Positions -> [quantity : Nat, reserved : Nat, lots : Pick!LotLists]]
    /\ answer = Pick!NoAnswer \/ AnswerTypes
    /\ Pick!CanBeReserved /\ Pick!FindsWhatThereIs /\ Pick!EarliestFirst

LEMMA LotListsType == Pick!LotLists \subseteq Seq(LotLike)
<1>1. ASSUME NEW x \in Stocks PROVE x.lots \in Seq(LotLike)
  BY SuggestionsAssumption DEF LotLike
<1>. QED
  BY <1>1 DEF Pick!LotLists

LEMMA InvStockTypes ==
    ASSUME SuggestInv
    PROVE  StockTypes
<1>. DEFINE T == [quantity : Nat, reserved : Nat, lots : Pick!LotLists]
            U == [quantity : Nat, reserved : Nat, lots : Seq(LotLike)]
<1>1. T \subseteq U
  BY LotListsType
<1>2. inventory \in [Positions -> T]
  BY DEF SuggestInv
<1>. HIDE DEF T, U
<1>3. inventory \in [Positions -> U]
  BY <1>1, <1>2
<1>. QED
  BY <1>3 DEF StockTypes, U

LEMMA InitSuggest == Pick!Init => SuggestInv
<1>. SUFFICES ASSUME Pick!Init PROVE SuggestInv
  OBVIOUS
<1>1. inventory \in [Positions -> Stocks] /\ answer = [at |-> "none"]
  BY DEF Pick!Init, Pick!NoAnswer
<1>2. \A x \in Stocks : x \in [quantity : Nat, reserved : Nat, lots : Pick!LotLists]
  <2>1. ASSUME NEW x \in Stocks PROVE x \in [quantity : Nat, reserved : Nat, lots : Pick!LotLists]
    <3>1. x = [quantity |-> x.quantity, reserved |-> x.reserved, lots |-> x.lots]
          /\ x.quantity \in Nat /\ x.reserved \in Nat
      BY SuggestionsAssumption
    <3>2. x.lots \in Pick!LotLists
      BY DEF Pick!LotLists
    <3>. QED
      BY <3>1, <3>2
  <2>. QED
    BY <2>1
<1>3. inventory \in [Positions -> [quantity : Nat, reserved : Nat, lots : Pick!LotLists]]
  <2>. DEFINE T == [quantity : Nat, reserved : Nat, lots : Pick!LotLists]
  <2>1. \A x \in Stocks : x \in T
    BY <1>2
  <2>. HIDE DEF T
  <2>2. inventory \in [Positions -> T]
    BY <1>1, <2>1
  <2>. QED
    BY <2>2 DEF T
<1>4. answer.at # "given" /\ answer = Pick!NoAnswer
  BY <1>1 DEF Pick!NoAnswer
<1>5. Pick!CanBeReserved /\ Pick!FindsWhatThereIs /\ Pick!EarliestFirst
  BY <1>4, Zenon DEF Pick!CanBeReserved, Pick!FindsWhatThereIs, Pick!EarliestFirst
<1>. QED
  BY <1>3, <1>4, <1>5 DEF SuggestInv

(* As long as no stock changes, there is as much.                          *)
LEMMA SameStock ==
    ASSUME inventory' = inventory
    PROVE  /\ Pick!PickRows' = Pick!PickRows
           /\ \A l : Pick!Free(l)' = Pick!Free(l) /\ Pick!Reachable(l)' = Pick!Reachable(l)
<1>1. ASSUME NEW l PROVE Pick!Free(l)' = Pick!Free(l) /\ Pick!LotsOf(l)' = Pick!LotsOf(l)
  BY DEF Pick!Free, Pick!LotsOf
<1>2. Pick!PickRows' = Pick!PickRows
  <2>1. \A r : r \in Pick!PickRows <=>
              \E l \in Positions : /\ Pick!Free(l) > 0
                                  /\ \E n \in DOMAIN Pick!LotsOf(l) :
                                        r = [row |-> l, place |-> n, lot |-> Pick!LotsOf(l)[n]]
    BY DEF Pick!PickRows
  <2>2. \A r : r \in Pick!PickRows' <=>
              \E l \in Positions : /\ Pick!Free(l)' > 0
                                  /\ \E n \in DOMAIN Pick!LotsOf(l)' :
                                        r = [row |-> l, place |-> n, lot |-> Pick!LotsOf(l)'[n]]
    BY DEF Pick!PickRows
  <2>3. \A r : r \in Pick!PickRows' <=> r \in Pick!PickRows
    BY <1>1, <2>1, <2>2
  <2>. QED
    BY <2>3
<1>3. ASSUME NEW l PROVE Pick!Reachable(l)' = Pick!Reachable(l)
  <2>1. [n \in DOMAIN Pick!LotsOf(l) |-> Pick!LotsOf(l)[n].quantity]'
            = [n \in DOMAIN Pick!LotsOf(l) |-> Pick!LotsOf(l)[n].quantity]
    BY <1>1
  <2>2. Pick!InLots(l)' = Pick!InLots(l)
    BY <1>1, <2>1, Zenon DEF Pick!InLots
  <2>3. (Pick!Unlotted \in {Pick!LotsOf(l)[n] : n \in DOMAIN Pick!LotsOf(l)})'
            <=> Pick!Unlotted \in {Pick!LotsOf(l)[n] : n \in DOMAIN Pick!LotsOf(l)}
    BY <1>1 DEF Pick!Unlotted
  <2>. QED
    BY <1>1, <2>2, <2>3 DEF Pick!Reachable, Pick!Least
<1>. QED
  BY <1>1, <1>2, <1>3

LEMMA GetKeeps ==
    ASSUME SuggestInv, NEW qty \in Wanted, Pick!GetPickSuggestionsBySKU(qty)
    PROVE  SuggestInv'
<1>1. PICK list \in Pick!Ordered :
          answer' = [at |-> "given", requested |-> qty,
                     given |-> Pick!allocatePickRows(list, qty).given,
                     total |-> Pick!allocatePickRows(list, qty).total,
                     sufficient |-> qty = 0 \/ Pick!allocatePickRows(list, qty).total >= qty]
  BY Zenon DEF Pick!GetPickSuggestionsBySKU
<1>. DEFINE made == Pick!allocatePickRows(list, qty)
<1>2. inventory' = inventory
  BY DEF Pick!GetPickSuggestionsBySKU
<1>3. StockTypes /\ qty \in Int
  BY InvStockTypes, SuggestionsAssumption
<1>4. LoopInv(made, list, Len(list), qty)
  BY <1>3, LoopEnds
<1>5. /\ answer'.at = "given" /\ answer'.requested = qty /\ answer'.given = made.given
      /\ answer'.total = made.total
      /\ answer'.sufficient = (qty = 0 \/ made.total >= qty)
      /\ answer' = [at |-> answer'.at, requested |-> answer'.requested, given |-> answer'.given,
                    total |-> answer'.total, sufficient |-> answer'.sufficient]
  BY <1>1
<1>. HIDE DEF made
<1>6. /\ made.given \in [Pick!PickRows -> Nat] /\ made.total \in Nat
      /\ \A l \in Sites : made.taken[l] = Pick!SumOf(made.given, RowsAt(l))
      /\ \A l \in Sites :
             made.taken[l] > 0 =>
                 \E i \in Positions : LocationOf[i] = l /\ made.taken[l] <= Pick!Free(i)
      /\ made.total = Pick!SumOf(made.given, Pick!PickRows)
      /\ IF qty > 0 THEN made.total + made.remaining = qty ELSE made.remaining = 0
      /\ made.remaining \in Nat
  BY <1>4 DEF LoopInv, LoopTypes
<1>7. DOMAIN made.given = Pick!PickRows /\ \A r \in Pick!PickRows : made.given[r] \in Nat
  BY <1>6
<1>8. /\ \A l : Pick!GivenAt(l)' = Pick!SumOf(made.given, RowsAt(l))
      /\ \A i : Pick!GivenOf(i)' = Pick!SumOf(made.given, RowsOf(i))
  BY <1>5, <1>7 DEF Pick!GivenAt, Pick!GivenOf, RowsAt, RowsOf, Pick!At
<1>9. /\ Pick!PickRows' = Pick!PickRows
      /\ \A l : Pick!Free(l)' = Pick!Free(l) /\ Pick!Reachable(l)' = Pick!Reachable(l)
  BY <1>2, SameStock
<1>10. AnswerTypes'
  <2>1. answer'.sufficient \in BOOLEAN
    BY <1>5, Zenon
  <2>2. IsFiniteSet(DOMAIN answer'.given) /\ \A r \in DOMAIN answer'.given : answer'.given[r] \in Nat
    BY <1>3, <1>5, <1>7, RowsFinite
  <2>. QED
    BY <1>5, <1>6, <2>1, <2>2 DEF AnswerTypes
<1>11. Pick!CanBeReserved'
  BY <1>6, <1>8, <1>9 DEF Pick!CanBeReserved
<1>12. Pick!FindsWhatThereIs'
  <2>1. answer'.total = Pick!SumOf(answer'.given, Pick!PickRows')
    BY <1>5, <1>6, <1>9
  <2>2. \A i \in Positions : Pick!GivenOf(i)' <= Pick!Reachable(i)'
    BY <1>3, <1>4, <1>8, <1>9, TakenIsReachable
  <2>3. ASSUME answer'.requested <= 0 \/ ~answer'.sufficient, NEW i \in Positions
        PROVE  Pick!Reachable(i)' <= Pick!GivenAt(LocationOf[i])'
    <3>1. Unmet(made, qty)
      <4>1. /\ qty <= 0 \/ ~answer'.sufficient
            /\ answer'.sufficient <=> qty = 0 \/ made.total >= qty
        BY <1>5, <2>3, Zenon
      <4>. QED
        BY <1>3, <1>6, <4>1 DEF Unmet
    <3>2. LocationOf[i] \in Sites
      BY SuggestionsAssumption
    <3>3. Pick!Reachable(i) <= made.taken[LocationOf[i]]
      BY <1>3, <1>4, <3>1, TakenIsReachable
    <3>4. Pick!GivenAt(LocationOf[i])' = made.taken[LocationOf[i]]
      BY <1>6, <1>8, <3>2
    <3>. QED
      BY <1>9, <3>3, <3>4
  <2>4. answer'.requested > 0 =>
            /\ answer'.total <= answer'.requested
            /\ answer'.sufficient <=> answer'.total = answer'.requested
    <3>1. answer'.sufficient <=> qty = 0 \/ made.total >= qty
      BY <1>5, Zenon
    <3>2. qty > 0 => made.total <= qty /\ (qty = 0 \/ made.total >= qty <=> made.total = qty)
      BY <1>3, <1>6
    <3>3. answer'.requested = qty /\ answer'.total = made.total
      BY <1>5
    <3>. QED
      BY <3>1, <3>2, <3>3, Zenon
  <2>. QED
    BY <2>1, <2>2, <2>3, <2>4 DEF Pick!FindsWhatThereIs
<1>13. Pick!EarliestFirst'
  <2>1. ASSUME NEW r \in Pick!PickRows, NEW s \in Pick!PickRows,
               made.given[s] > 0, r.lot.expires < s.lot.expires
        PROVE  Pick!LeftOf(r)' = 0
    <3>1. Spent(made, r)
      BY <1>3, <1>4, <2>1, EarlierIsSpent
    <3>2. Pick!At(r) \in Sites /\ r.lot.quantity \in Nat
      BY <1>3, AtIsALocation, RowFacts
    <3>3. Pick!LeftOf(r)' = IF Pick!Free(r.row) <= made.taken[Pick!At(r)] THEN 0
                       ELSE r.lot.quantity - made.given[r]
      <4>1. Pick!GivenAt(Pick!At(r))' = made.taken[Pick!At(r)]
        BY <1>6, <1>8, <3>2
      <4>. QED
        BY <1>5, <1>9, <4>1 DEF Pick!LeftOf, Pick!At
    <3>4. made.taken[Pick!At(r)] \in Nat /\ Pick!Free(r.row) \in Nat
      BY <1>3, <1>4, <3>2, AtIsALocation, FreeType DEF LoopInv, LoopTypes
    <3>. QED
      BY <3>1, <3>2, <3>3, <3>4 DEF Spent
  <2>. QED
    BY <1>5, <1>9, <2>1 DEF Pick!EarliestFirst
<1>14. (inventory \in [Positions -> [quantity : Nat, reserved : Nat, lots : Pick!LotLists]])'
  BY <1>2 DEF SuggestInv, Pick!LotLists
<1>. QED
  BY <1>10, <1>11, <1>12, <1>13, <1>14 DEF SuggestInv

LEMMA StartKeeps ==
    ASSUME SuggestInv, Pick!StartPickingTask
    PROVE  SuggestInv'
<1>1. answer # Pick!NoAnswer /\ answer' = [at |-> "none"]
  BY DEF Pick!StartPickingTask, Pick!NoAnswer
<1>2. PICK takes : /\ \A i \in Positions : takes[i] \in Pick!TakenBy(i)
                   /\ inventory' = [i \in Positions |->
                         [inventory[i] EXCEPT !.reserved = @ + Pick!SumOf(answer.given, takes[i])]]
  BY Zenon DEF Pick!StartPickingTask
<1>3. ASSUME NEW i \in Positions PROVE Pick!SumOf(answer.given, takes[i]) \in Nat
  <2>1. AnswerTypes
    BY <1>1 DEF SuggestInv
  <2>2. takes[i] \subseteq DOMAIN answer.given
    BY <1>2 DEF Pick!TakenBy, Pick!Allocations
  <2>3. IsFiniteSet(takes[i]) /\ \A r \in takes[i] : answer.given[r] \in Nat
    BY <2>1, <2>2, FS_Subset DEF AnswerTypes
  <2>. QED
    BY <2>3, SumOfType
<1>4. inventory' \in [Positions -> [quantity : Nat, reserved : Nat, lots : Pick!LotLists]]
  <2>1. \A i \in Positions :
            [inventory[i] EXCEPT !.reserved = @ + Pick!SumOf(answer.given, takes[i])]
               \in [quantity : Nat, reserved : Nat, lots : Pick!LotLists]
    BY <1>3 DEF SuggestInv
  <2>. QED
    BY <1>2, <2>1
<1>5. answer'.at # "given" /\ answer' = Pick!NoAnswer'
  BY <1>1 DEF Pick!NoAnswer
<1>6. (Pick!CanBeReserved /\ Pick!FindsWhatThereIs /\ Pick!EarliestFirst)'
  BY <1>5, Zenon DEF Pick!CanBeReserved, Pick!FindsWhatThereIs, Pick!EarliestFirst
<1>. QED
  BY <1>4, <1>5, <1>6 DEF SuggestInv, Pick!LotLists

LEMMA SetLotsKeeps ==
    ASSUME SuggestInv, NEW l \in Positions, NEW lots \in Pick!LotLists, Pick!SetLots(l, lots)
    PROVE  SuggestInv'
<1>1. /\ inventory' = [inventory EXCEPT ![l].lots = lots]
      /\ answer' = IF answer = Pick!NoAnswer THEN answer ELSE [answer EXCEPT !.at = "outdated"]
  BY DEF Pick!SetLots
<1>2. inventory \in [Positions -> [quantity : Nat, reserved : Nat, lots : Pick!LotLists]]
  BY DEF SuggestInv
<1>3. inventory' \in [Positions -> [quantity : Nat, reserved : Nat, lots : Pick!LotLists]]
  BY <1>1, <1>2
<1>4. \A k \in Positions : Pick!Free(k)' = Pick!Free(k)
  BY <1>1, <1>2 DEF Pick!Free
<1>5. CASE answer = Pick!NoAnswer
  <2>1. answer' = Pick!NoAnswer' /\ answer'.at # "given"
    BY <1>1, <1>5 DEF Pick!NoAnswer
  <2>2. (Pick!CanBeReserved /\ Pick!FindsWhatThereIs /\ Pick!EarliestFirst)'
    BY <2>1, Zenon DEF Pick!CanBeReserved, Pick!FindsWhatThereIs, Pick!EarliestFirst
  <2>. QED
    BY <1>3, <2>1, <2>2 DEF SuggestInv, Pick!LotLists
<1>6. CASE answer # Pick!NoAnswer
  <2>1. AnswerTypes
    BY <1>6 DEF SuggestInv
  <2>2. /\ answer'.at = "outdated" /\ answer'.requested = answer.requested
        /\ answer'.given = answer.given /\ answer'.total = answer.total
        /\ answer'.sufficient = answer.sufficient
        /\ answer' = [at |-> answer'.at, requested |-> answer'.requested, given |-> answer'.given,
                      total |-> answer'.total, sufficient |-> answer'.sufficient]
    BY <1>1, <1>6, <2>1 DEF AnswerTypes
  <2>3. AnswerTypes'
    BY <2>1, <2>2 DEF AnswerTypes
  <2>4. \A k : Pick!GivenAt(k)' = Pick!GivenAt(k)
    BY <2>2 DEF Pick!GivenAt, Pick!At
  <2>5. Pick!CanBeReserved'
    BY <1>4, <1>6, <2>4 DEF SuggestInv, Pick!CanBeReserved
  <2>6. (Pick!FindsWhatThereIs /\ Pick!EarliestFirst)'
    BY <2>2 DEF Pick!FindsWhatThereIs, Pick!EarliestFirst
  <2>. QED
    BY <1>3, <2>3, <2>5, <2>6 DEF SuggestInv, Pick!LotLists
<1>. QED
  BY <1>5, <1>6

LEMMA SuggestInvStep == SuggestInv /\ [Pick!Next]_(Pick!suggestionVars) => SuggestInv'
<1>. SUFFICES ASSUME SuggestInv, [Pick!Next]_(Pick!suggestionVars) PROVE SuggestInv'
  OBVIOUS
<1>1. CASE Pick!StartPickingTask
  BY <1>1, StartKeeps
<1>2. ASSUME NEW qty \in Wanted, Pick!GetPickSuggestionsBySKU(qty) PROVE SuggestInv'
  BY <1>2, GetKeeps
<1>3. ASSUME NEW l \in Positions, Pick!CreateInventoryLot(l) \/ Pick!DeleteInventoryLot(l)
      PROVE  SuggestInv'
  <2>1. PICK lots \in Pick!LotLists : Pick!SetLots(l, lots)
    BY <1>3, Zenon DEF Pick!CreateInventoryLot, Pick!DeleteInventoryLot
  <2>. QED
    BY <2>1, SetLotsKeeps
<1>4. CASE UNCHANGED Pick!suggestionVars
  <2>1. inventory' = inventory /\ answer' = answer
    BY <1>4 DEF Pick!suggestionVars
  <2>2. /\ Pick!PickRows' = Pick!PickRows
        /\ \A l : Pick!Free(l)' = Pick!Free(l) /\ Pick!Reachable(l)' = Pick!Reachable(l)
    BY <2>1, SameStock
  <2>3. \A l : Pick!GivenAt(l)' = Pick!GivenAt(l) /\ Pick!GivenOf(l)' = Pick!GivenOf(l)
    BY <2>1 DEF Pick!GivenAt, Pick!GivenOf, Pick!At
  <2>4. Pick!CanBeReserved'
    BY <2>1, <2>2, <2>3 DEF SuggestInv, Pick!CanBeReserved, Pick!NoAnswer
  <2>5. Pick!FindsWhatThereIs'
    BY <2>1, <2>2, <2>3 DEF SuggestInv, Pick!FindsWhatThereIs
  <2>6. Pick!EarliestFirst'
    <3>1. \A r : Pick!LeftOf(r)' = Pick!LeftOf(r)
      BY <2>1, <2>2, <2>3 DEF Pick!LeftOf, Pick!At
    <3>. QED
      BY <2>1, <2>2, <3>1 DEF SuggestInv, Pick!EarliestFirst
  <2>7. AnswerTypes' <=> AnswerTypes
    BY <2>1 DEF AnswerTypes
  <2>. QED
    BY <2>1, <2>4, <2>5, <2>6, <2>7 DEF SuggestInv, Pick!LotLists, Pick!NoAnswer
<1>. QED
  BY <1>1, <1>2, <1>3, <1>4 DEF Pick!Next, Pick!GetPickSuggestions

(* All three of what is said of a suggestion, in every reachable state.    *)
THEOREM SuggestionsStayRight == Pick!Spec => []SuggestsWhatThereIs
<1>1. SuggestInv => SuggestsWhatThereIs
  BY DEF SuggestInv, SuggestsWhatThereIs
<1>. QED
  BY <1>1, InitSuggest, SuggestInvStep, PTL DEF Pick!Spec

-----------------------------------------------------------------------------
(* The cache of permissions.                                               *)
USE BoundsAssumption

Reading == [at : {"read"}, pod : Pods, perms : Nat, since : Nat]
Writing == [at : {"written"}, pod : Pods, since : Nat]

(* A request in progress started at most MaxDelay ago, and what it read    *)
(* was current then.                                                       *)
ReqOK(q) ==
  /\ q.at # "none" => q.since <= now /\ now <= q.since + MaxDelay
  /\ q.at = "read" => /\ q.perms <= stored
                      /\ q.perms # stored => q.since <= replacedAt[q.perms]

(* An entry ends at most TTL after now, and at most MaxDelay + TTL after   *)
(* its permissions were replaced.                                          *)
EntryOK(entry) ==
  /\ entry.perms <= stored
  /\ entry.until <= now + TTL
  /\ entry.perms # stored => entry.until <= replacedAt[entry.perms] + MaxDelay + TTL

CacheInv == /\ TypeOK
            /\ \A r \in Requests : ReqOK(req[r])
            /\ \A p \in Pods : EntryOK(cache[p])

LEMMA IdleIsOK == Idle.at = "none" /\ ReqOK(Idle)
BY DEF Idle, ReqOK

LEMMA ReqIsIdleReadingOrWriting ==
  ASSUME TypeOK, NEW r \in Requests
  PROVE  \/ req[r] = Idle /\ req[r].at = "none"
         \/ req[r] \in Reading /\ req[r].at = "read"
         \/ req[r] \in Writing /\ req[r].at = "written"
BY DEF TypeOK, Reading, Writing, Idle

LEMMA InitCacheInv == Init => CacheInv
<1>. SUFFICES ASSUME Init PROVE CacheInv
  OBVIOUS
<1>1. TypeOK
  BY DEF Init, TypeOK, NoEntry
<1>2. \A r \in Requests : ReqOK(req[r])
  BY IdleIsOK DEF Init
<1>3. EntryOK(NoEntry)
  <2>1. now = 0 /\ stored = 0 /\ NoEntry.perms = 0 /\ NoEntry.until = 0
    BY DEF Init, NoEntry
  <2>. QED
    BY <2>1 DEF EntryOK
<1>4. \A p \in Pods : EntryOK(cache[p])
  BY <1>3 DEF Init
<1>. QED
  BY <1>1, <1>2, <1>4 DEF CacheInv

LEMMA ReadStep ==
  ASSUME CacheInv, NEW r \in Requests, NEW p \in Pods, ReadPermissions(r, p)
  PROVE  CacheInv'
<1>. DEFINE read == [at |-> "read", pod |-> p, perms |-> stored, since |-> now]
<1>1. req' = [req EXCEPT ![r] = read] /\ UNCHANGED <<now, stored, replacedAt, cache>>
  BY DEF ReadPermissions, Goes
<1>2. read \in Reading
  BY DEF CacheInv, TypeOK, Reading
<1>3. TypeOK'
  BY <1>1, <1>2 DEF CacheInv, TypeOK, Reading, Idle
<1>4. ReqOK(read)'
  BY <1>1 DEF CacheInv, TypeOK, ReqOK
<1>5. \A q \in Requests : ReqOK(req[q])'
  BY <1>1, <1>4 DEF CacheInv, TypeOK, ReqOK
<1>6. \A o \in Pods : EntryOK(cache[o])'
  BY <1>1 DEF CacheInv, EntryOK
<1>. QED
  BY <1>3, <1>5, <1>6 DEF CacheInv

LEMMA StoreStep ==
  ASSUME CacheInv, NEW r \in Requests, StoreEntry(r)
  PROVE  CacheInv'
<1>. PICK entry : entry = [perms |-> req[r].perms, until |-> now + TTL]
  OBVIOUS
<1>1. /\ cache' = [cache EXCEPT ![req[r].pod] = entry]
      /\ req' = [req EXCEPT ![r] = Idle]
      /\ UNCHANGED <<now, stored, replacedAt>>
      /\ req[r].at = "read"
  BY DEF StoreEntry, Goes
<1>2. req[r] \in Reading
  BY <1>1, ReqIsIdleReadingOrWriting DEF CacheInv
<1>3. entry \in [perms : Nat, until : Nat]
  BY <1>2 DEF CacheInv, TypeOK, Reading
<1>4. TypeOK'
  BY <1>1, <1>3 DEF CacheInv, TypeOK
<1>5. EntryOK(entry)'
  <2>1. ReqOK(req[r])
    BY DEF CacheInv
  <2>2. /\ now \in Nat /\ stored \in 0..MaxVersion
        /\ req[r].perms \in Nat /\ req[r].since \in Nat
        /\ replacedAt \in [0..MaxVersion -> Nat]
    BY <1>2 DEF CacheInv, TypeOK, Reading
  <2>3. /\ now <= req[r].since + MaxDelay
        /\ req[r].perms <= stored
        /\ req[r].perms # stored => req[r].since <= replacedAt[req[r].perms]
    BY <1>1, <2>1 DEF ReqOK
  <2>4. replacedAt[req[r].perms] \in Nat
    BY <2>2, <2>3
  <2>5. req[r].perms # stored => now + TTL <= replacedAt[req[r].perms] + MaxDelay + TTL
    BY <2>2, <2>3, <2>4
  <2>6. entry.perms = req[r].perms /\ entry.until = now + TTL
    OBVIOUS
  <2>7. EntryOK(entry)
    BY <2>2, <2>3, <2>5, <2>6 DEF EntryOK
  <2>. QED
    BY <1>1, <2>7 DEF EntryOK
<1>6. ASSUME NEW p \in Pods PROVE EntryOK(cache[p])'
  <2>1. cache'[p] = cache[p] \/ cache'[p] = entry
    BY <1>1 DEF CacheInv, TypeOK
  <2>2. EntryOK(cache[p])
    BY DEF CacheInv
  <2>3. CASE cache'[p] = cache[p]
    BY <1>1, <2>2, <2>3 DEF EntryOK
  <2>4. CASE cache'[p] = entry
    BY <1>5, <2>4 DEF EntryOK
  <2>. QED
    BY <2>1, <2>3, <2>4
<1>7. \A q \in Requests : ReqOK(req[q])'
  BY <1>1, IdleIsOK DEF CacheInv, TypeOK, ReqOK
<1>. QED
  BY <1>4, <1>6, <1>7 DEF CacheInv

LEMMA WriteStep ==
  ASSUME CacheInv, NEW r \in Requests, NEW p \in Pods, WritePermissions(r, p)
  PROVE  CacheInv'
<1>. DEFINE written == [at |-> "written", pod |-> p, since |-> now]
<1>1. /\ stored' = stored + 1 /\ stored < MaxVersion
      /\ replacedAt' = [replacedAt EXCEPT ![stored] = now]
      /\ req' = [req EXCEPT ![r] = written] \/ req' = req
      /\ UNCHANGED <<now, cache>>
  BY DEF WritePermissions, Goes
<1>2. now \in Nat /\ stored \in 0..MaxVersion /\ replacedAt \in [0..MaxVersion -> Nat]
  BY DEF CacheInv, TypeOK
<1>3. written \in Writing
  BY <1>2 DEF Writing
<1>4. TypeOK'
  <2>1. stored' \in 0..MaxVersion /\ replacedAt' \in [0..MaxVersion -> Nat]
    BY <1>1, <1>2
  <2>2. now' \in Nat /\ cache' \in [Pods -> [perms : Nat, until : Nat]]
    BY <1>1 DEF CacheInv, TypeOK
  <2>3. req' \in [Requests -> {Idle} \cup Reading \cup Writing]
    BY <1>1, <1>3 DEF CacheInv, TypeOK, Reading, Writing
  <2>. QED
    BY <2>1, <2>2, <2>3 DEF TypeOK, Reading, Writing, Idle
<1>5. /\ replacedAt'[stored] = now
      /\ \A v \in Nat : v <= stored /\ v # stored => replacedAt'[v] = replacedAt[v]
      /\ \A v \in Nat : v <= stored => v <= stored' /\ v # stored'
  BY <1>1, <1>2
<1>6. \A q \in Requests : ReqOK(req[q])'
  <2>1. ReqOK(written)'
    BY <1>1, <1>2 DEF ReqOK
  <2>2. ASSUME NEW q \in Requests, req'[q] = req[q] PROVE ReqOK(req[q])'
    <3>1. req[q].at = "read" => req[q].perms \in Nat /\ req[q].since \in Nat
      BY ReqIsIdleReadingOrWriting DEF CacheInv, Reading
    <3>2. ReqOK(req[q])
      BY DEF CacheInv
    <3>3. req[q].at # "none" => req[q].since <= now /\ now <= req[q].since + MaxDelay
      BY <3>2 DEF ReqOK
    <3>4. CASE req[q].at = "read"
      <4>1. req[q].perms <= stored /\ req[q].since <= now
        BY <3>2, <3>4 DEF ReqOK
      <4>2. req[q].since <= replacedAt'[req[q].perms]
        BY <1>5, <3>1, <3>2, <3>4, <4>1 DEF ReqOK
      <4>. QED
        BY <1>1, <1>5, <2>2, <3>1, <3>3, <3>4, <4>1, <4>2 DEF ReqOK
    <3>5. CASE req[q].at # "read"
      BY <1>1, <2>2, <3>3, <3>5 DEF ReqOK
    <3>. QED
      BY <3>4, <3>5
  <2>. QED
    BY <1>1, <2>1, <2>2 DEF CacheInv, TypeOK
<1>7. ASSUME NEW o \in Pods PROVE EntryOK(cache[o])'
  <2>1. cache[o].perms \in Nat /\ cache[o].until \in Nat
    BY DEF CacheInv, TypeOK
  <2>2. EntryOK(cache[o])
    BY DEF CacheInv
  <2>3. cache[o].until <= replacedAt'[cache[o].perms] + MaxDelay + TTL
    <3>1. CASE cache[o].perms = stored
      BY <1>2, <1>5, <2>1, <2>2, <3>1 DEF EntryOK
    <3>2. CASE cache[o].perms # stored
      BY <1>5, <2>1, <2>2, <3>2 DEF EntryOK
    <3>. QED
      BY <3>1, <3>2
  <2>. QED
    BY <1>1, <1>5, <2>1, <2>2, <2>3 DEF EntryOK
<1>. QED
  BY <1>4, <1>6, <1>7 DEF CacheInv

LEMMA InvalidateStep ==
  ASSUME CacheInv, NEW r \in Requests, InvalidateEntry(r)
  PROVE  CacheInv'
<1>1. /\ cache' = [cache EXCEPT ![req[r].pod] = NoEntry]
      /\ req' = [req EXCEPT ![r] = Idle]
      /\ UNCHANGED <<now, stored, replacedAt>>
  BY DEF InvalidateEntry, Without, Goes
<1>2. TypeOK'
  BY <1>1 DEF CacheInv, TypeOK, NoEntry
<1>3. EntryOK(NoEntry)'
  <2>1. NoEntry.perms = 0 /\ NoEntry.until = 0
    BY DEF NoEntry
  <2>2. now' \in Nat /\ stored' \in Nat /\ replacedAt'[0] \in Nat
    BY <1>2 DEF TypeOK
  <2>3. \A n \in Nat : 0 <= n /\ 0 <= n + TTL /\ 0 <= n + MaxDelay + TTL
    OBVIOUS
  <2>. QED
    BY <2>1, <2>2, <2>3 DEF EntryOK, NoEntry
<1>4. \A p \in Pods : EntryOK(cache[p])'
  BY <1>1, <1>3 DEF CacheInv, TypeOK, EntryOK
<1>5. \A q \in Requests : ReqOK(req[q])'
  BY <1>1, IdleIsOK DEF CacheInv, TypeOK, ReqOK
<1>. QED
  BY <1>2, <1>4, <1>5 DEF CacheInv

LEMMA TickStep == ASSUME CacheInv, Tick PROVE CacheInv'
<1>1. now' = now + 1 /\ UNCHANGED <<stored, replacedAt, cache, req>>
  BY DEF Tick
<1>2. TypeOK'
  BY <1>1 DEF CacheInv, TypeOK
<1>3. ASSUME NEW r \in Requests PROVE ReqOK(req[r])'
  <2>1. CASE req[r] = Idle
    BY <1>1, <2>1 DEF ReqOK, Idle
  <2>2. CASE req[r] # Idle
    <3>1. now < req[r].since + MaxDelay
      BY <2>2 DEF Tick
    <3>2. req[r].since \in Nat /\ now \in Nat /\ req[r].at # "none"
      BY <2>2, ReqIsIdleReadingOrWriting DEF CacheInv, TypeOK, Reading, Writing
    <3>. QED
      BY <1>1, <3>1, <3>2 DEF CacheInv, ReqOK
  <2>. QED
    BY <2>1, <2>2
<1>4. ASSUME NEW p \in Pods PROVE EntryOK(cache[p])'
  BY <1>1 DEF CacheInv, TypeOK, EntryOK
<1>. QED
  BY <1>2, <1>3, <1>4 DEF CacheInv

LEMMA CacheInvStep == CacheInv /\ [Next]_vars => CacheInv'
<1>. SUFFICES ASSUME CacheInv, [Next]_vars PROVE CacheInv'
  OBVIOUS
<1>1. CASE UNCHANGED vars
  BY <1>1 DEF CacheInv, TypeOK, ReqOK, EntryOK, vars
<1>2. CASE Next
  BY <1>2, TickStep, ReadStep, StoreStep, WriteStep, InvalidateStep DEF Next
<1>. QED
  BY <1>1, <1>2

(* The values of the clock, the row, the entries and the requests stay     *)
(* within their types.                                                     *)
THEOREM PermissionsTypes == Spec => []TypeOK
<1>1. CacheInv => TypeOK
  BY DEF CacheInv
<1>. QED
  BY <1>1, InitCacheInv, CacheInvStep, PTL DEF Spec

(* No pod uses permissions that were replaced longer ago than the TTL and  *)
(* one request's delay.                                                    *)
THEOREM StalenessIsBounded == Spec => []StalenessBounded
<1>1. CacheInv => StalenessBounded
  <2>. SUFFICES ASSUME CacheInv, NEW p \in Pods, Fresh(cache[p]), cache[p].perms # stored
                PROVE  now < replacedAt[cache[p].perms] + MaxDelay + TTL
    BY DEF StalenessBounded
  <2>1. /\ now \in Nat /\ cache[p].until \in Nat /\ cache[p].perms \in 0..MaxVersion
        /\ replacedAt[cache[p].perms] \in Nat
    BY DEF CacheInv, TypeOK, EntryOK
  <2>. QED
    BY <2>1 DEF CacheInv, EntryOK, Fresh
<1>. QED
  BY <1>1, InitCacheInv, CacheInvStep, PTL DEF Spec

-----------------------------------------------------------------------------
(* A behaviour of the run's specification is one of every area, of all but *)
(* one of which nothing ever moves: what is proved of an area alone holds  *)
(* of the run's specification, too.                                        *)
THEOREM MCSpecIsTheirs ==
    MCSpec => /\ Spec /\ Register!Spec /\ Category!Spec /\ Article!Spec
              /\ Tenant!Spec /\ Password!Spec /\ Limiter!Spec /\ Pick!Spec
<1>. DEFINE MCStep == Permissions \/ Registering \/ Categorizing \/ Stocking \/ SigningUp
                        \/ Resetting \/ Limiting \/ Suggesting
            all == <<area, vars, registers, categories, articles, signups, passwords,
                     limiter, suggesting>>
<1>1. MCInit => /\ Init /\ Register!Init /\ Category!Init /\ Article!Init
                /\ Tenant!Init /\ Password!Init /\ Limiter!Init /\ Pick!Init
  BY Zenon DEF MCInit
<1>2. ASSUME [MCStep]_all
      PROVE  /\ Next \/ UNCHANGED vars
             /\ Register!Next \/ UNCHANGED registers
             /\ Category!Next \/ UNCHANGED categories
             /\ Article!Next \/ UNCHANGED articles
             /\ Tenant!Next \/ UNCHANGED signups
             /\ Password!Next \/ UNCHANGED passwords
             /\ Limiter!Next \/ UNCHANGED limiter
             /\ Pick!Next \/ UNCHANGED suggesting
  <2>1. CASE UNCHANGED all
    BY <2>1
  <2>2. CASE MCStep
    BY <2>2, Zenon DEF Permissions, Registering, Categorizing, Stocking, SigningUp, Resetting, Limiting,
       Suggesting
  <2>. QED
    BY <1>2, <2>1, <2>2
<1>3. [MCStep]_all =>
        /\ [Next]_vars /\ [Register!Next]_(Register!registerVars)
        /\ [Category!Next]_(Category!categoryVars) /\ [Article!Next]_(Article!articleVars)
        /\ [Tenant!Next]_(Tenant!signupVars) /\ [Password!Next]_(Password!resetVars)
        /\ [Limiter!Next]_(Limiter!limiterVars) /\ [Pick!Next]_(Pick!suggestionVars)
  <2>1. /\ registers = Register!registerVars /\ categories = Category!categoryVars
        /\ articles = Article!articleVars /\ signups = Tenant!signupVars
        /\ passwords = Password!resetVars /\ limiter = Limiter!limiterVars
        /\ suggesting = Pick!suggestionVars
        /\ registers' = Register!registerVars' /\ categories' = Category!categoryVars'
        /\ articles' = Article!articleVars' /\ signups' = Tenant!signupVars'
        /\ passwords' = Password!resetVars' /\ limiter' = Limiter!limiterVars'
        /\ suggesting' = Pick!suggestionVars'
    BY DEF registers, categories, articles, signups, passwords, limiter, suggesting, Register!registerVars,
       Category!categoryVars, Article!articleVars, Tenant!signupVars, Password!resetVars, Limiter!limiterVars,
       Pick!suggestionVars
  <2>. QED
    BY <1>2, <2>1
<1>. QED
  BY <1>1, <1>3, PTL DEF MCSpec, Spec, Register!Spec, Category!Spec, Article!Spec, Tenant!Spec,
     Password!Spec, Limiter!Spec, Pick!Spec

-----------------------------------------------------------------------------
(* Types.  The invariants above say of an area what the theorems about it  *)
(* need; what is left of its types is kept beside them.                    *)

(* Registers: how many requests there were, and what is left of each.      *)
TodoLists == UNION {[1 .. n -> Keys] : n \in 1 .. 2}

EditType(q) ==
    \/ q = Register!NoEdit \/ q.at = "write"
    \/ q.at \in {"look", "insert"} /\ q.todo \in TodoLists

RegisterSizes ==
    /\ edits \in 0 .. MaxEdits /\ overtaken \subseteq AllIds
    /\ \A e \in Actors : EditType(edit[e])

LEMMA AreaBounds == MaxEdits \in Nat /\ MaxResets \in Nat
BY Zenon, AdministrationAssumption

LEMMA RowsGiven == Rows \subseteq [sku : Skus, rotation : {"", "fifo", "fefo"}, expires : BOOLEAN]
BY Zenon, AdministrationAssumption

LEMMA ShortLists ==
    /\ \A k \in Keys : <<k>> \in TodoLists
    /\ \A j, k \in Keys : <<j, k>> \in TodoLists
    /\ \A s \in TodoLists : Tail(s) = <<>> \/ Tail(s) \in TodoLists
<1>1. ASSUME NEW k \in Keys PROVE <<k>> \in TodoLists
  <2>1. <<k>> \in [1 .. 1 -> Keys]
    OBVIOUS
  <2>. QED
    BY <2>1 DEF TodoLists
<1>2. ASSUME NEW j \in Keys, NEW k \in Keys PROVE <<j, k>> \in TodoLists
  <2>1. <<j, k>> \in [1 .. 2 -> Keys]
    OBVIOUS
  <2>. QED
    BY <2>1 DEF TodoLists
<1>3. ASSUME NEW s \in TodoLists PROVE Tail(s) = <<>> \/ Tail(s) \in TodoLists
  <2>1. PICK n \in 1 .. 2 : s \in [1 .. n -> Keys]
    BY DEF TodoLists
  <2>2. CASE n = 1
    <3>1. PICK k \in Keys : k = s[1]
      BY <2>1, <2>2
    <3>2. s = <<k>>
      BY <2>1, <2>2, <3>1
    <3>. QED
      BY <3>2
  <2>3. CASE n = 2
    <3>1. PICK j, k \in Keys : j = s[1] /\ k = s[2]
      BY <2>1, <2>3
    <3>2. s = <<j, k>>
      BY <2>1, <2>3, <3>1
    <3>3. Tail(<<j, k>>) = <<k>>
      OBVIOUS
    <3>. QED
      BY <1>1, <3>2, <3>3
  <2>. QED
    BY <2>2, <2>3
<1>. QED
  BY <1>1, <1>2, <1>3

LEMMA FirstOfTwo ==
    ASSUME NEW j \in Keys, NEW k \in Keys, NEW n \in 1 .. 2
    PROVE  SubSeq(<<j, k>>, 1, n) \in TodoLists
<1>1. PICK both : both = <<j, k>>
  OBVIOUS
<1>2. both \in Seq(Keys) /\ Len(both) = 2
  BY <1>1
<1>3. PICK first : first = SubSeq(both, 1, n)
  OBVIOUS
<1>4. first \in Seq(Keys)
  BY <1>2, <1>3
<1>5. Len(first) = n
  BY <1>2, <1>3
<1>6. first \in [1 .. n -> Keys]
  BY <1>4, <1>5
<1>. QED
  BY <1>1, <1>3, <1>6 DEF TodoLists

LEMMA InsertingType ==
    ASSUME NEW s, s = <<>> \/ s \in TodoLists
    PROVE  EditType(Register!Inserting(s))
BY DEF Register!Inserting, EditType

(* A request in progress keeps its type when it goes on.                   *)
LEMMA EditTypesKept ==
    ASSUME RegisterInv, RegisterSizes, NEW e \in Actors, NEW q, EditType(q),
           edit' = [edit EXCEPT ![e] = q],
           edits' = edits \/ (edits < MaxEdits /\ edits' = edits + 1),
           overtaken' \subseteq AllIds
    PROVE  RegisterSizes'
<1>1. edits' \in 0 .. MaxEdits
  <2>1. edits \in 0 .. MaxEdits /\ MaxEdits \in Nat
    BY AreaBounds DEF RegisterSizes
  <2>. QED
    BY <2>1
<1>2. ASSUME NEW d \in Actors PROVE EditType(edit'[d])
  BY DEF RegisterInv, RegisterTypes, RegisterSizes
<1>. QED
  BY <1>1, <1>2 DEF RegisterSizes, EditType

LEMMA RegisterSizesKept ==
    ASSUME RegisterInv, RegisterSizes, [Register!Next]_(Register!registerVars)
    PROVE  RegisterSizes'
<1>0. EditType(Register!NoEdit) /\ overtaken \subseteq AllIds
  BY DEF EditType, RegisterSizes
<1>1. ASSUME NEW e \in Actors, Register!Create(e) PROVE RegisterSizes'
  <2>1. PICK n \in 1 .. 2, k1, k2 \in Keys :
          /\ edits < MaxEdits /\ edits' = edits + 1 /\ overtaken' = overtaken
          /\ edit' = [edit EXCEPT ![e] = Register!Inserting(SubSeq(<<k1, k2>>, 1, n))]
    BY <1>1, Zenon DEF Register!Create, Register!Begin, Register!Rest
  <2>2. SubSeq(<<k1, k2>>, 1, n) \in TodoLists
    BY <2>1, FirstOfTwo
  <2>. QED
    BY <1>0, <2>1, <2>2, InsertingType, EditTypesKept
<1>2. ASSUME NEW e \in Actors, Register!LookUp(e) \/ Register!Insert(e) PROVE RegisterSizes'
  <2>1. PICK todo : todo = edit[e].todo
    OBVIOUS
  <2>2. edit[e].at \in {"look", "insert"} /\ todo \in TodoLists
    BY <1>2, <2>1, RegisterRecords DEF Register!LookUp, Register!Insert, RegisterSizes, EditType
  <2>3. PICK q : /\ \/ q = Register!Inserting(Register!AfterFailure(todo))
                    \/ q = Register!Inserting(Tail(todo))
                    \/ q = [edit[e] EXCEPT !.at = "insert"]
                 /\ edit' = [edit EXCEPT ![e] = q] /\ edits' = edits /\ overtaken' = overtaken
    BY <1>2, <2>1, Zenon DEF Register!LookUp, Register!Insert, Register!Goes, Register!Rest
  <2>4. EditType([edit[e] EXCEPT !.at = "insert"])
    BY <2>1, <2>2 DEF EditType
  <2>5. Register!AfterFailure(todo) \in {<<>>, Tail(todo)}
    BY DEF Register!AfterFailure
  <2>6. Tail(todo) = <<>> \/ Tail(todo) \in TodoLists
    BY <2>2, ShortLists
  <2>7. EditType(q)
    BY <2>3, <2>4, <2>5, <2>6, InsertingType
  <2>. QED
    BY <1>0, <2>3, <2>7, EditTypesKept
<1>3. ASSUME NEW e \in Actors, Register!ReadRow(e) PROVE RegisterSizes'
  <2>1. PICK i, give : /\ edits < MaxEdits /\ edits' = edits + 1 /\ overtaken' = overtaken
                       /\ edit' = [edit EXCEPT ![e] = [at |-> "write", id |-> i, give |-> give,
                                                       read |-> rows[i]]]
    BY <1>3, Zenon DEF Register!ReadRow, Register!Begin, Register!Rest
  <2>2. EditType([at |-> "write", id |-> i, give |-> give, read |-> rows[i]])
    BY DEF EditType
  <2>. QED
    BY <1>0, <2>1, <2>2, EditTypesKept
<1>4. ASSUME NEW e \in Actors, Register!WriteRow(e) PROVE RegisterSizes'
  <2>1. PICK j : j = edit[e].id
    OBVIOUS
  <2>2. /\ edit' = [edit EXCEPT ![e] = Register!NoEdit] /\ edits' = edits
        /\ overtaken' \in {overtaken, overtaken \cup {j}}
    BY <1>4, <2>1 DEF Register!WriteRow, Register!Goes
  <2>3. j \in AllIds
    BY <1>4, <2>1 DEF Register!WriteRow, RegisterInv, EditOK
  <2>. QED
    BY <1>0, <2>2, <2>3, EditTypesKept
<1>5. ASSUME NEW e \in Actors, Register!Delete(e) PROVE RegisterSizes'
  <2>1. /\ edits < MaxEdits /\ edits' = edits + 1 /\ overtaken' = overtaken
        /\ edit' = [edit EXCEPT ![e] = Register!NoEdit]
    BY <1>5 DEF Register!Delete, Register!Begin
  <2>. QED
    BY <1>0, <2>1, EditTypesKept
<1>6. CASE UNCHANGED Register!registerVars
  BY <1>6 DEF Register!registerVars, RegisterSizes, EditType
<1>7. CASE Register!Next
  BY <1>1, <1>2, <1>3, <1>4, <1>5, <1>7 DEF Register!Next
<1>. QED
  BY <1>6, <1>7

LEMMA RegisterTypeCorrect == Register!Spec => []Register!TypeOK
<1>1. Register!Init => RegisterSizes
  <2>1. MaxEdits \in Nat
    BY AreaBounds
  <2>2. Register!Init =>
          edits = 0 /\ overtaken = {} /\ \A e \in Actors : edit[e] = Register!NoEdit
    BY DEF Register!Init
  <2>. QED
    BY <2>1, <2>2 DEF RegisterSizes, EditType
<1>2. RegisterInv /\ RegisterSizes => Register!TypeOK
  BY DEF RegisterInv, RegisterTypes, RegisterSizes, EditOK, EditType, TodoLists, AllIds, Register!TypeOK
<1>. QED
  BY <1>1, <1>2, InitRegister, RegisterStep, RegisterSizesKept, PTL DEF Register!Spec

(* Categories: what the moves have left behind.                            *)
CategorySets == /\ inactive \subseteq Ids /\ late \subseteq Ids /\ stale \subseteq Ids
                /\ cut \subseteq Ids /\ nested \subseteq Ids

LEMMA CategorySetsKept ==
    ASSUME CategoryInv, CategorySets, [Category!Next]_(Category!categoryVars)
    PROVE  CategorySets'
<1>1. ASSUME NEW e \in Actors, Category!Write(e) PROVE CategorySets'
  <2>1. PICK c : c = move[e].cat
    OBVIOUS
  <2>2. c \in Ids
    BY <1>1, <2>1, CategoryRecords DEF Category!Write, CategoryInv, CategoryTypes
  <2>3. /\ late' \subseteq late \cup {c} /\ stale' \subseteq stale \cup {c}
        /\ cut' \subseteq cut \cup {c} /\ nested' \subseteq nested \cup {c} /\ inactive' = inactive
    BY <1>1, <2>1 DEF Category!Write, Category!If
  <2>. QED
    BY <2>2, <2>3 DEF CategorySets
<1>2. ASSUME UNCHANGED <<inactive, late, stale, cut, nested>> PROVE CategorySets'
  BY <1>2 DEF CategorySets
<1>3. ASSUME NEW c \in Ids, Category!SoftDelete(c) PROVE CategorySets'
  BY <1>3 DEF Category!SoftDelete, CategorySets
<1>4. ASSUME NEW e \in Actors, Category!ReadParent(e) \/ Category!WithoutParent(e) \/ Category!ListAll(e)
      PROVE  UNCHANGED <<inactive, late, stale, cut, nested>>
  BY <1>4 DEF Category!ReadParent, Category!WithoutParent, Category!ListAll, Category!Rest
<1>. QED
  BY <1>1, <1>2, <1>3, <1>4 DEF Category!Next, Category!categoryVars

LEMMA CategoryTypeCorrect == Category!Spec => []Category!TypeOK
<1>1. Category!Init => CategorySets
  BY DEF Category!Init, CategorySets
<1>2. CategoryInv /\ CategorySets => Category!TypeOK
  BY DEF CategoryInv, CategoryTypes, CategorySets, Category!TypeOK
<1>. QED
  BY <1>1, <1>2, InitCategory, CategoryStep, CategorySetsKept, PTL DEF Category!Spec
(* Articles: what an article is, and what the calls were given.            *)
ArticleRows == [tenant : Tenants, sku : Skus, rotation : {"fifo", "fefo"}, expires : BOOLEAN]

CallType(q) ==
    \/ q = Article!NoCall
    \/ /\ q.at \in {"check", "insert"} /\ q.tenant \in Tenants
       /\ q.todo \in Seq(Rows) /\ q.todo # <<>>
    \/ q.at = "read" /\ q.id \in Ids /\ q.row \in Rows
    \/ q.at = "write" /\ q.id \in Ids /\ q.row \in Rows /\ q.rotation \in {"fifo", "fefo"}

ArticleSets ==
    /\ article \in [Ids -> {Article!Absent} \cup ArticleRows]
    /\ stock \subseteq Skus /\ ordered \subseteq Skus /\ outdated \subseteq Ids
    /\ \A c \in Actors : CallType(call[c])

LEMMA ArticleValues ==
    /\ Article!NoCall.at = "none" /\ Article!Absent \notin ArticleRows
    /\ \A row \in Rows : /\ row.sku \in Skus /\ row.expires \in BOOLEAN
                         /\ \A r \in {"fifo", "fefo"} : Article!Rotation(row, r) \in {"fifo", "fefo"}
<1>1. Article!NoCall.at = "none"
  BY DEF Article!NoCall
<1>2. Article!Absent \notin ArticleRows
  BY DEF Article!Absent, ArticleRows
<1>3. ASSUME NEW row \in Rows
      PROVE  /\ row.sku \in Skus /\ row.expires \in BOOLEAN /\ row.rotation \in {"", "fifo", "fefo"}
  BY RowsGiven
<1>. QED
  BY <1>1, <1>2, <1>3 DEF Article!Rotation

LEMMA CreatingType ==
    ASSUME NEW t \in Tenants, NEW todo \in Seq(Rows)
    PROVE  CallType(Article!Creating(t, todo))
BY DEF Article!Creating, CallType

(* One call goes on; of what is there at most one article is written.      *)
LEMMA ArticleSetsAfter ==
    ASSUME ArticleInv, ArticleSets, NEW c \in Actors, NEW q, CallType(q),
           call' = [call EXCEPT ![c] = q],
           article' \in [Ids -> {Article!Absent} \cup ArticleRows],
           stock' \subseteq Skus, ordered' \subseteq Skus, outdated' \subseteq Ids
    PROVE  ArticleSets'
<1>1. ASSUME NEW d \in Actors PROVE CallType(call'[d])
  BY DEF ArticleInv, ArticleTypes, ArticleSets
<1>. QED
  BY <1>1 DEF ArticleSets, CallType

LEMMA ArticleSetsKept ==
    ASSUME ArticleInv, ArticleSets, [Article!Next]_(Article!articleVars)
    PROVE  ArticleSets'
<1>0. /\ CallType(Article!NoCall) /\ article \in [Ids -> {Article!Absent} \cup ArticleRows]
      /\ stock \subseteq Skus /\ ordered \subseteq Skus /\ outdated \subseteq Ids
      /\ \A i \in Article!Present : i \in Ids /\ article[i] \in ArticleRows
  BY DEF CallType, ArticleSets, Article!Present
<1>1. ASSUME NEW c \in Actors, Article!CreateArticle(c) \/ Article!ImportArticlesFromJSON(c)
      PROVE  ArticleSets'
  <2>1. PICK t, todo : /\ t \in Tenants /\ todo \in Seq(Rows)
                       /\ call' = [call EXCEPT ![c] = Article!Creating(t, todo)]
    <3>1. CASE Article!CreateArticle(c)
      <4>1. PICK t \in Tenants, row \in Rows : call' = [call EXCEPT ![c] = Article!Creating(t, <<row>>)]
        BY <3>1 DEF Article!CreateArticle, Article!Begin
      <4>2. <<row>> \in Seq(Rows)
        BY <4>1
      <4>. QED
        BY <4>1, <4>2
    <3>2. CASE Article!ImportArticlesFromJSON(c)
      <4>1. PICK t \in Tenants, row1 \in Rows, row2 \in Rows :
              call' = [call EXCEPT ![c] =
                          Article!Creating(t, Article!Imported(row1) \o Article!Imported(row2))]
        BY <3>2 DEF Article!ImportArticlesFromJSON, Article!Begin
      <4>2. Article!Imported(row1) \in Seq(Rows) /\ Article!Imported(row2) \in Seq(Rows)
        BY <4>1 DEF Article!Imported
      <4>3. Article!Imported(row1) \o Article!Imported(row2) \in Seq(Rows)
        BY <4>2
      <4>. QED
        BY <4>1, <4>3
    <3>. QED
      BY <1>1, <3>1, <3>2
  <2>2. UNCHANGED <<article, stock, ordered, outdated>>
    BY <1>1 DEF Article!CreateArticle, Article!ImportArticlesFromJSON, Article!Rest
  <2>. QED
    BY <1>0, <2>1, <2>2, CreatingType, ArticleSetsAfter
<1>2. ASSUME NEW c \in Actors, Article!CheckSku(c) \/ Article!InsertArticle(c) PROVE ArticleSets'
  <2>1. PICK t, todo : t = call[c].tenant /\ todo = call[c].todo
    OBVIOUS
  <2>2. call[c].at \in {"check", "insert"}
    BY <1>2 DEF Article!CheckSku, Article!InsertArticle
  <2>3. t \in Tenants /\ todo \in Seq(Rows) /\ todo # <<>>
    BY <2>1, <2>2, ArticleValues DEF ArticleSets, CallType
  <2>4. Tail(todo) \in Seq(Rows) /\ Head(todo) \in Rows
    BY <2>3
  <2>5. PICK q : /\ q = Article!Creating(t, Tail(todo)) \/ q = [call[c] EXCEPT !.at = "insert"]
                 /\ call' = [call EXCEPT ![c] = q]
    BY <1>2, <2>1, Zenon DEF Article!CheckSku, Article!InsertArticle, Article!Goes
  <2>6. CallType([call[c] EXCEPT !.at = "insert"])
    <3>1. PICK u : u = [call[c] EXCEPT !.at = "insert"]
      OBVIOUS
    <3>2. "at" \in DOMAIN call[c]
      BY DEF ArticleInv, CallOK
    <3>3. u.at = "insert" /\ u.tenant = call[c].tenant /\ u.todo = call[c].todo
      BY <3>1, <3>2
    <3>. QED
      BY <2>1, <2>3, <3>1, <3>3 DEF CallType
  <2>7. CallType(q)
    BY <2>3, <2>4, <2>5, <2>6, CreatingType
  <2>8. CASE UNCHANGED <<article, stock, ordered, outdated>>
    BY <1>0, <2>5, <2>7, <2>8, ArticleSetsAfter
  <2>9. CASE ~UNCHANGED <<article, stock, ordered, outdated>>
    <3>1. PICK row : row = Head(todo)
      OBVIOUS
    <3>2. PICK new : new = [tenant |-> t, sku |-> row.sku, rotation |-> Article!Rotation(row, "fifo"),
                            expires |-> row.expires]
      OBVIOUS
    <3>3. Article!InsertArticle(c)
      BY <1>2, <2>9 DEF Article!CheckSku, Article!Rest
    <3>4. UNCHANGED <<stock, ordered>>
      BY <3>3 DEF Article!InsertArticle
    <3>5. PICK i \in Ids : article' = [article EXCEPT ![i] = new] /\ outdated' = outdated \ {i}
      BY <2>1, <2>9, <3>1, <3>2, <3>3, <3>4, Zenon DEF Article!InsertArticle
    <3>6. new \in ArticleRows
      BY <2>3, <2>4, <3>1, <3>2, ArticleValues DEF ArticleRows
    <3>. QED
      BY <1>0, <2>5, <2>7, <3>4, <3>5, <3>6, ArticleSetsAfter
  <2>. QED
    BY <2>8, <2>9
<1>3. ASSUME NEW c \in Actors, Article!UpdateArticle(c) PROVE ArticleSets'
  <2>1. PICK i \in Article!Present, row \in Rows :
          call' = [call EXCEPT ![c] = [at |-> "read", id |-> i, row |-> row]]
    BY <1>3 DEF Article!UpdateArticle, Article!Begin
  <2>2. CallType([at |-> "read", id |-> i, row |-> row])
    BY <1>0, <2>1 DEF CallType
  <2>3. UNCHANGED <<article, stock, ordered, outdated>>
    BY <1>3 DEF Article!UpdateArticle, Article!Rest
  <2>. QED
    BY <1>0, <2>1, <2>2, <2>3, ArticleSetsAfter
<1>4. ASSUME NEW c \in Actors, Article!ReadExisting(c) PROVE ArticleSets'
  <2>1. PICK i, row : i = call[c].id /\ row = call[c].row
    OBVIOUS
  <2>2. i \in Ids /\ row \in Rows
    BY <1>4, <2>1, ArticleValues DEF Article!ReadExisting, ArticleSets, CallType
  <2>3. PICK new : new = [at |-> "write", id |-> i, row |-> row, was |-> article[i],
                          rotation |-> Article!Rotation(row, article[i].rotation)]
    OBVIOUS
  <2>4. call' = [call EXCEPT ![c] = IF i \notin Article!Present THEN Article!NoCall ELSE new]
    BY <1>4, <2>1, <2>3, Zenon DEF Article!ReadExisting, Article!Goes, Article!Kept
  <2>5. i \in Article!Present => CallType(new)
    <3>. SUFFICES ASSUME i \in Article!Present PROVE CallType(new)
      OBVIOUS
    <3>1. article[i].rotation \in {"fifo", "fefo"}
      BY <1>0 DEF ArticleRows
    <3>2. Article!Rotation(row, article[i].rotation) \in {"fifo", "fefo"}
      BY <2>2, <3>1, ArticleValues
    <3>. QED
      BY <2>2, <2>3, <3>2 DEF CallType
  <2>6. UNCHANGED <<article, stock, ordered, outdated>>
    BY <1>4 DEF Article!ReadExisting, Article!Rest
  <2>. QED
    BY <1>0, <2>4, <2>5, <2>6, ArticleSetsAfter
<1>5. ASSUME NEW c \in Actors, Article!WriteArticle(c) PROVE ArticleSets'
  <2>1. PICK i, row, rotation : i = call[c].id /\ row = call[c].row /\ rotation = call[c].rotation
    OBVIOUS
  <2>2. i \in Ids /\ row \in Rows /\ rotation \in {"fifo", "fefo"}
    BY <1>5, <2>1, ArticleValues DEF Article!WriteArticle, ArticleSets, CallType
  <2>3. call' = [call EXCEPT ![c] = Article!NoCall] /\ UNCHANGED <<stock, ordered>>
    BY <1>5 DEF Article!WriteArticle, Article!Goes
  <2>4. CASE UNCHANGED <<article, outdated>>
    BY <1>0, <2>3, <2>4, ArticleSetsAfter
  <2>5. CASE ~UNCHANGED <<article, outdated>>
    <3>1. PICK new : new = [article[i] EXCEPT !.sku = row.sku, !.rotation = rotation,
                                              !.expires = row.expires]
      OBVIOUS
    <3>2. /\ i \in Article!Present /\ article' = [article EXCEPT ![i] = new]
          /\ outdated' = outdated \cup {i} \/ outdated' = outdated
      BY <1>5, <2>1, <2>5, <3>1, Zenon DEF Article!WriteArticle
    <3>3. new \in ArticleRows
      BY <1>0, <2>2, <3>1, <3>2, ArticleValues DEF ArticleRows
    <3>. QED
      BY <1>0, <2>2, <2>3, <3>2, <3>3, ArticleSetsAfter
  <2>. QED
    BY <2>4, <2>5
<1>6. ASSUME NEW c \in Actors, Article!DeleteArticle(c) PROVE ArticleSets'
  <2>1. PICK i \in Article!Present :
          /\ call' = [call EXCEPT ![c] = Article!NoCall]
          /\ article' = [article EXCEPT ![i] = Article!Absent]
          /\ stock' = stock \ {article[i].sku} /\ UNCHANGED <<ordered, outdated>>
    BY <1>6 DEF Article!DeleteArticle, Article!Begin, Article!Cascade
  <2>. QED
    BY <1>0, <2>1, ArticleSetsAfter
<1>7. ASSUME NEW i \in Ids, Article!AddStock(i) \/ Article!AddOrderItem(i) PROVE ArticleSets'
  <2>1. article[i].sku \in Skus
    BY <1>0, <1>7 DEF Article!AddStock, Article!AddOrderItem, ArticleRows
  <2>. QED
    BY <1>7, <2>1 DEF Article!AddStock, Article!AddOrderItem, ArticleSets, CallType
<1>8. CASE UNCHANGED Article!articleVars
  BY <1>8 DEF Article!articleVars, ArticleSets, CallType
<1>9. CASE Article!Next
  BY <1>1, <1>2, <1>3, <1>4, <1>5, <1>6, <1>7, <1>9 DEF Article!Next
<1>. QED
  BY <1>8, <1>9

LEMMA ArticleTypeCorrect == Article!Spec => []Article!TypeOK
<1>1. Article!Init => ArticleSets
  BY DEF Article!Init, ArticleSets, CallType
<1>2. ArticleSets => Article!TypeOK
  BY ArticleValues DEF ArticleSets, ArticleRows, CallType, Article!TypeOK
<1>. QED
  BY <1>1, <1>2, InitArticle, ArticleStep, ArticleSetsKept, PTL DEF Article!Spec

(* Password resets: how many there were, and when each was done.           *)
ResetsCounted ==
    /\ done <= MaxResets
    /\ \A l \in Ids : \A r \in resets[l] : r.number \in 1 .. done /\ r.since <= done
    /\ \A c \in Actors : reset[c].at = "reset" => reset[c].since <= done

LEMMA ResetsCountedStays ==
    ASSUME PasswordInv, ResetsCounted, [Password!Next]_(Password!resetVars)
    PROVE  ResetsCounted'
<1>0. /\ done \in Nat /\ reset \in [Actors -> Mailing \cup Resets \cup {Password!Idle}]
      /\ resets \in [Ids -> SUBSET [number : Nat, since : Nat]]
  BY DEF PasswordInv, PasswordTypes
<1>1. ASSUME NEW c \in Actors, NEW q, reset' = [reset EXCEPT ![c] = q],
             q.at = "reset" => q.since = done, UNCHANGED <<resets, done>>
      PROVE  ResetsCounted'
  BY <1>0, <1>1 DEF ResetsCounted
<1>2. ASSUME NEW c \in Actors, \/ Password!RequestPasswordReset(c) \/ Password!CommitRequest(c)
                               \/ Password!RequestRollsBack(c)
      PROVE  ResetsCounted'
  <2>1. PICK q : /\ reset' = [reset EXCEPT ![c] = q] /\ q.at # "reset" /\ UNCHANGED <<resets, done>>
    BY <1>2, PasswordRecords DEF Password!RequestPasswordReset, Password!CommitRequest,
       Password!RequestRollsBack, Password!Goes
  <2>. QED
    BY <1>1, <2>1
<1>3. ASSUME NEW c \in Actors, Password!ReadToken(c) PROVE ResetsCounted'
  <2>1. PICK l : /\ reset' = [reset EXCEPT ![c] = [at |-> "reset", link |-> l, since |-> done]]
                 /\ UNCHANGED <<resets, done>>
    BY <1>3 DEF Password!ReadToken, Password!Goes
  <2>. QED
    BY <1>1, <2>1
<1>4. ASSUME NEW c \in Actors, Password!ResetPassword(c) PROVE ResetsCounted'
  <2>1. PICK l, since : l = reset[c].link /\ since = reset[c].since
    OBVIOUS
  <2>2. l \in Ids /\ since \in Nat /\ since <= done
    BY <1>0, <1>4, <2>1, PasswordRecords DEF Password!ResetPassword, ResetsCounted, Mailing, Resets
  <2>3. PICK this : this = [number |-> done + 1, since |-> since]
    OBVIOUS
  <2>4. /\ done < MaxResets /\ done' = done + 1 /\ reset' = [reset EXCEPT ![c] = Password!Idle]
        /\ resets' = [resets EXCEPT ![l] = resets[l] \cup {this}]
    BY <1>4, <2>1, <2>3 DEF Password!ResetPassword, Password!Goes
  <2>5. this.number = done + 1 /\ this.since = since
    BY <2>3
  <2>6. done' <= MaxResets
    BY <1>0, <2>4, AreaBounds
  <2>7. ASSUME NEW k \in Ids, NEW r \in resets'[k] PROVE r.number \in 1 .. done' /\ r.since <= done'
    <3>1. r \in resets[k] \/ r = this
      BY <1>0, <2>2, <2>4
    <3>2. r \in resets[k] => /\ r.number \in 1 .. done /\ r.since <= done
                             /\ r.number \in Nat /\ r.since \in Nat
      BY <1>0 DEF ResetsCounted
    <3>. QED
      BY <1>0, <2>2, <2>4, <2>5, <3>1, <3>2
  <2>8. ASSUME NEW d \in Actors, reset'[d].at = "reset" PROVE reset'[d].since <= done'
    <3>1. reset'[d] = reset[d] /\ reset[d].at = "reset"
      BY <1>0, <2>4, <2>8, PasswordRecords
    <3>2. reset[d].since \in Nat /\ reset[d].since <= done
      BY <1>0, <3>1, PasswordRecords DEF ResetsCounted, Mailing, Resets
    <3>. QED
      BY <1>0, <2>4, <3>1, <3>2
  <2>. QED
    BY <2>6, <2>7, <2>8 DEF ResetsCounted
<1>5. ASSUME NEW l \in Ids, Password!Expire(l) PROVE ResetsCounted'
  BY <1>5 DEF Password!Expire, ResetsCounted
<1>6. CASE UNCHANGED Password!resetVars
  BY <1>6 DEF Password!resetVars, ResetsCounted
<1>7. CASE Password!Next
  BY <1>2, <1>3, <1>4, <1>5, <1>7 DEF Password!Next
<1>. QED
  BY <1>6, <1>7

LEMMA PasswordTypeCorrect == Password!Spec => []Password!TypeOK
<1>1. Password!Init => ResetsCounted
  BY AreaBounds, PasswordRecords DEF Password!Init, ResetsCounted
<1>2. PasswordInv /\ ResetsCounted => Password!TypeOK
  <2>. SUFFICES ASSUME PasswordInv, ResetsCounted PROVE Password!TypeOK
    OBVIOUS
  <2>1. \A l \in Ids : link[l] # Password!NoLink => link[l] \in LinkRecords
    BY DEF PasswordInv, PasswordTypes
  <2>2. mailed \subseteq Ids /\ done \in 0 .. MaxResets
    BY AreaBounds DEF PasswordInv, PasswordTypes, ResetsCounted
  <2>3. resets \in [Ids -> SUBSET [number : 1 .. MaxResets, since : 0 .. MaxResets]]
    <3>1. ASSUME NEW l \in Ids, NEW r \in resets[l]
          PROVE  r \in [number : 1 .. MaxResets, since : 0 .. MaxResets]
      <4>1. r \in [number : Nat, since : Nat] /\ r.number \in 1 .. done /\ r.since <= done
        BY DEF PasswordInv, PasswordTypes, ResetsCounted
      <4>2. r.number \in 1 .. MaxResets /\ r.since \in 0 .. MaxResets
        BY <2>2, <4>1, AreaBounds
      <4>. QED
        BY <4>1, <4>2
    <3>. QED
      BY <3>1 DEF PasswordInv, PasswordTypes
  <2>4. \A c \in Actors : reset[c].at \in {"none", "mail", "reset"}
    BY PasswordRecords DEF PasswordInv, PasswordTypes, Mailing, Resets
  <2>. QED
    BY <2>1, <2>2, <2>3, <2>4 DEF Password!TypeOK, LinkRecords
<1>. QED
  BY <1>1, <1>2, InitPassword, PasswordStep, ResetsCountedStays, PTL DEF Password!Spec

(* Signing up, the limiter, suggestions: their invariants say it.          *)
LEMMA SignupTypeCorrect == Tenant!Spec => []Tenant!TypeOK
<1>1. SignupInv => Tenant!TypeOK
  <2>. SUFFICES ASSUME SignupTypes PROVE Tenant!TypeOK
    BY DEF SignupInv
  <2>1. \A t \in Keys : token[t] # Tenant!NoToken => token[t] \in TokenRecords
    BY DEF SignupTypes
  <2>2. \A c \in Actors : signup[c].at \in {"none", "free", "store", "verify", "seed"}
    BY SignupRecords DEF SignupTypes, Signing, Storing
  <2>. QED
    BY <2>1, <2>2 DEF SignupTypes, TokenRecords, Tenant!TypeOK
<1>. QED
  BY <1>1, SignupInvariant, PTL

LEMMA LimiterTypeCorrect == Limiter!Spec => []Limiter!TypeOK
<1>1. LimiterInv => Limiter!TypeOK
  BY DEF LimiterInv
<1>. QED
  BY <1>1, LimiterInvariant, PTL

LEMMA SuggestionTypeCorrect == Pick!Spec => []Pick!TypeOK
<1>1. SuggestInv => Pick!TypeOK
  BY DEF SuggestInv, AnswerTypes, Pick!TypeOK
<1>. QED
  BY <1>1, InitSuggest, SuggestInvStep, PTL DEF Pick!Spec

(* In the specification TLC checks, what an area keeps is of its types,    *)
(* whichever is under way.                                                 *)
THEOREM AdministrationTypes == MCSpec => []AdministrationTypeOK
<1>1. MCSpec => [](area \in Areas)
  <2>1. MCInit => area \in Areas
    BY DEF MCInit
  <2>. DEFINE MCStep == Permissions \/ Registering \/ Categorizing \/ Stocking \/ SigningUp
                          \/ Resetting \/ Limiting \/ Suggesting
              all == <<area, vars, registers, categories, articles, signups, passwords,
                       limiter, suggesting>>
  <2>2. area \in Areas /\ [MCStep]_all => (area \in Areas)'
    BY Zenon DEF Permissions, Registering, Categorizing, Stocking, SigningUp, Resetting, Limiting,
       Suggesting
  <2>. QED
    BY <2>1, <2>2, PTL DEF MCSpec
<1>2. /\ area \in Areas /\ TypeOK /\ Register!TypeOK /\ Category!TypeOK /\ Article!TypeOK
      /\ Pick!TypeOK /\ Tenant!TypeOK /\ Password!TypeOK /\ Limiter!TypeOK
      => AdministrationTypeOK
  <2>1. area \in Areas =>
          area \in {"permissions", "registers", "categories", "articles",
                    "suggestions", "signup", "passwords", "limiter"}
    BY Zenon, AdministrationAssumption
  <2>. QED
    BY <2>1 DEF AdministrationTypeOK
<1>. QED
  BY <1>1, <1>2, MCSpecIsTheirs, PermissionsTypes, RegisterTypeCorrect, CategoryTypeCorrect,
     ArticleTypeCorrect, SuggestionTypeCorrect, SignupTypeCorrect, PasswordTypeCorrect,
     LimiterTypeCorrect, PTL

================================================================================

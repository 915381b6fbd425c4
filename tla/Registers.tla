------------------------------ MODULE Registers ------------------------------
(***************************************************************************)
(* The tables an administrator edits: locations, clients, types, reason    *)
(* codes, conversions, serials, lots and users.  A row is a key that no    *)
(* other may have (a code, a number, an email), a note that stands for its *)
(* other columns, and a flag.  The handlers are written alike: they read,  *)
(* decide and write in statements of their own, with no transaction.  What *)
(* each makes of it is a record, of its handlers and of its statements.    *)
(***************************************************************************)
EXTENDS FiniteSets, Sequences, Naturals

CONSTANTS Kinds,        \* of the kinds below, those that are checked
          Ids, Keys, Notes,
          Seeded,       \* the id of a row there from the start
          Editors,      \* requests that run at the same time
          MaxEdits      \* bound on the requests of a behaviour

VARIABLES kind, rows, edit, edits,
          gone,         \* the ids of rows that were deleted
          asked,        \* for each row the fields as last asked for
          overtaken     \* the rows written from a reading that was old

registerVars == <<kind, rows, edit, edits, gone, asked, overtaken>>

Fields == {"key", "note", "active"}
Values == [key : Keys, note : Notes, active : BOOLEAN]
Absent == [key |-> "none"]
NoEdit == [at |-> "none"]

(* looksUp: when the key is looked for first; takes: the fields an update  *)
(* accepts; merges: they go on the row that was read, which is written     *)
(* whole; resets: a flag that is left out becomes TRUE.                    *)
Handlers(looksUp, takes, merges, resets, imports) ==
    [looksUp |-> looksUp, takes |-> takes, merges |-> merges, resets |-> resets,
     imports |-> imports, creates |-> TRUE]

(* The description and the zone of a location arrive as JSON strings and   *)
(* are taken only as *string.                                              *)
Locations         == Handlers({"create"}, {"key", "active"}, TRUE, FALSE, "stops")
Clients           == Handlers({"create", "update"}, {"key", "note"}, FALSE, FALSE, "none")
LocationTypes     == Handlers({"create"}, Fields, FALSE, TRUE, "none")
PresentationTypes == Handlers({"create"}, Fields, FALSE, TRUE, "none")
ReasonCodes       == Handlers({"create", "update"}, Fields, FALSE, TRUE, "none")
Conversions       == Handlers({"create"}, {"note", "active"}, FALSE, TRUE, "none")
Serials           == Handlers({}, {"key", "note"}, TRUE, FALSE, "none")
Users             == Handlers({"create"}, Fields, FALSE, FALSE, "goes on")

(* The quantity of a new lot is a float64, of which the driver makes NULL; *)
(* the expiration date of an update arrives as a string.                   *)
Lots == [Handlers({}, {"key", "active"}, TRUE, FALSE, "none") EXCEPT !.creates = FALSE]

(* The columns an UPDATE sets, and whether deleting removes the row.       *)
Statements(writes, removes) == [writes |-> writes, removes |-> removes]

LocationStatements         == Statements(Fields, TRUE)
ClientStatements           == Statements({"key", "note"}, FALSE)
LocationTypeStatements     == Statements(Fields, TRUE)
PresentationTypeStatements == Statements(Fields, TRUE)
ReasonCodeStatements       == Statements(Fields, TRUE)
ConversionStatements       == Statements({"note", "active"}, TRUE)
SerialStatements           == Statements({"key", "note"}, TRUE)
LotStatements              == Statements(Fields, TRUE)
UserStatements             == Statements(Fields, TRUE)

Does(k) ==
    CASE k = "locations"          -> Locations
      [] k = "clients"            -> Clients
      [] k = "location types"     -> LocationTypes
      [] k = "presentation types" -> PresentationTypes
      [] k = "reason codes"       -> ReasonCodes
      [] k = "conversions"        -> Conversions
      [] k = "serials"            -> Serials
      [] k = "lots"               -> Lots
      [] k = "users"              -> Users

Table(k) ==
    CASE k = "locations"          -> LocationStatements
      [] k = "clients"            -> ClientStatements
      [] k = "location types"     -> LocationTypeStatements
      [] k = "presentation types" -> PresentationTypeStatements
      [] k = "reason codes"       -> ReasonCodeStatements
      [] k = "conversions"        -> ConversionStatements
      [] k = "serials"            -> SerialStatements
      [] k = "lots"               -> LotStatements
      [] k = "users"              -> UserStatements

Init ==
    \E k \in Keys, n \in Notes :
        LET row == [key |-> k, note |-> n, active |-> TRUE]
            all == [i \in Ids |-> IF i = Seeded THEN row ELSE Absent]
        IN  /\ kind \in Kinds /\ rows = all /\ asked = all
            /\ edit = [e \in Editors |-> NoEdit] /\ edits = 0
            /\ gone = {} /\ overtaken = {}

Present == {i \in Ids : rows[i] # Absent}

HeldByOthers(key, id) == \E i \in Present \ {id} : rows[i].key = key

\* Mutant of Taken.
(* Nothing but the handlers' own look keeps the keys apart.                *)
TakenByNone(key, id) == FALSE

(* The unique index refuses a key another row has, active or not.          *)
Taken(key, id) == HeldByOthers(key, id)

Begin(e, what) ==
    /\ edit[e] = NoEdit /\ edits < MaxEdits
    /\ edit' = [edit EXCEPT ![e] = what] /\ edits' = edits + 1

Goes(e, to) == edit' = [edit EXCEPT ![e] = to]

Rest == UNCHANGED <<kind, rows, gone, asked, overtaken>>

-----------------------------------------------------------------------------
(* Creating a row, and importing several: each is looked for by its key    *)
(* and then inserted.                                                      *)

Inserting(todo) == IF todo = <<>> THEN NoEdit
                   ELSE [at |-> IF "create" \in Does(kind).looksUp THEN "look" ELSE "insert",
                         todo |-> todo]

(* What is left of an import after a row that failed.                      *)
AfterFailure(todo) == IF Does(kind).imports = "stops" THEN <<>> ELSE Tail(todo)

Create(e) ==
    \E n \in 1..2, k1, k2 \in Keys :
        /\ n > 1 => Does(kind).imports # "none"
        /\ n = 1 => k1 = k2
        /\ Begin(e, Inserting(SubSeq(<<k1, k2>>, 1, n)))
        /\ Rest

LookUp(e) ==
    /\ edit[e].at = "look"
    /\ Goes(e, IF \E i \in Present : rows[i].key = Head(edit[e].todo)
               THEN Inserting(AfterFailure(edit[e].todo))
               ELSE [edit[e] EXCEPT !.at = "insert"])
    /\ UNCHANGED edits /\ Rest

Insert(e) ==
    /\ edit[e].at = "insert"
    /\ LET key == Head(edit[e].todo)
           row(n) == [key |-> key, note |-> n, active |-> TRUE]
       IN  \/ /\ Does(kind).creates /\ ~Taken(key, "none")
              /\ \E id \in Ids \ (Present \cup gone), n \in Notes :
                    /\ rows' = [rows EXCEPT ![id] = row(n)]
                    /\ asked' = [asked EXCEPT ![id] = row(n)]
              /\ Goes(e, Inserting(Tail(edit[e].todo)))
           \/ /\ Taken(key, "none") \/ ~Does(kind).creates
              /\ Goes(e, Inserting(AfterFailure(edit[e].todo)))
              /\ UNCHANGED <<rows, asked>>
    /\ UNCHANGED <<kind, edits, gone, overtaken>>

-----------------------------------------------------------------------------
(* Updating: the row is read, a new key may be looked for, and one UPDATE  *)
(* writes it or, the row being gone, nothing.                              *)

OneField == {[key |-> k] : k \in Keys} \cup {[note |-> n] : n \in Notes}
              \cup {[active |-> b] : b \in BOOLEAN}

(* A request names a field, or all of them but perhaps the flag.           *)
Given ==
    LET columns == Table(kind).writes
    IN  IF Does(kind).merges \/ kind = "users"
        THEN {give \in OneField : DOMAIN give \subseteq columns}
        ELSE {[f \in S |-> v[f]] : S \in {columns, columns \ {"active"}}, v \in Values}

\* Mutant of Merged.
(* A field left out is written with what a new row has.                    *)
MergedOrBlank(row, give, k) ==
    [f \in Fields |-> IF f \in DOMAIN give \cap Does(k).takes THEN give[f]
                      ELSE IF f = "active" THEN TRUE ELSE row[f]]

Merged(row, give, k) ==
    [f \in Fields |-> IF f \in DOMAIN give \cap Does(k).takes THEN give[f]
                      ELSE IF f = "active" /\ Does(k).resets THEN TRUE ELSE row[f]]

ReadRow(e) ==
    \E i \in Present, give \in Given :
        /\ Begin(e, [at |-> "write", id |-> i, give |-> give, read |-> rows[i]])
        /\ Rest

(* A key given anew and held by another row is refused before the UPDATE.  *)
KeyIsFree(u) ==
    "update" \in Does(kind).looksUp /\ u.give.key # u.read.key => ~HeldByOthers(u.give.key, u.id)

\* Mutant of Writes.
(* An upsert, as GORM's Save is: a row that is gone is inserted again.     *)
Saves(id) == TRUE

(* An UPDATE by id writes the row if there is one.                         *)
Writes(id) == id \in Present

WriteRow(e) ==
    /\ edit[e].at = "write"
    /\ LET u == edit[e]
           base == IF Does(kind).merges \/ u.id \notin Present THEN u.read ELSE rows[u.id]
           new == Merged(base, u.give, kind)
           wanted == [f \in Fields |-> IF f \in DOMAIN u.give THEN u.give[f]
                                       ELSE IF f = "active" /\ Does(kind).resets THEN TRUE
                                       ELSE asked[u.id][f]]
       IN  \/ /\ Writes(u.id) /\ KeyIsFree(u) /\ ~Taken(new.key, u.id)
              /\ rows' = [rows EXCEPT ![u.id] =
                            [f \in Fields |-> IF f \in Table(kind).writes THEN new[f] ELSE base[f]]]
              /\ asked' = [asked EXCEPT ![u.id] = wanted]
              /\ overtaken' = IF rows[u.id] # u.read THEN overtaken \cup {u.id} ELSE overtaken
           \/ UNCHANGED <<rows, asked, overtaken>>
    /\ Goes(e, NoEdit)
    /\ UNCHANGED <<kind, edits, gone>>

(* Deleting: a row others refer to is refused by its foreign keys, and a   *)
(* seeded reason code by the handler and by the statement.                 *)
Delete(e) ==
    \E i \in Present :
        /\ Begin(e, NoEdit)
        /\ ~(kind = "reason codes" /\ i = Seeded)
        /\ IF Table(kind).removes
           THEN rows' = [rows EXCEPT ![i] = Absent] /\ UNCHANGED asked
           ELSE /\ rows' = [rows EXCEPT ![i].active = FALSE]
                /\ asked' = [asked EXCEPT ![i].active = FALSE]
        /\ gone' = gone \cup {i}
        /\ UNCHANGED <<kind, overtaken>>

Next == \E e \in Editors : \/ Create(e) \/ LookUp(e) \/ Insert(e)
                           \/ ReadRow(e) \/ WriteRow(e) \/ Delete(e)

Spec == Init /\ [][Next]_registerVars

-----------------------------------------------------------------------------
(* Types of the variables.                                                 *)
TypeOK ==
    /\ kind \in Kinds /\ edits \in 0..MaxEdits
    /\ rows \in [Ids -> Values \cup {Absent}] /\ asked \in [Ids -> Values \cup {Absent}]
    /\ gone \subseteq Ids /\ overtaken \subseteq Ids
    /\ \A e \in Editors :
        \/ edit[e] = NoEdit
        \/ edit[e].at \in {"look", "insert"} /\ edit[e].todo \in UNION {[1..n -> Keys] : n \in 1..2}
        \/ edit[e].at = "write" /\ edit[e].id \in Ids /\ edit[e].read \in Values

(* The handlers look a key up and write it later, and some do not look:    *)
(* whatever overlaps, no two rows have the same key.                       *)
KeysUnique == \A i, j \in Present : i # j => rows[i].key # rows[j].key

(* An update that had read its row before the row was deleted does not     *)
(* bring it back, and none makes a deleted client active again.            *)
NothingComesBack ==
    [][\A i \in gone : IF Table(kind).removes THEN rows'[i] = Absent
                      ELSE ~rows'[i].active]_registerVars

(* UpdateLocation, UpdateSerial and UpdateLot write back what they read,   *)
(* the others only what they were given: a row is as it was last asked to  *)
(* be, in every field an update takes, unless one of the merging updates   *)
(* wrote from a reading that another had made old.                         *)
FieldsAreAsAsked ==
    \A i \in Present \ overtaken, f \in Does(kind).takes : rows[i][f] = asked[i][f]
==============================================================================

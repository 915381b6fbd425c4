------------------------------- MODULE Articles -------------------------------
(***************************************************************************)
(* The articles of the tenants, what refers to them by their sku, and the  *)
(* imports of several.  A sku is looked for in one statement and inserted  *)
(* in another; an update reads the article and writes all of it; what has  *)
(* stock is deleted with its stock.                                        *)
(***************************************************************************)
EXTENDS Naturals, Sequences

CONSTANTS Tenants, Ids, Skus,
          Example,      \* the sku of the example in the import's template
          Lower,        \* each sku in lower case
          Rows,         \* what a request gives: sku, rotation, expires
          Callers,
          MaxCalls      \* bound on the requests of a behaviour

VARIABLES article, stock, ordered, call, calls,
          named,        \* the rotation last asked for by its name
          overtaken     \* the articles written from a reading that was old

articleVars == <<article, stock, ordered, call, calls, named, overtaken>>

Absent == [sku |-> "none"]
NoCall == [at |-> "none"]

Init ==
    /\ article = [i \in Ids |-> Absent] /\ stock = {} /\ ordered = {}
    /\ call = [c \in Callers |-> NoCall] /\ calls = 0
    /\ named = [i \in Ids |-> "none"] /\ overtaken = {}

Present == {i \in Ids : article[i] # Absent}
OfTenant(t) == {i \in Present : article[i].tenant = t}

ArticleExistsBySkuForTenant(sku, t) == \E i \in OfTenant(t) : article[i].sku = sku

\* Mutant of SkuTaken.
(* The index is of the tenant's skus.                                      *)
SkuTakenInTenant(sku, t, id) == \E i \in OfTenant(t) \ {id} : article[i].sku = sku

(* The indexes: of a tenant's skus, and of all, which others refer to.     *)
SkuTaken(sku, t, id) == \E i \in Present \ {id} : article[i].sku = sku

Begin(c, what) ==
    /\ call[c] = NoCall /\ calls < MaxCalls
    /\ call' = [call EXCEPT ![c] = what] /\ calls' = calls + 1

Goes(c, to) == call' = [call EXCEPT ![c] = to] /\ UNCHANGED calls

Rest == UNCHANGED <<article, stock, ordered, named, overtaken>>

(* The rotation of a row that names none, or none that is known.           *)
Rotation(row, otherwise) == IF row.rotation = "" THEN otherwise ELSE row.rotation

(* "FEFO requires expiration tracking", of what the request says.          *)
validateRotationStrategy(row) == row.rotation = "fefo" => row.expires

-----------------------------------------------------------------------------
(* Creating an article, and importing several, each after the other.       *)

Creating(t, todo) ==
    IF todo = <<>> THEN NoCall ELSE [at |-> "check", tenant |-> t, todo |-> todo]

CreateArticle(c) ==
    \E t \in Tenants, row \in Rows :
        /\ validateRotationStrategy(row)
        /\ Begin(c, Creating(t, <<row>>)) /\ Rest

(* The example is skipped, and no row's rotation is validated.             *)
Imported(row) == IF row.sku = Example THEN <<>> ELSE <<row>>

ImportArticlesFromJSON(c) ==
    \E t \in Tenants, row1, row2 \in Rows :
        /\ Begin(c, Creating(t, Imported(row1) \o Imported(row2)))
        /\ Rest

CheckSku(c) ==
    /\ call[c].at = "check"
    /\ LET t == call[c].tenant
       IN  Goes(c, IF ArticleExistsBySkuForTenant(Head(call[c].todo).sku, t)
                   THEN Creating(t, Tail(call[c].todo))
                   ELSE [call[c] EXCEPT !.at = "insert"])
    /\ Rest

(* The articles that updates are about: an id is never made again.         *)
Meant == {call[d].id : d \in {e \in Callers : call[e].at \in {"read", "write"}}}

InsertArticle(c) ==
    /\ call[c].at = "insert"
    /\ LET row == Head(call[c].todo)
           t == call[c].tenant
       IN  IF SkuTaken(row.sku, t, "none") THEN UNCHANGED <<article, named, overtaken>>
           ELSE \E i \in Ids \ (Present \cup Meant) :
               /\ article' = [article EXCEPT ![i] =
                     [tenant |-> t, sku |-> row.sku, rotation |-> Rotation(row, "fifo"),
                      expires |-> row.expires]]
               /\ named' = [named EXCEPT ![i] = Rotation(row, "fifo")]
               /\ overtaken' = overtaken \ {i}
    /\ Goes(c, Creating(call[c].tenant, Tail(call[c].todo)))
    /\ UNCHANGED <<stock, ordered>>

-----------------------------------------------------------------------------
(* UpdateArticle validates the request against an article that is there;   *)
(* the repository reads it again, and writes every column.                 *)

UpdateArticle(c) ==
    \E i \in Present, row \in Rows :
        /\ validateRotationStrategy(row)
        /\ Begin(c, [at |-> "read", id |-> i, row |-> row]) /\ Rest

\* Mutant of Kept.
(* What a new article has.                                                 *)
KeptFifo(i) == "fifo"

(* The rotation of an update that names none.                              *)
Kept(i) == article[i].rotation

ReadExisting(c) ==
    /\ call[c].at = "read"
    /\ LET i == call[c].id
       IN  Goes(c, IF i \notin Present THEN NoCall
                   ELSE [at |-> "write", id |-> i, row |-> call[c].row, was |-> article[i],
                         rotation |-> Rotation(call[c].row, Kept(i))])
    /\ Rest

(* A row of stock, or of an order, refers to the sku.                      *)
Referred(sku) == sku \in stock \cup ordered

(* The indexes refuse a sku that is taken, and the foreign keys a new sku  *)
(* for an article that is referred to.                                     *)
WriteArticle(c) ==
    /\ call[c].at = "write"
    /\ LET u == call[c]
           i == u.id
       IN  IF /\ i \in Present /\ ~SkuTaken(u.row.sku, u.was.tenant, i)
              /\ u.row.sku # article[i].sku => ~Referred(article[i].sku)
           THEN /\ article' = [article EXCEPT ![i] =
                     [@ EXCEPT !.sku = u.row.sku, !.rotation = u.rotation, !.expires = u.row.expires]]
                /\ named' = [named EXCEPT ![i] = Rotation(u.row, @)]
                /\ overtaken' = IF article[i] # u.was THEN overtaken \cup {i} ELSE overtaken
           ELSE UNCHANGED <<article, named, overtaken>>
    /\ Goes(c, NoCall)
    /\ UNCHANGED <<stock, ordered>>

-----------------------------------------------------------------------------
\* Mutant of Cascade.
(* The rows of stock stay.                                                 *)
NoCascade(sku) == stock

(* ON DELETE CASCADE.                                                      *)
Cascade(sku) == stock \ {sku}

(* What is on an order is not deleted.                                     *)
DeleteArticle(c) ==
    \E i \in Present :
        /\ article[i].sku \notin ordered
        /\ Begin(c, NoCall)
        /\ article' = [article EXCEPT ![i] = Absent]
        /\ stock' = Cascade(article[i].sku)
        /\ named' = [named EXCEPT ![i] = "none"]
        /\ UNCHANGED <<ordered, overtaken>>

(* Stock is put down, and ordered, of an article that is there.            *)
AddStock(i) ==
    /\ i \in Present /\ stock' = stock \cup {article[i].sku}
    /\ UNCHANGED <<article, ordered, call, calls, named, overtaken>>

AddOrderItem(i) ==
    /\ i \in Present /\ ordered' = ordered \cup {article[i].sku}
    /\ UNCHANGED <<article, stock, call, calls, named, overtaken>>

Next == \/ \E c \in Callers :
            \/ CreateArticle(c) \/ ImportArticlesFromJSON(c) \/ CheckSku(c) \/ InsertArticle(c)
            \/ UpdateArticle(c) \/ ReadExisting(c) \/ WriteArticle(c) \/ DeleteArticle(c)
        \/ \E i \in Ids : AddStock(i) \/ AddOrderItem(i)

Spec == Init /\ [][Next]_articleVars

-----------------------------------------------------------------------------
(* The preview of an import.                                               *)

\* Mutant of SeenBefore.
(* The rows of one import are not compared.                                *)
SeenNever(rows, n) == FALSE

(* seenSKUs holds the skus of the rows before, in lower case.              *)
SeenBefore(rows, n) == \E k \in 1..(n - 1) : Lower[rows[k].sku] = Lower[rows[n].sku]

(* A row that is new may be told to be similar to others.                  *)
ValidateImportRows(t, rows) ==
    [n \in DOMAIN rows |->
        IF SeenBefore(rows, n) THEN "duplicate"
        ELSE IF ArticleExistsBySkuForTenant(rows[n].sku, t) THEN "exists" ELSE "new"]

(* The rows of which an import makes articles, if nothing else happens.    *)
Imports(t, rows) ==
    {n \in DOMAIN rows :
        /\ rows[n].sku # Example /\ ~SkuTaken(rows[n].sku, t, "none")
        /\ \A k \in 1..(n - 1) : rows[k].sku # rows[n].sku}

-----------------------------------------------------------------------------
(* Types of the variables.                                                 *)
TypeOK ==
    /\ article \in [Ids -> {Absent} \cup [tenant : Tenants, sku : Skus,
                                            rotation : {"fifo", "fefo"}, expires : BOOLEAN]]
    /\ stock \subseteq Skus /\ ordered \subseteq Skus /\ overtaken \subseteq Ids
    /\ \A c \in Callers : call[c].at \in {"none", "check", "insert", "read", "write"}

(* Two requests may find a sku free and both insert it, an article may be  *)
(* renamed or deleted while it is being stocked or ordered: what is in     *)
(* stock or on an order is of exactly one article, of whichever tenant.    *)
ReferencesResolve ==
    \A sku \in stock \cup ordered :
        \E i \in Present : article[i].sku = sku /\ \A j \in Present \ {i} : article[j].sku # sku

(* An update that names no rotation keeps the article's: an article is     *)
(* rotated as it was last asked for by name, unless one wrote what it had  *)
(* read before another's change.                                           *)
RotationIsAsAsked == \A i \in Present \ overtaken : article[i].rotation = named[i]

(* ValidateImportRows tells of each row what the import then does: it      *)
(* makes the new ones and no others, but for the example, for what is      *)
(* another tenant's, and for rows whose skus differ in their case.         *)
PreviewIsKept ==
    \A t \in Tenants : \A row1, row2 \in Rows :
        LET rows == <<row1, row2>>
            says == ValidateImportRows(t, rows)
        IN  \A n \in 1..2 :
              \/ n \in Imports(t, rows) <=> says[n] = "new"
              \/ rows[n].sku = Example
              \/ says[n] = "new" /\ \E i \in Present \ OfTenant(t) : article[i].sku = rows[n].sku
              \/ says[n] = "duplicate" /\ row1.sku # row2.sku
================================================================================

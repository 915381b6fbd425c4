------------------------------ MODULE Categories ------------------------------
(***************************************************************************)
(* The tree of article categories.  A request that gives a category its    *)
(* parent reads the parent, then lists the tenant's categories to look for *)
(* a cycle, then writes: three statements, with others between them.       *)
(* Categories are made inactive and never removed.  A list holds the first *)
(* ListLimit by their names, which every write may change: any of them.    *)
(***************************************************************************)
EXTENDS Naturals, FiniteSets

CONSTANTS Cats, Editors,
          ListLimit      \* 200 in the query

VARIABLES parent, inactive, edit,
          late,      \* put below a parent that had been moved since it was read
          stale,     \* written after the tree that was listed had changed
          cut,       \* of the late, those written after a list that was not of all
          nested     \* put below a parent while they had children

categoryVars == <<parent, inactive, edit, late, stale, cut, nested>>

Root == "root"
Missing == "missing"
NoEdit == [at |-> "none"]

Exists(c) == parent[c] # Missing
HasChildren(c) == \E d \in Cats : parent[d] = c

Init ==
    /\ parent = [c \in Cats |-> Missing] /\ inactive = {}
    /\ edit = [e \in Editors |-> NoEdit]
    /\ late = {} /\ stale = {} /\ cut = {} /\ nested = {}

\* Mutant of MayBeParent.
(* Any category may have children.                                         *)
AnyMayBeParent(p) == Exists(p)

(* "Enforce 2-level max": a parent is there and has no parent.             *)
MayBeParent(p) == parent[p] = Root

All == {c \in Cats : Exists(c)}

\* Mutant of ListByTenant.
(* The list ends one row early.                                            *)
OneShort == {L \in SUBSET All : Cardinality(L) = (IF Cardinality(All) <= ListLimit
                                                  THEN Cardinality(All) - 1 ELSE ListLimit)}

ListByTenant == {L \in SUBSET All : Cardinality(L) = (IF Cardinality(All) <= ListLimit
                                                      THEN Cardinality(All) ELSE ListLimit)}

\* Mutant of WouldCreateCycle.
(* The check of the parent is enough.                                      *)
NeverACycle(c, p, L) == FALSE

(* c is p or one of the categories above it, however far the walk goes in  *)
(* the list.                                                               *)
WouldCreateCycle(c, p, L) ==
    \A S \in SUBSET Cats :
        p \in S /\ (\A d \in S \cap L : parent[d] \in Cats => parent[d] \in S) => c \in S

Goes(e, to) == edit' = [edit EXCEPT ![e] = to]

Rest == UNCHANGED <<parent, inactive, late, stale, cut, nested>>

(* A new category is looked for below the parent it is to have; an update  *)
(* that names a parent refuses the category itself.                        *)
ReadParent(e) ==
    /\ edit[e] = NoEdit
    /\ \E c, p \in Cats :
        /\ c # p /\ MayBeParent(p)
        /\ Goes(e, [at |-> IF Exists(c) THEN "list" ELSE "write", cat |-> c, under |-> p,
                    was |-> parent[p], old |-> FALSE, cut |-> FALSE])
    /\ Rest

(* An update without a parent makes the category a root.                   *)
WithoutParent(e) ==
    /\ edit[e] = NoEdit
    /\ \E c \in Cats : Goes(e, [at |-> "write", cat |-> c, under |-> Root,
                                  was |-> Root, old |-> FALSE, cut |-> FALSE])
    /\ Rest

ListAll(e) ==
    /\ edit[e].at = "list"
    /\ \E L \in ListByTenant :
        Goes(e, IF WouldCreateCycle(edit[e].cat, edit[e].under, L) THEN NoEdit
                ELSE [edit[e] EXCEPT !.at = "write", !.cut = L # All])
    /\ Rest

(* The edits that have listed a tree that changes now.                     *)
Outdated(e) ==
    [f \in Editors |-> IF f = e THEN NoEdit
                       ELSE IF edit[f].at = "write" THEN [edit[f] EXCEPT !.old = TRUE]
                       ELSE edit[f]]

(* Two creations are of two categories: an id is made by the database.     *)
MadeBy(e, c) == \A f \in Editors \ {e} : edit[f].at # "none" => edit[f].cat # c

If(condition, c) == IF condition THEN {c} ELSE {}

(* The row is inserted, or updated.  A sibling may have its name, and then *)
(* the index refuses it.                                                   *)
Write(e) ==
    /\ edit[e].at = "write"
    /\ LET c == edit[e].cat
           p == edit[e].under
           isLate == p # Root /\ parent[p] # edit[e].was
       IN  \/ /\ Exists(c) \/ MadeBy(e, c)
              /\ parent' = [parent EXCEPT ![c] = p]
              /\ edit' = Outdated(e)
              /\ late' = (late \ {c}) \cup If(isLate, c)
              /\ stale' = (stale \ {c}) \cup If(edit[e].old, c)
              /\ cut' = (cut \ {c}) \cup If(isLate /\ edit[e].cut, c)
              /\ nested' = (nested \ {c}) \cup If(p # Root /\ HasChildren(c), c)
           \/ Goes(e, NoEdit) /\ UNCHANGED <<parent, late, stale, cut, nested>>
    /\ UNCHANGED inactive

SoftDelete(c) ==
    /\ Exists(c) /\ inactive' = inactive \cup {c}
    /\ UNCHANGED <<parent, edit, late, stale, cut, nested>>

Next == \/ \E e \in Editors : ReadParent(e) \/ WithoutParent(e) \/ ListAll(e) \/ Write(e)
        \/ \E c \in Cats : SoftDelete(c)

Spec == Init /\ [][Next]_categoryVars

-----------------------------------------------------------------------------
(* Types of the variables.                                                 *)
TypeOK ==
    /\ parent \in [Cats -> Cats \cup {Root, Missing}]
    /\ inactive \subseteq Cats /\ late \subseteq Cats /\ stale \subseteq Cats /\ cut \subseteq Cats
    /\ nested \subseteq Cats
    /\ edit \in [Editors -> {NoEdit} \cup [at : {"list", "write"}, cat : Cats,
                                           under : Cats \cup {Root}, was : {Root},
                                           old : BOOLEAN, cut : BOOLEAN]]

(* GetTree puts the listed children of each listed root below it, active   *)
(* or not, and leaves out what is deeper.                                  *)
GetTree(L) ==
    LET roots == {c \in L : parent[c] = Root}
    IN  roots \cup {c \in L : parent[c] \in roots}

(* The parent is checked, the list is checked, and both may be old by the  *)
(* time of the write: categories are above one another only if one of them *)
(* was moved after the tree it was checked against had changed, or below a *)
(* parent that had been moved when the list was not of all.                *)
NoCycle ==
    \A S \in (SUBSET Cats) \ {{}} :
        (\A c \in S : parent[c] \in S) => S \cap (stale \cup cut) # {}

(* Of the categories listed GetTree shows every one whose parent is listed *)
(* too, but those below a parent that stopped being a root: while they     *)
(* were being put there, or when it was moved with them below it.  When no *)
(* more than ListLimit are there, every category is listed.                *)
TreeIsWhole ==
    \A L \in ListByTenant :
        /\ \A c \in L : \/ c \in GetTree(L) \/ parent[c] \notin L \cup {Root}
                        \/ c \in late \/ parent[c] \in nested
        /\ Cardinality(All) <= ListLimit => L = All
===============================================================================

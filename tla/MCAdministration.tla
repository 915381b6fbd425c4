--------------------------- MODULE MCAdministration ---------------------------
(***************************************************************************)
(* What tenants and their administrators do, for TLC: the permissions, the *)
(* registers, the categories, the articles, from where to pick them,       *)
(* signing up, resetting a password, and the limiter before it.  None of   *)
(* them writes what another reads, and a behaviour is of one of them.      *)
(***************************************************************************)
EXTENDS PermissionsCache, Integers, Sequences, FiniteSets, TLC

CONSTANTS Areas,             \* of the areas below, those that are checked
          Actors,            \* requests and callers
          Ids, seed,         \* of rows, categories, articles and links
          ListLimit,         \* of the categories
          Keys, Notes,       \* of rows; the keys are the signup tokens, too
          Tenants, Slugs,    \* the tenants are the emails, too
          Skus, Example, Lower, Rows,
          Kinds, MaxEdits, MaxCalls, MaxResets, Burst, PerToken, Second, IdleTicks, Window,
          Positions, Sites, LocationOf, Stocks, Wanted, Forever

(* Names of what is absent name nothing else; the kinds are those of the   *)
(* module Registers.                                                       *)
ASSUME AdministrationAssumption ==
    /\ "none" \notin Ids \cup {seed} /\ {"root", "missing"} \cap Ids = {}
    /\ "nobody" \notin Keys \cup Slugs /\ "another tenant" \notin Slugs
    /\ Kinds \subseteq {"locations", "clients", "location types", "presentation types",
                        "reason codes", "conversions", "serials", "lots", "users"}
    /\ Burst \in Nat \ {0} /\ PerToken \in Nat \ {0}
    /\ Second \in Nat \ {0} /\ IdleTicks \in Nat \ {0} /\ Window \in Nat
    /\ Areas \subseteq {"permissions", "registers", "categories", "articles",
                        "suggestions", "signup", "passwords", "limiter"}
    /\ Rows \subseteq [sku : Skus, rotation : {"", "fifo", "fefo"}, expires : BOOLEAN]
    /\ MaxEdits \in Nat /\ MaxResets \in Nat
    /\ IsFiniteSet(Ids) /\ ListLimit \in Nat

ASSUME SuggestionsAssumption ==
    /\ Positions \subseteq Nat /\ IsFiniteSet(Positions)
    /\ LocationOf \in [Positions -> Sites]
    /\ Stocks \subseteq [quantity : Nat, reserved : Nat,
                         lots : Seq([quantity : Nat, expires : 0 .. Forever, archived : BOOLEAN])]
    /\ Wanted \subseteq Int /\ Forever \in Nat

VARIABLES area,
          kind, rows, edit, edits, gone, asked, overtaken,
          parent, inactive, move, late, stale, cut, nested,
          article, stock, ordered, call, calls, named, outdated,
          token, tenants, users, signup, demo,
          link, mailed, resets, done, reset,
          level, seen, phase, passed, promises,
          inventory, answer

registers  == <<kind, rows, edit, edits, gone, asked, overtaken>>
categories == <<parent, inactive, move, late, stale, cut, nested>>
articles   == <<article, stock, ordered, call, calls, named, outdated>>
signups    == <<token, tenants, users, signup, demo>>
passwords  == <<link, mailed, resets, done, reset>>
limiter    == <<level, seen, phase, passed, promises>>
suggesting == <<inventory, answer>>

Symmetry == Permutations(Actors) \cup Permutations(Ids) \cup Permutations(Keys)
              \cup Permutations(Tenants)

Lot(n, expires) == [quantity |-> n, expires |-> expires, archived |-> FALSE]
Archived == [quantity |-> 1, expires |-> 1, archived |-> TRUE]
Lots == {<<>>, <<Lot(1, 1)>>, <<Lot(1, 1), Lot(2, 2)>>, <<Lot(1, 1), Archived>>,
         <<Lot(1, 2)>>}

MCStocks == [quantity : {2}, reserved : {0, 1}, lots : Lots]

(* The first two rows of three are in one place; the lots of the other     *)
(* stay what they are.                                                     *)
MCLocationOf == [p \in Positions |-> IF p <= 2 THEN "here" ELSE "there"]
Settled == [quantity |-> 2, reserved |-> 0, lots |-> <<Lot(1, 2)>>]
OthersSettled == \A l \in Positions : LocationOf[l] # "here" => inventory'[l].lots = inventory[l].lots
MCWanted == {-1, 0, 1, 3}

Row(sku, rotation, expires) == [sku |-> sku, rotation |-> rotation, expires |-> expires]
MCRows == {Row("a", "", FALSE), Row("A", "fefo", TRUE), Row("ART-001", "fifo", FALSE)}
MCLower == [s \in Skus |-> IF s = "A" THEN "a" ELSE s]

Register == INSTANCE Registers WITH Ids <- Ids \cup {seed}, Seeded <- seed, Editors <- Actors
Category == INSTANCE Categories WITH Cats <- Ids, Editors <- Actors, edit <- move
Article == INSTANCE Articles WITH Callers <- Actors, overtaken <- outdated
Tenant == INSTANCE Signup WITH
    Tokens <- Keys, Emails <- Tenants, Callers <- Actors, req <- signup
Password == INSTANCE PasswordReset WITH Links <- Ids, Callers <- Actors, req <- reset
Limiter == INSTANCE RateLimiter
Pick == INSTANCE PickSuggestions WITH Rows <- Positions, Locations <- Sites, Never <- Forever

MCInit ==
    /\ area \in Areas
    /\ Init /\ Register!Init /\ Category!Init /\ Article!Init /\ Tenant!Init /\ Password!Init
    /\ Limiter!Init /\ Pick!Init
    /\ \A l \in Positions :
           area # "suggestions" \/ LocationOf[l] # "here" => inventory[l] = Settled
    /\ area # "registers" => kind = "users" /\ rows[seed].note = "a"

(* The data of two tenants are seeded apart: one of them asks for some.    *)
OneSeeds == \A c \in Actors : signup'[c].at \in {"free", "store"} /\ signup'[c].seeds =>
                signup'[c].slug = "one"

(* Nothing looks at whether a category is inactive: one is deleted last.   *)
NoneIsDeleted == inactive = {}

Permissions == area = "permissions" /\ Next
    /\ UNCHANGED <<area, registers, categories, articles, signups, passwords, limiter, suggesting>>
Registering == area = "registers" /\ Register!Next
    /\ UNCHANGED <<area, vars, categories, articles, signups, passwords, limiter, suggesting>>
Categorizing == area = "categories" /\ Category!Next /\ NoneIsDeleted
    /\ UNCHANGED <<area, vars, registers, articles, signups, passwords, limiter, suggesting>>
Stocking == area = "articles" /\ Article!Next
    /\ UNCHANGED <<area, vars, registers, categories, signups, passwords, limiter, suggesting>>
SigningUp == area = "signup" /\ Tenant!Next /\ OneSeeds
    /\ UNCHANGED <<area, vars, registers, categories, articles, passwords, limiter, suggesting>>
Resetting == area = "passwords" /\ Password!Next
    /\ UNCHANGED <<area, vars, registers, categories, articles, signups, limiter, suggesting>>
Limiting == area = "limiter" /\ Limiter!Next
    /\ UNCHANGED <<area, vars, registers, categories, articles, signups, passwords, suggesting>>
Suggesting == area = "suggestions" /\ Pick!Next /\ OthersSettled
    /\ UNCHANGED <<area, vars, registers, categories, articles, signups, passwords, limiter>>

MCSpec ==
    MCInit /\ [][Permissions \/ Registering \/ Categorizing \/ Stocking \/ SigningUp
                   \/ Resetting \/ Limiting \/ Suggesting]_<<area, vars, registers, categories, articles,
                                              signups, passwords, limiter, suggesting>>

(* Types of the variables of every area; those of an area at rest have     *)
(* their initial values.                                                   *)
AdministrationTypeOK ==
    CASE area = "permissions" -> TypeOK
      [] area = "registers"   -> Register!TypeOK
      [] area = "categories"  -> Category!TypeOK
      [] area = "articles"    -> Article!TypeOK
      [] area = "suggestions" -> Pick!TypeOK
      [] area = "signup"      -> Tenant!TypeOK
      [] area = "passwords"   -> Password!TypeOK
      [] area = "limiter"     -> Limiter!TypeOK

(* Registers: whatever overlaps, no two rows have the same key, and a row  *)
(* is as it was last asked to be.                                          *)
RegistersAreAsAsked == Register!KeysUnique /\ Register!FieldsAreAsAsked

(* Registers: no update brings back what was deleted (its NothingComesBack,*)
(* over the variables of this module).                                     *)
NothingComesBack ==
    [][\A i \in gone : IF Register!Table(kind).removes THEN rows'[i] = Register!Absent
                      ELSE ~rows'[i].active]_registers

(* CategoriesService: no category is above itself, but by moves that       *)
(* overlapped, and GetTree shows every listed category, but for those      *)
(* below one that is not listed or stopped being a root.                   *)
TreeIsWhole == Category!NoCycle /\ Category!TreeIsWhole

(* ArticlesRepositorySQLC: what is in stock or ordered is of one article;  *)
(* the import does what ValidateImportRows told, and UpdateArticle keeps a *)
(* rotation it is not told to change.                                      *)
ArticlesAreAsTold ==
    Article!ReferencesResolve /\ Article!PreviewIsKept /\ Article!RotationIsAsAsked

(* GetPickSuggestionsBySKU: what is suggested can be reserved, is all that *)
(* is asked for or all there is, and first expired is first out, over the  *)
(* locations.                                                              *)
SuggestsWhatThereIs ==
    Pick!CanBeReserved /\ Pick!FindsWhatThereIs /\ Pick!EarliestFirst

(* InitiateSignup: two pending requests for one email or slug overlapped;  *)
(* VerifySignup: a tenant has the administrator its token named;           *)
(* SeedFarma: and all of the demonstration data or none.                   *)
TenantIsWhole == Tenant!PendingOnce /\ Tenant!TenantHasItsAdmin /\ Tenant!DemoIsWhole

(* ResetPassword: a link works twice only in resets that overlapped;       *)
(* RequestPasswordReset: a new link ends the older ones.                   *)
LinksAreSpent == Password!LinkWorksOnce /\ Password!OldLinksDie

(* IPRateLimiter: a refused request passes when it was told it would, and  *)
(* the cleaner gives no more than a full bucket in twice his time.         *)
LimiterIsHonest == Limiter!RetryAfterIsHonest /\ Limiter!WindowBounded

(* "5 per hour per IP" (signup_routes.go:25).                              *)
HourlyLimit == Limiter!HourlyLimit
================================================================================

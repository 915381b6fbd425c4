-------------------------------- MODULE Signup --------------------------------
(***************************************************************************)
(* How a tenant comes to be.  InitiateSignup checks that the email and the *)
(* slug are free and that no request is pending for either, and stores a   *)
(* token; VerifySignup reads the token, and one transaction makes the      *)
(* tenant and its administrator and spends the token.  Then a goroutine    *)
(* seeds the demonstration data, if they were asked for.                   *)
(***************************************************************************)
EXTENDS Naturals, Sequences

CONSTANTS Tokens, Emails, Slugs, Callers

VARIABLES token, tenants, users, req, demo

signupVars == <<token, tenants, users, req, demo>>

NoToken == [state |-> "none"]
Nobody == "nobody"
Idle == [at |-> "none"]

(* What is seeded, in the order of the transaction, and what each part     *)
(* takes the ids or codes of.                                              *)
seedLocations          == [table |-> "locations", needs |-> {}]
seedCategories         == [table |-> "categories", needs |-> {}]
seedSuppliers          == [table |-> "suppliers", needs |-> {}]
seedCustomers          == [table |-> "customers", needs |-> {}]
seedArticles           == [table |-> "articles", needs |-> {"categories", "locations"}]
seedInventory          == [table |-> "inventory", needs |-> {"articles", "locations"}]
seedReceivingTasks     == [table |-> "receiving tasks", needs |-> {"articles", "locations", "suppliers"}]
seedPickingTasks       == [table |-> "picking tasks", needs |-> {"articles", "locations", "customers"}]
seedInventoryMovements == [table |-> "movements", needs |-> {"articles", "locations"}]

SeedSteps == <<seedLocations, seedCategories, seedSuppliers, seedCustomers, seedArticles,
               seedInventory, seedReceivingTasks, seedPickingTasks, seedInventoryMovements>>

AllSeeded == {SeedSteps[i].table : i \in DOMAIN SeedSteps}

Init ==
    /\ token = [t \in Tokens |-> NoToken]
    /\ tenants = [s \in Slugs |-> Nobody]
    /\ users = [m \in Emails |-> Nobody]
    /\ req = [c \in Callers |-> Idle]
    /\ demo = [s \in Slugs |-> {}]

Goes(c, to) == req' = [req EXCEPT ![c] = to]

-----------------------------------------------------------------------------
Live == {t \in Tokens : token[t].state = "live"}

\* Mutant of PendingFor.
(* Only the email is looked for.                                           *)
PendingForEmail(email, slug) == {t \in Live : token[t].email = email}

(* A live token, unused and not expired, for the email or the slug.        *)
PendingFor(email, slug) == {t \in Live : token[t].email = email \/ token[t].slug = slug}

(* No user has the email and no tenant the slug.                           *)
CheckFree(c) ==
    /\ req[c] = Idle
    /\ \E m \in Emails, s \in Slugs, seeds \in BOOLEAN :
        /\ users[m] = Nobody /\ tenants[s] = Nobody
        /\ Goes(c, [at |-> "free", email |-> m, slug |-> s, seeds |-> seeds])
    /\ UNCHANGED <<token, tenants, users, demo>>

CheckPending(c) ==
    /\ req[c].at = "free"
    /\ Goes(c, IF PendingFor(req[c].email, req[c].slug) = {}
               THEN [at |-> "store", email |-> req[c].email, slug |-> req[c].slug,
                     seeds |-> req[c].seeds, knew |-> Live] ELSE Idle)
    /\ UNCHANGED <<token, tenants, users, demo>>

(* No constraint keeps two tokens for one email apart.                     *)
StoreToken(c) ==
    /\ req[c].at = "store"
    /\ \E t \in Tokens :
        /\ token[t] = NoToken
        /\ token' = [token EXCEPT ![t] = [state |-> "live", email |-> req[c].email,
                        slug |-> req[c].slug, seeds |-> req[c].seeds, knew |-> req[c].knew]]
    /\ Goes(c, Idle)
    /\ UNCHANGED <<tenants, users, demo>>

Expire(t) ==
    /\ t \in Live
    /\ token' = [token EXCEPT ![t].state = "expired"]
    /\ UNCHANGED <<tenants, users, req, demo>>

-----------------------------------------------------------------------------
ReadToken(c) ==
    /\ req[c] = Idle
    /\ \E t \in Live : Goes(c, [at |-> "verify", token |-> t])
    /\ UNCHANGED <<token, tenants, users, demo>>

\* Mutant of RollsBack.
(* The tenant stays although its administrator could not be made.          *)
TenantStays(t) == tenants[token[t].slug] # Nobody

(* The unique indexes on the slug and on the email fail the transaction.   *)
RollsBack(t) == tenants[token[t].slug] # Nobody \/ users[token[t].email] # Nobody

(* The token is marked by its id, whatever has become of it since.         *)
CompleteSignup(c) ==
    /\ req[c].at = "verify"
    /\ LET t == req[c].token
           s == token[t].slug
       IN  \/ /\ ~RollsBack(t)
              /\ tenants' = [tenants EXCEPT ![s] = t]
              /\ users' = [users EXCEPT ![token[t].email] = IF @ = Nobody THEN s ELSE @]
              /\ token' = [token EXCEPT ![t].state = "used"]
              /\ Goes(c, IF token[t].seeds
                         THEN [at |-> "seed", slug |-> s, tx |-> "none", done |-> 0] ELSE Idle)
           \/ Goes(c, Idle) /\ UNCHANGED <<token, tenants, users>>
    /\ UNCHANGED demo

(* An administrator of another tenant creates a user with the email.       *)
CreateUser(m) ==
    /\ users[m] = Nobody /\ users' = [users EXCEPT ![m] = "another tenant"]
    /\ UNCHANGED <<token, tenants, req, demo>>

-----------------------------------------------------------------------------
(* SeedFarma looks whether the tenant has its record, outside the          *)
(* transaction.                                                            *)
BeginSeed(c) ==
    /\ req[c].at = "seed" /\ req[c].tx = "none"
    /\ Goes(c, IF demo[req[c].slug] = {} THEN [req[c] EXCEPT !.tx = "open"] ELSE Idle)
    /\ UNCHANGED <<token, tenants, users, demo>>

\* Mutant of Written.
(* Each part is committed by itself.                                       *)
WrittenAtOnce(slug, n) == [demo EXCEPT ![slug] = {SeedSteps[i].table : i \in 1..n}]

(* Nothing is seen of the transaction before its record of all is written. *)
Written(slug, n) == [demo EXCEPT ![slug] = IF n = Len(SeedSteps) THEN AllSeeded ELSE @]

SeedStep(c) ==
    /\ req[c].at = "seed" /\ req[c].tx = "open"
    /\ LET n == req[c].done + 1
       IN  /\ SeedSteps[n].needs \subseteq {SeedSteps[i].table : i \in 1..req[c].done}
           /\ demo' = Written(req[c].slug, n)
           /\ Goes(c, IF n = Len(SeedSteps) THEN Idle ELSE [req[c] EXCEPT !.done = n])
    /\ UNCHANGED <<token, tenants, users>>

(* The pod stops, or the seeding fails or takes five minutes: the          *)
(* transaction is rolled back, and nobody tries again.                     *)
GoesDown(c) ==
    /\ req[c] # Idle /\ Goes(c, Idle)
    /\ UNCHANGED <<token, tenants, users, demo>>

Next ==
    \/ \E c \in Callers : \/ CheckFree(c) \/ CheckPending(c) \/ StoreToken(c)
                          \/ ReadToken(c) \/ CompleteSignup(c)
                          \/ BeginSeed(c) \/ SeedStep(c) \/ GoesDown(c)
    \/ \E t \in Tokens : Expire(t)
    \/ \E m \in Emails : CreateUser(m)

Spec == Init /\ [][Next]_signupVars

-----------------------------------------------------------------------------
(* Types of the variables.                                                 *)
TypeOK ==
    /\ \A t \in Tokens : token[t] = NoToken \/
        /\ token[t].state \in {"live", "used", "expired"} /\ token[t].email \in Emails
        /\ token[t].slug \in Slugs /\ token[t].knew \subseteq Tokens
    /\ tenants \in [Slugs -> Tokens \cup {Nobody}]
    /\ users \in [Emails -> Slugs \cup {Nobody, "another tenant"}]
    /\ demo \in [Slugs -> SUBSET AllSeeded]
    /\ \A c \in Callers : req[c].at \in {"none", "free", "store", "verify", "seed"}

(* VerifySignup reads its token outside the transaction, other tokens may  *)
(* be for the same email or slug, and a user may be made meanwhile: a      *)
(* tenant has the administrator its token named, and its token is spent.   *)
TenantHasItsAdmin ==
    \A s \in Slugs : tenants[s] # Nobody =>
        LET t == tenants[s]
        IN  token[t].slug = s /\ token[t].state = "used" /\ users[token[t].email] = s

(* InitiateSignup counts the pending requests and stores one more: two     *)
(* live tokens are for one email or slug only if neither was there when    *)
(* the other was looked for.                                               *)
PendingOnce ==
    \A t, u \in Live :
        t # u /\ (token[t].email = token[u].email \/ token[t].slug = token[u].slug)
            => u \notin token[t].knew

(* The seeding runs in the background, on a pod that may stop: a tenant    *)
(* has all of the demonstration data or none, and none that were not       *)
(* asked for.                                                              *)
DemoIsWhole ==
    \A s \in Slugs : demo[s] # {} => demo[s] = AllSeeded /\ tenants[s] # Nobody /\ token[tenants[s]].seeds
===============================================================================

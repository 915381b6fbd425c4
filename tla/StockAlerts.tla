------------------------------ MODULE StockAlerts ------------------------------
(***************************************************************************)
(* Stock alerts of one tenant: the analysis that replaces them, the users  *)
(* who resolve them, and the hourly dispatch of each pod that runs the     *)
(* analysis and tells the administrators.                                  *)
(*                                                                         *)
(* The requests that one pod serves share a repository, whose mutex lets   *)
(* one of them analyse at a time.  The dispatch and the administrator's    *)
(* trigger make one of their own: what keeps dispatches apart is an        *)
(* advisory lock, and nothing keeps them apart from requests, or those of  *)
(* two pods.  Transactions are READ COMMITTED; one that fails leaves no    *)
(* trace.  Consumption is what left in 30 days.                            *)
(***************************************************************************)
EXTENDS Integers, FiniteSets

CONSTANTS
    Pods,           \* each runs the dispatch once an hour
    Requesters,     \* who analyses and resolves over HTTP
    ServedBy,       \* the pod of each of them
    Items, Lots,    \* rows of inventory, and lots with an expiration date
    Levels,         \* [quantity, used]: what an item may have and have used
    TellLimit,      \* how many rows a dispatch reads, the newest
    MaxDisturbed    \* bound on changes, resolutions, listings and failures

Callers  == Pods \cup Requesters
Subjects == Items \cup Lots
Caches   == Pods \cup {"redis"}

VARIABLES
    stock,      \* of each item
    due, soon,  \* the lots within 90 days of their expiration, and within 8
    alerts,     \* the rows of stock_alerts
    redis,      \* whether there is a Redis: otherwise the caches are of the pods' requests
    cache,      \* whether each has an answer, and who was served from it
    at,         \* where each caller is
    tx,         \* what it holds that it has not written
    told,       \* what each pod's last dispatch told of
    watched,    \* what an analysis listed and has needed it ever since
    disturbed   \* how often, of MaxDisturbed

world == <<stock, due, soon>>
rows  == <<alerts, watched>>
vars  == <<world, rows, redis, cache, at, tx, told, disturbed>>

-----------------------------------------------------------------------------
(* analyzeInventoryItem.                                                   *)

(* The days the stock lasts, rounded down, are at most so many; stock      *)
(* nobody uses lasts for ever.                                             *)
LastsAtMost(days, quantity, used) ==
    IF used > 0 THEN 30 * quantity < (days + 1) * used ELSE quantity = 0

classifyAlertLevel(quantity, used) ==
    IF LastsAtMost(7, quantity, used) THEN "critical"
    ELSE IF LastsAtMost(14, quantity, used) THEN "high"
    ELSE IF quantity <= 5 THEN "critical"
    ELSE IF quantity <= 10 THEN "high" ELSE "none"

classifyAlertType(quantity) == IF quantity <= 10 THEN "low_stock" ELSE "predictive"

\* Mutant of calculateRecommendedStock.
(* What a week needs and is not there.                                     *)
RecommendedMissing(quantity, used, level) ==
    IF quantity <= 10 THEN 50 ELSE (used * 7) \div 30 - quantity

\* Mutant of calculateRecommendedStock.
RecommendedForAWeek(quantity, used, level) ==
    IF quantity <= 10 THEN 50 ELSE (used * 7) \div 30

calculateRecommendedStock(quantity, used, level) ==
    IF quantity <= 10 THEN 50
    ELSE IF used > 0 /\ level = "critical" THEN used
    ELSE IF used > 0 /\ level = "high" THEN (7 * used + 9) \div 10
    ELSE 3 * quantity

ItemNeeds(i) == classifyAlertLevel(stock[i].quantity, stock[i].used) # "none"
Needed == {i \in Items : ItemNeeds(i)} \cup due

(* Rows no transaction tells apart are one: foundBy has the callers whose  *)
(* statement found the row and who have yet to delete or save it.          *)
Alert(of, type, units, recommended) ==
    [of |-> of, type |-> type, stock |-> units, recommended |-> recommended,
     resolved |-> FALSE, foundBy |-> {}]

analyzeInventoryItem(i) ==
    LET units == stock[i].quantity
        level == classifyAlertLevel(units, stock[i].used)
    IN  Alert(i, classifyAlertType(units), units,
              calculateRecommendedStock(units, stock[i].used, level))

buildLotExpirationAlerts == {Alert(lot, "lot_expiration", 0, 0) : lot \in due}

Listed == {a.of : a \in alerts}

-----------------------------------------------------------------------------
Nothing == [new |-> {}, saw |-> {}]
NoCache == [filled |-> FALSE, served |-> {}]

Init ==
    /\ stock \in [Items -> Levels] /\ due = {} /\ soon = {}
    /\ alerts = {} /\ watched = {}
    /\ redis \in BOOLEAN /\ cache = [m \in Caches |-> NoCache]
    /\ at = [c \in Callers |-> "idle"]
    /\ tx = [c \in Callers |-> Nothing]
    /\ told = [p \in Pods |-> {}]
    /\ disturbed = 0

Goes(c, place) == at' = [at EXCEPT ![c] = place]
Leave(c) == tx' = [tx EXCEPT ![c] = Nothing]
Disturb == disturbed < MaxDisturbed /\ disturbed' = disturbed + 1

Finds(c, some) ==
    {IF a \in some THEN [a EXCEPT !.foundBy = @ \cup {c}] ELSE a : a \in alerts}
FoundBy(c) == {a \in alerts : c \in a.foundBy}
Without(c, some) == {[a EXCEPT !.foundBy = @ \ {c}] : a \in some}

(* Where stock moves, an item that needs no alert any more is not watched. *)
Look ==
    /\ watched' = watched \cap Needed'
    /\ tx' = [c \in Callers |-> [tx[c] EXCEPT !.saw = @ \cap Needed']]

StockChanges(i, level) ==
    /\ level # stock[i]
    /\ stock' = [stock EXCEPT ![i] = level] /\ UNCHANGED <<due, soon>>
    /\ Look
    /\ Disturb
    /\ UNCHANGED <<alerts, redis, cache, at, told>>

LotChanges(lot) ==
    /\ \/ due' = due \cup {lot} /\ soon' \in {soon, soon \cup {lot}}
       \/ due' = due \ {lot} /\ soon' = soon \ {lot}
    /\ <<due, soon>>' # <<due, soon>> /\ UNCHANGED stock
    /\ Look
    /\ Disturb
    /\ UNCHANGED <<alerts, redis, cache, at, told>>

-----------------------------------------------------------------------------
(* Analyze.                                                                *)

(* The cache of a caller; a dispatch without a Redis has none.             *)
HasCache(c) == redis \/ c \in Requesters
CacheOf(c) == IF redis THEN "redis" ELSE ServedBy[c]
IsCached(c) == HasCache(c) /\ cache[CacheOf(c)].filled

Expire(m) ==
    /\ cache[m].filled
    /\ cache' = [cache EXCEPT ![m] = NoCache]
    /\ UNCHANGED <<world, rows, redis, at, tx, told, disturbed>>

Analyzing == {"begin", "delete", "read", "commit"}

(* A request that finds the mutex taken waits.                             *)
RequestAnalysis(c) ==
    /\ at[c] = "idle"
    /\ \A d \in Requesters : ServedBy[d] = ServedBy[c] => at[d] \notin Analyzing
    /\ Goes(c, "begin")
    /\ UNCHANGED <<world, rows, redis, cache, tx, told, disturbed>>

After(c) == IF c \in Pods THEN "lots" ELSE "idle"

ServeCached(c) ==
    /\ at[c] = "begin"
    /\ IsCached(c)
    /\ cache' = [cache EXCEPT ![CacheOf(c)].served = @ \cup {c}]
    /\ Goes(c, After(c))
    /\ UNCHANGED <<world, rows, redis, tx, told, disturbed>>

(* The DELETE finds the rows there are; those another transaction deletes  *)
(* it waits for, and what that one inserts it does not see.                *)
BeginAnalysis(c) ==
    /\ at[c] = "begin"
    /\ ~IsCached(c)
    /\ alerts' = Finds(c, alerts)
    /\ Goes(c, "delete")
    /\ UNCHANGED <<world, watched, redis, cache, tx, told, disturbed>>

Deleted(c) == IF at[c] \in {"read", "commit"} THEN FoundBy(c) ELSE {}
MustWait(c) == \E d \in Callers \ {c} : FoundBy(c) \cap Deleted(d) # {}

DeleteAlerts(c) ==
    /\ at[c] = "delete"
    /\ ~MustWait(c)
    /\ Goes(c, "read")
    /\ UNCHANGED <<world, rows, redis, cache, tx, told, disturbed>>

(* The inventory, its movements and the lots.                              *)
ReadInventory(c) ==
    /\ at[c] = "read"
    /\ tx' = [tx EXCEPT ![c].new = {analyzeInventoryItem(i) : i \in {x \in Items : ItemNeeds(x)}}
                                   \cup buildLotExpirationAlerts,
                        ![c].saw = Needed]
    /\ Goes(c, "commit")
    /\ UNCHANGED <<world, rows, redis, cache, told, disturbed>>

\* Mutant of Remaining.
NoneRemains(c) == {}

Remaining(c) == alerts \ FoundBy(c)

(* The answer is cached unless it is empty.                                *)
CommitAnalysis(c) ==
    /\ at[c] = "commit"
    /\ alerts' = Remaining(c) \cup tx[c].new
    /\ watched' = watched \cup tx[c].saw
    /\ cache' = IF HasCache(c) /\ tx[c].new # {}
                THEN [cache EXCEPT ![CacheOf(c)] = [filled |-> TRUE, served |-> {c}]] ELSE cache
    /\ Leave(c)
    /\ Goes(c, After(c))
    /\ UNCHANGED <<world, redis, told, disturbed>>

AnalysisFails(c) ==
    /\ at[c] \in Analyzing \ {"begin"}
    /\ Disturb
    /\ alerts' = Without(c, alerts)
    /\ Leave(c)
    /\ Goes(c, IF c \in Pods THEN "tell" ELSE "idle")
    /\ UNCHANGED <<world, watched, redis, cache, told>>

-----------------------------------------------------------------------------
(* LotExpiration adds to the alerts that are there.                        *)
generateLotExpirationAlerts == alerts' = alerts \cup buildLotExpirationAlerts

ListLots(c) ==
    /\ at[c] = "idle"
    /\ generateLotExpirationAlerts
    /\ Disturb
    /\ UNCHANGED <<world, watched, redis, cache, at, tx, told>>

(* ResolveAlert reads an alert, and saves the whole of it: into the table, *)
(* when it is not there any more.                                          *)
BeginResolve(c, a) ==
    /\ at[c] = "idle"
    /\ ~a.resolved
    /\ Disturb
    /\ alerts' = Finds(c, {a})
    /\ tx' = [tx EXCEPT ![c].new = {[a EXCEPT !.resolved = TRUE, !.foundBy = {}]}]
    /\ Goes(c, "resolve")
    /\ UNCHANGED <<world, watched, redis, cache, told>>

Saved(c) ==
    IF FoundBy(c) = {} THEN tx[c].new
    ELSE {[a EXCEPT !.resolved = TRUE] : a \in Without(c, FoundBy(c))}

ResolveAlert(c) ==
    /\ at[c] = "resolve"
    /\ ~MustWait(c)
    /\ alerts' = (alerts \ FoundBy(c)) \cup Saved(c)
    /\ Leave(c)
    /\ Goes(c, "idle")
    /\ UNCHANGED <<world, watched, redis, cache, told, disturbed>>

-----------------------------------------------------------------------------
(* CronDispatch.  An hour passes between two dispatches of a pod, a cached *)
(* answer lives a minute: it serves a pod once.                            *)
Locked == \E p \in Pods : at[p] \in Analyzing \cup {"lots"}

\* Mutant of RunStockAlertAnalysis.
(* A pod that does not get the lock does none of the jobs.                 *)
AnalysisOrNothing(p) == Goes(p, IF Locked THEN "idle" ELSE "begin")

RunStockAlertAnalysis(p) == Goes(p, IF Locked THEN "tell" ELSE "begin")

Dispatch(p) ==
    /\ at[p] = "idle"
    /\ p \notin cache["redis"].served
    /\ RunStockAlertAnalysis(p)
    /\ told' = [told EXCEPT ![p] = {}]
    /\ UNCHANGED <<world, rows, redis, cache, tx, disturbed>>

DispatchLots(p) ==
    /\ at[p] = "lots"
    /\ generateLotExpirationAlerts
    /\ Goes(p, "tell")
    /\ UNCHANGED <<world, watched, redis, cache, tx, told, disturbed>>

RunLotExpirationCheck == soon

OpenLowStock == {a.of : a \in {b \in alerts : b.type = "low_stock" /\ ~b.resolved}}

(* All their rows are within the limit: analyses that overlap leave an     *)
(* item a row each, and a caller's next one deletes its row.               *)
FewAreLow == Cardinality(OpenLowStock) * Cardinality(Callers) <= TellLimit

(* The newest rows up to the limit, of all open ones or of some.           *)
RunLowStockNotifications ==
    {some \in SUBSET OpenLowStock :
        /\ Cardinality(some) <= TellLimit
        /\ some = OpenLowStock \/ Cardinality(some) * Cardinality(Callers) >= TellLimit}

(* The two jobs only read.                                                 *)
Notify(p) ==
    /\ at[p] = "tell"
    /\ \E low \in RunLowStockNotifications :
           told' = [told EXCEPT ![p] = RunLotExpirationCheck \cup low]
    /\ Goes(p, "idle")
    /\ UNCHANGED <<world, rows, redis, cache, tx, disturbed>>

-----------------------------------------------------------------------------
Analyze(c) ==
    \/ ServeCached(c) \/ BeginAnalysis(c) \/ DeleteAlerts(c) \/ ReadInventory(c) \/ CommitAnalysis(c)

CronDispatch(p) == Dispatch(p) \/ Analyze(p) \/ DispatchLots(p) \/ Notify(p)

OverHTTP(c) ==
    \/ RequestAnalysis(c) \/ Analyze(c) \/ ListLots(c) \/ ResolveAlert(c)
    \/ \E a \in alerts : BeginResolve(c, a)

World ==
    \/ \E i \in Items, level \in Levels : StockChanges(i, level)
    \/ \E lot \in Lots : LotChanges(lot)

Next ==
    \/ World
    \/ \E m \in Caches : Expire(m)
    \/ \E c \in Callers : AnalysisFails(c)
    \/ \E p \in Pods : CronDispatch(p)
    \/ \E c \in Requesters : OverHTTP(c)

(* Tickers tick, servers and the database answer, entries expire.          *)
Fairness ==
    /\ \A m \in Caches : WF_vars(Expire(m))
    /\ \A p \in Pods : WF_vars(CronDispatch(p))
    /\ \A c \in Requesters : WF_vars(Analyze(c) \/ ResolveAlert(c))

Spec == Init /\ [][Next]_vars /\ Fairness

-----------------------------------------------------------------------------
Types == {"low_stock", "predictive", "lot_expiration"}
Rows == [of : Subjects, type : Types, stock : Nat, recommended : Nat,
         resolved : BOOLEAN, foundBy : SUBSET Callers]

TypeOK ==
    /\ stock \in [Items -> Levels] /\ soon \subseteq due /\ due \subseteq Lots
    /\ alerts \subseteq Rows /\ watched \subseteq Subjects
    /\ redis \in BOOLEAN
    /\ cache \in [Caches -> [filled : BOOLEAN, served : SUBSET Callers]]
    /\ at \in [Callers -> Analyzing \cup {"idle", "lots", "tell", "resolve"}]
    /\ told \in [Pods -> SUBSET Subjects]
    /\ \A c \in Callers : tx[c].new \subseteq Rows /\ tx[c].saw \subseteq Subjects

(* However analyses overlap, fail and delete each other's rows, and        *)
(* whatever is resolved meanwhile: what an analysis found low or about to  *)
(* expire stays listed for as long as it is.                               *)
WhatNeedsItIsListed == watched \subseteq Listed

(* An alert recommends more than there was when it was raised.             *)
RecommendsMore(a) == a.type # "lot_expiration" => a.recommended > a.stock
RecommendedAboveStock == \A a \in alerts : RecommendsMore(a)

(* Of an item that stays low, and of a lot that stays a week from its end, *)
(* every pod's dispatch sooner or later tells the administrators each time *)
(* it runs, although a pod skips the analysis while another has the lock,  *)
(* is served old answers, and analyses fail; as long as no more items are  *)
(* low than it reads the alerts of.                                        *)
IsLow(i) == ItemNeeds(i) /\ classifyAlertType(stock[i].quantity) = "low_stock"
LowAmongFew(i) == IsLow(i) /\ FewAreLow
AtRest(p) == at[p] = "idle"
WhatStaysLowIsTold ==
    \A p \in Pods :
        /\ \A i \in Items :
               <>[]LowAmongFew(i) => <>[](AtRest(p) => i \in told[p])
        /\ \A lot \in Lots : <>[](lot \in soon) => <>[](AtRest(p) => lot \in told[p])
=============================================================================

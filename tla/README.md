# eSTOCK in TLA+

Specifications of the eSTOCK backend, a warehouse inventory server written in Go
(Gin, GORM and sqlc over PostgreSQL): what the parts that move stock, take and
receive orders, raise alerts, bill, and administer tenants do, what TLC checks of
them on small instances, and what TLAPS proves of them for every value of the
constants.

Paths below are relative to `src/`. `PROJECT.json` has the machine-readable
side: the components, the runs, the lines each definition models, the hazards,
the findings and the theorems.

## Contents

1. [The system](#1-the-system)
2. [The modules and the code](#2-the-modules-and-the-code)
3. [The runs](#3-the-runs)
4. [What is proved](#4-what-is-proved)
5. [Disagreements between the code and what is said of it](#5-disagreements-between-the-code-and-what-is-said-of-it)
6. [What is not modelled](#6-what-is-not-modelled)
7. [The plan](#7-the-plan)
8. [Running it](#8-running-it)

## 1. The system

One Go process (`cmd/main.go`), possibly several pods of it, serves a REST API
and runs cron jobs. All lasting state is in PostgreSQL. Every endpoint is a
controller that calls a service that calls a repository; the repository methods
hold the logic and most of them are one transaction at PostgreSQL's default
isolation level, READ COMMITTED: a SELECT sees what is committed and locks
nothing unless it says FOR UPDATE, an UPDATE locks its rows until the
transaction ends and re-evaluates its WHERE and SET on the rows as they are when
it gets the lock.

### Components

| component | state it keeps | operations that change it | interacts with |
|---|---|---|---|
| Picking tasks (`repositories/picking_task_repository.go`) | `picking_tasks`: status, items with their allocations, picked quantities | create, import, start, update, complete a line, complete, (cron) abandon | reserves and ships inventory, appends movements; after completion calls orders, delivery notes and backorders |
| Inventory (`inventory_repository.go`) | `inventory`: quantity and reserved_qty per row (sku, location); `inventory_lots` | create, update, delete, import; add and delete a lot | written by picking, transfers, adjustments, receiving; suggests where to pick |
| Inventory movements | `inventory_movements`, append only | appended by every stock change but manual edits and deletions | read by reports and the alert analysis |
| Stock transfers (`services/stock_transfers_service.go`, `stock_transfers_repository_sqlc.go`) | header, lines, status | create, edit, delete, execute | takes from one inventory row and puts into another |
| Adjustments (`adjustments_repository.go`) | `adjustments`, append only | create: increase, decrease, count_reconcile | inventory, movements, lots, serials |
| Sales orders (`sales_orders_repository.go`) | order, items with expected and picked quantities, link to a picking task | create, update, delete, submit, cancel, record picked quantities | creates picking tasks; told by picking |
| Backorders (`backorders_repository.go`) | remaining quantity, status | create, fulfil, settle after picking | creates picking tasks; told by picking |
| Delivery notes (`delivery_notes_repository.go`) | note and items | create after picking | told by picking |
| Receiving tasks (`receiving_tasks_repository.go`) | task, items | create, import, update, complete a line, complete | adds inventory, lots, movements; writes purchase orders in the same transaction |
| Purchase orders (`purchase_orders_repository.go`) | order, items with received and rejected quantities | create, update, delete, submit, cancel | creates receiving tasks |
| Lots and serials (`lots_repository_sqlc.go`, `serials_repository_sqlc.go`) | lot quantities and expiry, serial status | CRUD; changed by receiving, adjustments | suggestions, alerts |
| Billing (`services/billing_service.go`, `billing_repository.go`, `controllers/billing_controller.go`) | `subscriptions`, `stripe_webhook_events`, the tenant's status | the webhook's five event types | Stripe; the trial check writes the same tenant row |
| Signup (`signup_repository.go`) | `signup_tokens`, `tenants`, the first user | initiate, verify | email; the demonstration seeder |
| Demonstration data (`tools/demo_seeder_farma.go`) | nine kinds of rows and a record that they are there | seed, in the background after a signup | |
| Authentication (`authentication_repository.go`) | `password_reset_tokens`, users' passwords | request and use a reset; log in | email |
| Rate limiter (`tools/rate_limit_middleware.go`) | a token bucket per address, in memory | take, clean up | the public endpoints and the alert analysis |
| Roles and permissions (`roles_repository_cache.go`) | `roles.permissions`; a cache per pod | update a role; look up | every request's authorisation |
| Scheduled jobs (`tools/cron.go`) | advisory locks | stale reservations, alert analysis, lot expiration, low stock, trial check | picking, alerts, notifications, tenants, email |
| Stock alerts (`stock_alerts_repository.go`) | alerts; the last answer, in Redis or in memory | analyse, list expiring lots, resolve | inventory, movements, lots |
| Notifications and email | `notifications`; SMTP | insert; send from goroutines | cron jobs |
| Articles (`articles_repository_sqlc.go`) | `articles` | create, update, delete, import, preview an import | referred to by SKU from stock, orders, lots |
| Categories (`services/categories_service.go`) | a tree, meant to have two levels | create, move, deactivate | articles |
| Clients, locations, location and presentation types, reason codes, conversions, users | a table each, with a unique key | create, update, delete; locations and users import | referred to by the rest |
| Presentations, settings, gamification, dashboards, audit log, HTTP wiring | rows by id, insert only, or none | | |

### How they interact

Everything meets in the inventory row. Picking changes it only by relative
conditional UPDATEs (`reserved_qty = reserved_qty + ?` where the stock suffices,
`GREATEST(0, reserved_qty - ?)`). Transfers lock the source row (FOR UPDATE) but
not the destination. Adjustments, and the destination of a transfer, are read
into a struct and saved whole. Manual edits are too.

A sales order and its picking tasks are tied by calls after the fact. Completing
a task commits the stock transaction and then, in the same request, runs a chain
of separate transactions: picked quantities onto the order, the delivery note,
backorders for what is missing, the backorder the task came from. Their errors
are dropped or printed. Nothing repairs a chain that stopped in the middle.

A purchase order and its receiving task are tied inside the transaction: a
completion adds the stock, writes the task, adds to the order's lines (clamped by
LEAST to what was ordered) and moves the order's status.

Stripe's webhook deliveries and the hourly trial check both write the tenant's
row. The alert analysis runs from requests, which share a mutex per pod and a cached
answer per pod or in Redis, and from the hourly dispatch of every pod, which have an
advisory lock between them. Pods share nothing but the database (and Redis, where there is
one): a permission updated on one pod stays cached on another until its entry
expires.

### What is hard here

* *Interleaving under READ COMMITTED.* Most handlers read a status without a
  lock, decide, and write by id. Stock is safe where the UPDATE itself decides;
  it is not where a row is read and saved.
* *Payloads nobody validates.* A task's items are stored as a raw map: an
  allocation, a picked or a received quantity may be negative, a line may say it was
  accepted or closed before anything came.
* *Several rows per request.* A task reserves several rows one UPDATE at a time,
  in the order its items have: other requests come in between, two tasks can
  deadlock, and a rollback has to undo a part.
* *Many ways out of a state.* Several code paths end a task that holds stock; each
  has to give it back once. A line can be received alone, with its whole task, and
  after the order it is for was cancelled.
* *Looking first, writing later.* Nine tables, the category tree, articles, signup
  and password resets look whether something is free, valid or unused in one
  statement and write in another.
* *Partial failure and crashes.* The chain after picking; an event claimed in one
  transaction and handled in the next two; emails that leave before the
  transaction that marks them commits; a completion that reports an error and
  commits what it did; demonstration data seeded in the background.
* *Delivery.* Stripe repeats, reorders and overlaps events.
* *Lists that end.* The categories read to check a move are the first 200 by name,
  the alerts told in an hour the 50 latest; what lies beyond is not looked at.
* *Time.* Reservations that go stale, trial days computed by truncating division,
  a deduplication window shorter than the day it guards, cache entries that
  outlive an update.

### What correctness means, per component

* **Picking and inventory.** reserved_qty is the sum of what tasks in progress
  allocate; it never exceeds the stock; movements account for the stock; a task
  ships once; ended tasks stay ended; forgotten reservations come back. Whatever is
  asked, a reservation grows only within the stock, unless the request names a
  negative quantity.
* **Transfers, adjustments, manual edits.** Movements still account for the stock;
  a transfer takes nothing that is reserved when it locks the row, a decrease nothing
  that was reserved when it read it. What is reserved between the read and the save
  of an adjustment is not looked at, and that is a finding.
* **Orders, delivery notes, backorders.** The order never records more than left
  the warehouse with whole tasks; notes list what they shipped; backorders owe exactly
  what the order has not got, and do not breed backorders.
* **Billing.** An event takes effect at most once; with events in order the
  tenant is active exactly if it pays.
* **Permissions.** No pod uses permissions replaced longer ago than the TTL and
  the delay of one request.
* **Trial.** Nobody is deactivated without being told, every reminder arrives,
  and none is repeated more than the overlap of the runs explains.
* **Receiving and purchase orders.** An order never shows more than was ordered,
  forgets what came only for lines a negative quantity was sent for, and its status
  tells what came; what came into stock is what the task's lines say; an order gets
  one task.
* **Stock alerts.** What is low or about to expire stays listed while it is, and
  the administrators are told of it in the end, as long as no more is low than one
  hour tells of.
* **Suggestions.** What is suggested of a location can be reserved there, expires
  first, and is all that was asked for or all that can be had of any one row of every
  location.
* **Master data.** Keys are unique, rows are as they were last asked to be, deleted
  ones stay deleted; no category is above itself and the tree shows those that are
  listed; stock and orders refer to one article; a preview tells what the import does.
* **Signup and tokens.** A tenant has its administrator, its demonstration data are
  whole; links and tokens are used twice only by requests that overlap.
* **Rate limiter.** In any window no more requests pass than a bucket, its refill and
  the full buckets the cleaner makes meanwhile allow, and who comes back when told to
  passes. That this is more than the routes say is a finding.

## 2. The modules and the code

```
StockSums          sums over finite sets of what each of them holds of a row
StockPromises      abstract: units promised to holders, delivered or withdrawn
PickingTasks       the picking handlers, one transaction = one action
                     implements StockPromises (KeepsPromises)
PickingRaces       the same transactions statement by statement, for quantities
                     that are not negative
                     implements PickingTasks' lifecycle (TasksSerialise)
StockMoves         the other writers of inventory rows, with picking's updates
PickSuggestions    from where to pick, as a function of stock and lots, composed
                     with the reservation of what was suggested
SalesOrders        order, tasks, chain after picking, notes, backorders
Receiving          purchase order, its receiving task and tasks made by hand
StockAlerts        analysis, resolution, and the jobs that tell administrators
TrialReminders     the trial check's emails, hour by hour
TenantBilling      Stripe, webhook deliveries, tenant, trial check
PermissionsCache   one role's permissions over several pods
Registers          nine tables an administrator edits, as one
Categories         the tree, and the list of it that is read
Articles           articles, what refers to them, their import and its preview
Signup             from a request to a tenant with demonstration data
PasswordReset      links and resets of one user
RateLimiter        the bucket of one address

MC<module>         model values, small definitions and symmetry for TLC
MCPickingEndpoints all that the picking endpoints accept, negative quantities too
MCJobs             TenantBilling, StockAlerts and TrialReminders in one model
MCAdministration   PermissionsCache, Registers, Categories, Articles,
                     PickSuggestions, Signup, PasswordReset, RateLimiter in one
<module>Proofs     theorems and their proofs; StockSumsProofs holds the lemmas
```

`MCJobs` and `MCAdministration` put components that share no table side by side: a
behaviour picks one of them at the start and is a behaviour of that one. They save
configurations, and claim nothing about the components together.

Operators preceded by a comment `Mutant of X` are deliberately wrong variants of
`X` (a dropped guard, a missing floor, a status forgotten). No specification uses
them. Substituted for `X` each makes one property fail, which shows that the
property depends on what the code does there.

### PickingTasks

| in the module | in the code |
|---|---|
| `quantity`, `reserved` | the two counters of an inventory row |
| `expired` | rows whose lot is past its expiration date, for `validateNoExpiredLots` (165-199) |
| `status`, `alloc`, `picked`, `done` | a task's status and, from its JSON items, allocations per row, picked quantities, completed lines |
| `legacy` | the rows named by the `location` of an item without allocations, which some handlers read and others do not |
| `shipped` | the outbound movements of the task, summed |
| `age` | how long `updated_at` lies back: fresh, touched, stale (seven days) |
| `CreatePickingTask`, `ImportPickingTaskFromExcel`, `StartPickingTask`, `CompletePickingLine`, `CompletePickingTask` | the repository methods of the same names |
| `UpdateStatus`, `UpdateItems`, `UpdateStatusAndItems`, `UpdateOtherFields` | `UpdatePickingTask` (602-729) by what the request body brings |
| `CancelSalesOrder` | `SalesOrdersRepository.Cancel` as it bears on the task |
| `RunStaleReservationsCleanup` | the cron job, `tools/cron.go:14-88` |
| `SevenDaysPass`, `LotExpires` | time |

Quantities are integers: the payload of an update is a raw map, and of a creation only
the sum of an item's allocations is validated. A line that allocates 0 and picks 0 does
nothing in any handler and is as good as none. Items of the old format name a
`location` and no allocations; a start, a line and a completion read it
(`parsePickingItemsWithLegacyFallback`), an update and the cleanup do not.

Two next-state relations. `Next` is everything the endpoints accept: any
status in the payload the transition table (45-65) admits, edits of tasks that
have ended, line completions whatever the status, negative quantities, legacy items.
`TaskNext`, the *documented lifecycle*, is create, start, edit before the end, cancel,
complete the whole task, of items with allocations, none of them negative and picks no
larger than they are. It leaves out bare status changes into `in_progress` and out of
it other than by cancelling, `CompletePickingLine`, edits of ended tasks, and the
cancellation of the order. Those properties that only the lifecycle has say so in
their comments; why they fail outside of it is in section 5.

`OversellBound` bounds how far a counter may fall below zero or rise above the row's
first stock: completing with more picked than there is subtracts without a check, with
a negative quantity it adds.

### PickingRaces

A client is a transaction in progress: the statements it still has to run, and
its uncommitted updates of inventory rows. `Begin…` is the unlocked read with
the checks made on it, `Statement` one UPDATE of an inventory row (which waits
for another transaction's lock and evaluates its condition on the row as it then
is), `Commit…` the UPDATE of the task and the COMMIT, `Rollback` any end without
one: failed guard, deadlock victim, lost connection. Items have allocations and no
negative quantity. While `exclusive`, chosen at
the start, transactions about *different* tasks interleave freely, the cleanup job
included, and two transactions about the same task are kept apart; otherwise any
requests race.

### StockMoves

One SKU. `rows` maps ids to inventory rows (nothing in the schema makes (sku,
location) unique, and a query for one row takes the smallest id), `transfer` the
headers and lines, `tx` each open request with what it read and wrote, `held`
what picking holds, `ledger` the sum of the movements. `ExecuteTransfer` is
`BeginTransfer`, `TakeFromSource` and `PutAtDestination` per line, and
`CommitTransfer`; `CreateAdjustment` is its read and its save (a count reads
twice, as the service and then the repository do); creation and update likewise.
An import is one request that creates row after row, each in a transaction of its
own (`ImportRow`, `CommitCreate`), and ends at the first that fails.
`Reserve`, `Release` and `Ship` are picking's relative UPDATEs, for allocations of
either sign: of what a task holds there (`inside`, with picks within allocations) or of
anything else, as a line completed before its task starts, a second release, a pick
beyond the allocation or a negative quantity do. `LeaveReserved` is a task that ends by
a bare status, or with its order, and leaves what it reserved.

The code does lose a location's account in five known ways, and the model names
them (`Spoils`): a row that changed since it was read is saved whole, a location gets a
second row, a count lowers the stock below what is reserved, an Excel file brings
a negative quantity, stock is edited or deleted by hand without a movement. When one
happens the location joins `spoilt`. Where picking leaves its lifecycle the location
joins `loose`. `MovementsExplainStock` speaks of the locations that are not spoilt,
`ReservedIsCovered` of those that are neither. A row that is reserved between an
adjustment's read and its save is one that changed: the save overwrites the
reservation, the location is spoilt, and `ReservedIsCovered` says nothing of it. What a
comment of the code promises of that case is `DecreasesLeaveReserved`, which
`moves_decreases` refutes.

### PickSuggestions

`inventory` is the rows of an article with their lots, several of which may be at one
location (`LocationOf`). `PickRows` is the query (LEFT
JOINs, condition and order; rows equal in the order may come in any), and
`allocatePickRows` the loop: a function of how many rows it has passed, `Take` being
one pass. What it has taken it counts by the location's name, so the rows of one
location share a count and each gives only what it has beyond it. The answer is the
quantity given of each row; a request without a quantity, with one that cannot be read
or with a negative one asks for all there is. `StartPickingTask` reserves what the answer
says, under the UPDATE's condition. `CreateInventoryLot` and `DeleteInventoryLot`
change lots by hand; an answer given before is then `outdated`, and only what
concerns the stock is still asked of it.

### Receiving

`order`, `ordered`, `received`, `rejected` are the purchase order, `task` the
receiving tasks, `inbound` the movements of each task's lines, `whole` the lines that
came with the whole task. What a client sends of a task's items is stored as it is sent
(`Sent`): a line may say beforehand how much of it was received, accepted or rejected,
and, where a task is edited, that it is closed. Of the quantities of a line to complete
the received one is not validated and may be negative; `lowered` remembers the lines for which
a negative quantity was counted. A completion reads
its task outside of its transaction (`Begin`), does its UPDATEs and locks what they
write (`CompleteReceivingLine`, `CompleteFullTask`) and commits (`Commit`), or is
rolled back. `FailFullTask` is the error path that commits what was booked until
then. `Updated`, `NewReceived`, `NewRejected`, `Verdict` and `Advanced` are
`updatePOFromReceivingItems`. Submission, cancellation and deletion of the order
read and write in two steps.

As in `StockMoves`, the ways a task loses its account are named (`Spoils`): items
that changed since they were read are overwritten, a completion reports an error
after it booked stock, a line of a deleted article counts as received, items are
edited by hand. `StockIsWhatLinesSay` speaks of the other tasks.

### StockAlerts

`Analyze` is the mutex of the pod (`ServedBy`), the cached answer, which is the pod's
or, where there is Redis, everyone's (`ServeCached`), the DELETE with the rows it finds
and waits for (`BeginAnalysis`, `DeleteAlerts`), the reads and the commit. Rows that
no transaction tells apart are one: `foundBy` says whose statement found them.
`Dispatch` … `Notify` is the hourly dispatch of a pod: the analysis if it gets the
lock, the lots, and then what it tells, the latest `TellLimit` alerts (50 in the code).
`watched` is a history variable: what an
analysis listed and has needed it ever since.

### SalesOrders

One order with its tasks, notes and backorders. `Begin…`/`Commit…` pairs are the
reads and writes of `Update`, `SoftDelete`, `Submit`, `Cancel` and `Fulfill`. The
chain after picking (`picking_task_repository.go:1099-1190`) is
`ReadPickedQty`, `UpdatePickedQty`, `CreateDeliveryNote`, `CreateBackorders`,
`ReadBackorder`, `UpdateFulfilledBackorder`, each an action; `StepFails` skips
one, `RequestLost` ends the request. How much stock the task finds is any
quantity up to the one asked for. Beside the chain, `UpdatePickingTask` writes a
task's lines anew, `CompletePickingLine` ships one without telling the order, the note
or the backorder (`byLine` counts what left so; when the whole task is completed later,
the line ships with it again, and that is told), and `MarkPickingTask` ends a task
by a bare status. `byHand` counts these for the bound `MaxByHand`. Quantities are not
negative, and a line of none is none. `edits` numbers the replacements of the items,
since `Update` deletes and inserts them under new ids.

### TenantBilling

`stripe` and `events` are Stripe's side, modelled from the events the handlers
read and marked external. A delivery claims the event id (`INSERT … ON CONFLICT
DO NOTHING`, its own transaction), writes the subscription, writes the tenant.
`WriteFails` is a logged error, answered with 200 like a success; `Crash` loses
what is in progress and keeps the claims. `ListTrials` and `ExpireTrial` are the
two statements of the trial check. Two unique indexes decide what the upsert
accepts (`RowAccepts`).

`orderly` is a history variable: true while nothing failed, events came in order
(repetitions allowed) and one subscription followed the other.

### PermissionsCache

A miss is `ReadPermissions` (mutex released) then `StoreEntry`; an update is
`WritePermissions`, which may report an error although it wrote, then
`InvalidateEntry`. `Tick` lets time pass while no request is delayed for more
than `MaxDelay`. `req` and `replacedAt` keep the times.

### TrialReminders

Hours since the trial began. A run of the check is one action: it holds an
advisory lock. `daysLeft` truncates, the deduplication looks back 23 hours in
the notifications, emails are sent whether or not the run commits
(`RunRollsBack`). `HourPasses` requires that some run committed in each hour of
the trial.

### Registers, Categories, Articles

A register's row is a key, a note for its other columns, and a flag. `Does` says
what the handlers of each table do (whether they look for the key, which fields
they take, whether they write back the row they read, whether a flag left out
becomes true) and `Table` what its statements do (the columns an UPDATE sets,
whether deleting removes). `LookUp` and `Insert`, `ReadRow` and `WriteRow` are
statements of their own. `overtaken` marks the rows written from a reading that had
become old.

`Categories` reads the parent, lists, writes. The list is of at most `ListLimit`
categories (200 in the code), the first by name: any so many, as names are not
modelled. `late`, `stale`, `nested` and `cut` mark the writes that what they checked
had been overtaken by, or was not all there is.

`Articles` has two unique indexes, of the tenant's SKUs and of all, and foreign keys
by SKU: from stock, which a deletion cascades to, and from order lines, which
restrict it. `ValidateImportRows` and `Imports` are the preview and the import as
functions of the tables.

### Signup, PasswordReset, RateLimiter

`Signup`: the two checks, the insertion of the token, the reading of the token
and the transaction that spends it are steps; `SeedStep` is one of the nine parts
of the seeder's transaction, `GoesDown` the end of the server. `PasswordReset`: the
UPDATE that invalidates, the email and the commit; the reading of a token and the
transaction that uses it. `found` and `since` are history. `RateLimiter` counts in
ticks; the bucket of `golang.org/x/time/rate` is external, `computeHeaders` and
`cleanupLoop` are the code's. `passed` counts the requests that passed in the last so
many ticks, for every number up to `Window`.

## 3. The runs

| run | specification and bounds | what it shows |
|---|---|---|
| `picking_lifecycle` | `FairTaskSpec`; 2 tasks, 2 rows with 2 and 1 units | `ReservationsBalanced`, `NeverOversold`, `ShipsOnce`; implements `StockPromises` (`KeepsPromises`); `ForgottenIsReleased` |
| `picking_endpoints` | `Next` (`MCPickingEndpoints`); 2 tasks, 1 row with 1 unit; quantities of 1 and oversell by 1, or of 1 and -1, negative in one task at a time, and counters within the row's first stock | `TypeOK`, `StockAccounted`, `TerminalIsFinal`, `ReservationGrowsWithinStock`, whatever is asked |
| `picking_order_cancel` | lifecycle and order cancellation | `CancelReleases` is violated (section 5) |
| `races` | 2 clients, 2 tasks; either requests about one task exclude each other and tasks take two rows in either order, or they race about one row | `RowsAddUp` (`TypeOK`, `NoLostUpdate`), `CommitsWithinStock`; in the first case `TasksSerialise`: the interleaved transactions commit what the handlers do one at a time, deadlocks and rollbacks included |
| `moves` | 2 clients, 2 locations, one transfer of one or two lines, two files, allocations of 1 and -1, 5 requests, one less where picking leaves its lifecycle | `TypeOK`, `MovementsExplainStock`, `ReservedIsCovered` |
| `moves_decreases` | the same with 3 requests | `DecreasesLeaveReserved` is violated (section 5) |
| `orders` | 2 clients, one task with its lines written or shipped by hand once; either 2 tasks, 1 SKU and failures anywhere, or one request at a time, 3 tasks, 2 SKUs and none | `TypeOK`, `NothingCountsTwice` (`RecordedWithinShipped`, `BackordersDoNotNest`); in the second case `SerialOrdersAddUp` (`DeliveryAgrees`, `OwedExactly`) |
| `orders_lost_fulfilment` | picking only; 2 clients, 3 tasks | `ReducesWhatIsLeft` is violated (section 5) |
| `receiving` | 2 clients, 2 tasks, 2 articles (one tracked), 2 and 1 units ordered; items sent with one line accepted beforehand and one closed, or with neither; lines completed with all, some refused, or -1 received; 1 edit | `TypeOK`, `WithinOrdered`, `AccountedNeverShrinks`, `StockIsWhatLinesSay`, `OrderFollowsReceipts` (`OneTask`, `StatusTellsWhatCame`) |
| `jobs` | webhook: 2 subscriptions, 2 deliveries, 4 events; alerts: 2 pods, 1 requester, 1 item, 1 lot, Redis or none, 3 alerts told, 2 disturbances; trial: 14 days, reminders at 7, 11 and 13 days left, 2 runs an hour, 1 run that does not commit | `TypeOK`, `AppliedAtMostOnce`, `AgreesWithStripe` of the webhook; `AlertsAreRight` (`WhatNeedsItIsListed`, `RecommendedAboveStock`), `AlertsReachAdministrators`; `TrialIsAnnounced` (`RemindersArrive`, `DeactivatedKnowingly`, `EmailsBounded`); the types of both, `JobsTypeOK` |
| `administration` | 2 requests at a time on: 2 pods with TTL 2 and delay 1; nine tables with 4 ids, 2 keys, 3 requests; 3 categories of which 2 are listed; 2 tenants, 3 articles, 3 SKUs, 3 requests; 3 rows with 2 units and up to 2 lots, two of them at one of 2 locations; 2 tokens, emails and slugs; 3 links and resets; a bucket of 2, a token every 5 ticks, a cleaner every 4, windows of up to 12 | `StalenessBounded`; `RegistersAreAsAsked` (`KeysUnique`, `FieldsAreAsAsked`), `NothingComesBack`; `TreeIsWhole` (`NoCycle`, `TreeIsWhole`); `ArticlesAreAsTold` (`ReferencesResolve`, `PreviewIsKept`, `RotationIsAsAsked`); `SuggestsWhatThereIs` (`CanBeReserved`, `FindsWhatThereIs`, `EarliestFirst`); `TenantIsWhole` (`PendingOnce`, `TenantHasItsAdmin`, `DemoIsWhole`); `LinksAreSpent` (`LinkWorksOnce`, `OldLinksDie`); `LimiterIsHonest` (`RetryAfterIsHonest`, `WindowBounded`); the types of all, `AdministrationTypeOK` |
| `limiter_hourly` | the limiter alone | `HourlyLimit` is violated (section 5) |

Where a row names a property with others in brackets, the run checks the conjunction:
the parts are defined in the component's module, the whole in the MC module, and each
part has a change to the code that breaks it (`mutants` in `PROJECT.json`).

Why the bounds are enough:

* *Picking.* Two tasks are what a reservation can be contested by, two rows what
  a task can hold in part, and unequal stock lets one row fit both tasks and the
  other only one. Properties of the lifecycle are proved without bounds
  (section 4). With one unit and an oversell bound of one, every handler of `Next`
  can act on a row that is empty, over-reserved or negative. With negative quantities,
  one task asks for them and the other meets what they did; that a counter then leaves
  the row's stock, or an ordinary task oversells it besides, is covered by the
  theorems alone.
* *Races.* Two transactions that lock two rows in opposite orders deadlock; a
  single row with requests for one and two units lets an UPDATE wait and find
  the stock gone. A third transaction would meet the same row lock.
* *Moves.* Two requests suffice for every read to be overtaken by a write; three
  ids for a second row at a location and a fresh one; two lines for a transfer
  to fail after its first line is done; two units so that one can be reserved and
  the other moved; a location comes to hold `MaxHeld` = 2 where picking is called twice.
  `MaxRequests` = 5 counts requests begun: create a transfer, two
  executions and two others that interfere. A call of picking outside of its lifecycle
  takes what is said of reservations off the location, so what is still asked there
  (`MovementsExplainStock`) is asked of 4. The files have a row that fails where
  there is stock, after one that does not, and a negative quantity.
* *Orders.* Two tasks are an order's task and the one that fulfils its backorder,
  two clients let either overlap any request. Three tasks, where
  requests come one at a time, let one backorder be fulfilled twice. `MaxEdits` = 1 is a
  replacement of the order's lines between a read and a write, `MaxByHand` = 1 the same
  of a task's lines, or one line shipped on its own; where requests race, one or the
  other.
* *Billing.* Four events are a checkout, a failure, a recovery and a cancellation,
  or two subscriptions in turn; two deliveries make an event overlap itself or
  another one. All three invariants are proved without bounds.
* *Permissions.* The clock reaches twice the time an entry and a delay last;
  `StalenessBounded` is proved without bounds.
* *Receiving.* Two units make a line that comes in parts, is refused in part, or
  comes twice; two lines let an order be partial, and two receipts overlap on
  different lines or the same one. The request with a negative quantity takes back a
  unit that came. The second task is the one of a second
  submission or one made by hand. `MaxInbound` = 2 lets a line come in once too
  often. To keep the model small, a task made by hand is alone, edits come while at
  most one request is under way, a task is renumbered and an article deleted while
  none is, and of two linked tasks none is started; section 6.
* *Alerts.* An item and a lot, since each is analysed by itself; two pods contend
  for the lock, the requester for the rows. Two disturbances are a change and a
  failure, or a resolution and a change. There are never more than `TellLimit` = 3 rows
  of an item in the model, as the property asks; a limit that is exceeded is the case in
  which it says nothing. The invariants are proved without bounds.
* *Administration.* Two requests overtake one another, the third is the one that
  finds what they left. Three categories are needed for a third level, two for a
  cycle, and a list of two leaves one of them out. Of three rows to pick from two share a
  location, whose lots change; requests are for -1, none, 1 and 3 of them. The cleaner
  comes twice in a window of the limiter that is longer than three of his rounds, so that
  he does give a full bucket back, and a bucket of 2 refills in 10 ticks, the hour of
  `HourlyLimit`. Three SKUs are one, the same in capitals, and the example of the template.
  The lots are fewer or more than the stock, empty, archived, or in both locations.
  Two tokens collide by email or slug; only one of the two tenants asks for
  demonstration data, since a seeding writes rows of its own tenant, and at most one
  category is made inactive, since nothing that is modelled looks at it.
* *Trial.* The real length and the real days; the clock runs a day past the end. Proved for any.

Symmetry is declared for clients, tasks, SKUs, pods and requests, which no
definition tells apart. `picking_lifecycle` and `jobs` have a liveness property and
declare none; of the actors of `jobs` only those of the alerts have a fair step, and
what they must do at last is asked only of the behaviours of the alerts.

Deadlock is not checked: the bounds end every model, and a system all of
whose tasks have ended may stop. A deadlock inside the database is a rollback of
one of the two, and is modelled as that.

### Fairness

`FairTaskSpec` assumes weak fairness of `RunStaleReservationsCleanup`.
`cmd/main.go:188-195` runs `CronDispatch` at start and then at every tick of an
hourly ticker for as long as the server lives, and the job takes every stale task
each time, so a stale task that nobody else ends is met by a run. No handler is
assumed to be called.

`StockAlerts` assumes weak fairness of each pod's dispatch, for the same reason, of
the steps of an analysis or a resolution that has begun (the server and the
database answer; nobody is assumed to begin one), and of the expiry of the cached
answer, which has a time to live of a minute. Failures are bounded by
`MaxDisturbed`, so the liveness is: once nothing disturbs any more.

`RemindersArrive` and the last part of `DeactivatedKnowingly` need a committed run
in every hour; there it is a guard of `HourPasses`, so that the properties are
safety properties.

## 4. What is proved

TLAPS checks every proof to its leaves. A theorem holds for every value of the
constants that satisfies the module's assumption: any number of clients, pods,
deliveries, rows, SKUs, locations, quantities and payloads, where a run has two or
three.

| module of the proofs | theorem | statement |
|---|---|---|
| `PickingTasksProofs` | `TypeCorrect`, `StockIsAccounted` | `Spec => []TypeOK`, `Spec => []StockAccounted` |
| | `TerminalStatusesAreFinal`, `ReservationsGrowWithinStock` | `Spec => TerminalIsFinal`, `Spec => ReservationGrowsWithinStock` |
| | `LifecycleInvariant` | `TaskSpec => []LifecycleInv` |
| | `ReservationsStayBalanced`, `RowsAreNeverOversold`, `TasksShipOnce` | the three invariants of `picking_lifecycle` |
| | `LifecycleKeepsPromises` | `TaskSpec => KeepsPromises` |
| `PickingRacesProofs` | `RacesInvariant`, `NoUpdateIsLost` | `Spec => []RacesInv`, `Spec => []RowsAddUp` |
| | `CommitsReserveStock` | `Spec => CommitsWithinStock` |
| | `TransactionsSerialise` | `Spec => TasksSerialise` |
| | `ReservationsStayRight` | `Spec => [](exclusive => \A r : reserved[r] = SumOver(InProgress, Allocations, r) /\ reserved[r] <= quantity[r])` |
| | `MCSpecIsSpec` | `MCSpec => Spec`: what TLC runs is covered by the theorems |
| `StockMovesProofs` | `MovesInvariant`, `MovesTypes` | `Spec => []MovesInv`, `Spec => []TypeOK` |
| | `MovementsAlwaysExplainStock`, `ReservedIsAlwaysCovered` | `Spec => []MovementsExplainStock`, `Spec => []ReservedIsCovered` |
| `ReceivingProofs` | `ReceivingInvariant`, `ReceivingTypes` | `Spec => []ReceivingInv`, `Spec => []TypeOK` |
| | `ReceiptsStayWithinOrdered`, `ReceiptsOnlyAdd` | `Spec => []WithinOrdered`, `Spec => AccountedNeverShrinks` |
| | `StockFollowsLines`, `OrderIsToldByReceipts` | `Spec => []StockIsWhatLinesSay`, `Spec => []OrderFollowsReceipts` |
| `SalesOrdersProofs` | `OrdersInvariant`, `OrdersTypes`, `NothingIsCountedTwice` | `Spec => []OrdersInv`, `Spec => []TypeOK`, `Spec => []NothingCountsTwice` |
| | `SerialInvariant` | `SerialSpec => [](OrdersInv /\ SerialInv)` |
| | `NotesAndOrderAgree`, `BackordersOweTheRest` | `SerialSpec => []DeliveryAgrees`, `SerialSpec => []OwedExactly` |
| | `SerialOrdersDoAddUp` | `MCSpec => []SerialOrdersAddUp` |
| `JobsAndBillingProofs` | `EventsAreAppliedOnce` | `Spec => []AppliedAtMostOnce` |
| | `BillingInvariant` | `Spec => []BillingInv` |
| | `BillingTypes`, `TenantAgreesWithStripe` | `Spec => []TypeOK`, `Spec => []AgreesWithStripe` |
| | `AlertsStayRight` | `Alerts!Spec => []AlertsAreRight` |
| | `TrialStaysAnnounced` | `Trial!Spec => []TrialIsAnnounced` |
| | `JobsTypes` | `MCSpec => []JobsTypeOK` |
| | `JobsSpecIsTheirs` | `MCSpec => Spec /\ Trial!Spec`: what TLC runs of the webhook and the trial is covered by the theorems |
| `AdministrationProofs` | `RegistersStayAsAsked`, `DeletedRowsStayDeleted` | `Register!Spec => []RegistersAreAsAsked`, `Register!Spec => NothingComesBack` |
| | `TheTreeStaysWhole` | `Category!Spec => []TreeIsWhole` |
| | `ArticlesStayAsTold` | `Article!Spec => []ArticlesAreAsTold` |
| | `TenantsAreWhole` | `Tenant!Spec => []TenantIsWhole` |
| | `LinksAreSpentOnce` | `Password!Spec => []LinksAreSpent` |
| | `LimiterStaysHonest` | `Limiter!Spec => []LimiterIsHonest` |
| | `SuggestionsStayRight` | `Pick!Spec => []SuggestsWhatThereIs` |
| | `PermissionsTypes`, `StalenessIsBounded` | `Spec => []TypeOK`, `Spec => []StalenessBounded` |
| | `AdministrationTypes` | `MCSpec => []AdministrationTypeOK` |
| | `MCSpecIsTheirs` | `MCSpec => Spec /\ Register!Spec /\ …`: what TLC runs is covered by the theorems |

The assumptions are the ones the modules name. They say of what is finite in the
database that it is finite (tasks, ids, inventory rows), of stock and bounds that
they are natural numbers, of the quantities requests bring that they are integers where
the code validates nothing (`PickingTasks`, picking in `StockMoves`, items and
quantities received in `Receiving`, suggestions asked for) and natural numbers where
it does or where the module says it leaves the others out (`PickingRaces`,
`SalesOrders`), of the lists and files a request brings that they are lists
of such quantities, of the rows and lots to pick from the same, of the rows of an article's import that they
name a SKU and a rotation or none, of `nowhere`, `None` and the names of what is absent that they name
nothing else, of the limiter's sizes that they are positive.
TLC evaluates each on the instance it checks. `OversellBound`, `MaxHeld`, `MaxInbound`,
`MaxEvents` and the like bound the model for TLC; the theorems hold for every value.

Few of the invariants the runs check are inductive as they stand. What they need:

**Picking.** `NeverOversold` alone is not inductive: completing a task lowers
quantity by what was picked and reserved by what was allocated, so the stock
covers the rest only if picks are at most allocations and the counter is exactly
the sum over the tasks in progress. `ReservationsBalanced` in turn needs
`NeverOversold`'s companion, the floor of `GREATEST(0, …)` never being reached,
which follows from the sum containing what is released. `LifecycleInv` is the
conjunction of types, `PicksWithinAllocations` (nothing negative, no pick beyond its
allocation, no legacy item), `ReservationsBalanced`, `NeverOversold` and `ShipsOnce`. The proof has one step per action; the sums are
handled by the lemmas of `StockSumsProofs`: a sum changes by what one member's
share changes by, is split by a partition of the set, and is at least every
member's share. They are facts about the cardinality of a finite set of units,
which is how `StockSums` defines a sum, so they need no induction.
`LifecycleKeepsPromises` maps the allocations of tasks in progress to promises;
starting is `Promise`, cancelling and the cleanup are `Withdraw`, completing is
`Deliver`, an edit of a task in progress is a new `Promise`, and the rest
stutters. `LifecycleInv` gives the guards. `ReservationsGrowWithinStock` is of every
request, and of integers: where none of the quantities a request reserves or releases
is negative, each UPDATE that adds is conditional on the stock, and `GREATEST(0, …)` only
lowers. Releasing a negative allocation raises the counter unchecked; such requests are
the exception the property names.

**Races.** `RacesInv`: no two transactions have written the same row, so the
committed values of a row a transaction has written are those its first UPDATE saw
(`WriteOK`). Against them, a completion has lowered the quantity and not raised the
reservation, and anything else has left the quantity alone and reserved more only
within it. A commit then moves exactly what it ships, whatever was committed since
the transaction began.

**Serialisation.** Where transactions about one task exclude each other, the
transactions implement `PickingTasks`' `TaskSpec`, read on the committed rows, with
every commit one of its steps. (Of the behaviours where they do not, `TasksSerialise`
says nothing; there `RacesInv` is what holds.) The invariant `SerialInv` says that no
two transactions are about one task (`TasksApart`) and that every open one is
`Underway`: there is a list of statements of which it has executed the first so many
(`Began`); together they do to each row what the handler does, stated from the items
and the status its task has now (`Meant`); and what it has written differs from the
committed rows, as they are now, by what the executed ones do (`Made`). Transactions write quantities that are not
negative (`LedgerBounds`, with the row's counters within its first stock), which the
lifecycle of `PickingTasks` asks for. `Underway` and `Made`
are what other commits could break. They do not: a commit changes only rows it has
locked, which are not those another transaction has written, and tasks of its own; and
as a statement adds to the counter and floors at zero rather than writing a value it
has read, `Made` holds for a row at its first UPDATE whatever was committed before. A
statement extends `Made` by one because a list releases before it reserves
(`ReleasesFirst`), so the floor `GREATEST(0, …)` is taken of a sum of releases. At a
commit the list is exhausted, so the rows hold what the handler makes of them. That
the completion finds the stock it ships is the lifecycle's invariant, which `SerialInv`
carries along: `LifecycleInvStep` of `PickingTasksProofs` is used there under the
refinement mapping.

**Stock moves.** `MovesInv`: what an open transfer has written is locked and differs
from the committed rows by what it moved so far (`SourceInv`, `DestinationInv`); ids
are not reused, so a request that remembers a row knows where it is or was
(`ClaimsInv`); at every location that is not `spoilt` there is at most one row and it
holds the ledger and, unless it is `loose`, what picking holds, the latter within the
former (`AccountInv`). Every step that could break an account either is one of the named
mishaps, and then the location joins `spoilt`, or is covered by its lock or by what
the UPDATE checks.

**Receiving.** `ReceivingInv`: a completion that has written holds the locks of its
task and of the lines it added to, and what its commit will leave behind is at least
what is there, at most what was ordered, and judged rightly by the status it is about
to set (`WroteTask`, `WroteLines`, `Judged`); that it is at least what is there holds
of the lines it does not take from, which join `lowered` when it commits. The lines in
`whole` were booked with what they expected, whatever they said was accepted.

**Sales orders.** `OrdersInv`: a request after its task's completion is the only one of
that task. The tasks still to be recorded by some request are `Unrecorded`, and
`CountInv` says that the order, and whatever a request has read in order to write it,
count only the others (`Recordable`). So a request that writes over another's record
loses units and never counts one twice. Lines written by hand change what an open task
will ship; once it is completed nothing about it changes, so what a request records is
still what it read. A line shipped on its own is in no request's record. `SerialInv`, for
requests one at a time, says what the one under way has still to tell: the order (its
task is not recorded until `write`), the notes, the new backorders, the backorder the
task came from. A backorder is told of its own article only, so what is owed of an
article is said while no task made for another one shipped any (`Straight`), which
writing a task's lines by hand makes possible.

**Billing.** `GateInv`: an event not claimed has not been handled, a delivery in
progress holds a claimed event, no two hold the same. The claim is the INSERT, so the
step that starts a handler is the one that closes the door. `OrderInv`, while the
history is `orderly`: the events claimed are the first so many that were sent, at most
one is being handled, Stripe tells of one subscription after the other, and the rows
and the tenant are where the last handled event, or the one being handled, leaves
them.

**Registers.** `RegisterInv` relates a row to what was asked of it (`RowOK`) field by
field, and what a request remembers to what it may write (`EditOK`). It needs of the
nine tables only what `KindFacts` lists: a handler that merges has a statement that writes
the key, a handler's fields are columns its statement writes, and where a deletion only
deactivates, the UPDATE does not write `is_active`. The unique index does the rest.
An update that writes the whole row leaves a field it was not given as it was asked
last, unless the row changed since it was read.

**Categories.** A move that was checked against the tree as it still is cannot close a
cycle. If it did, there would be a set of categories closed under parent (`NoCycle` is
stated over such sets, which needs no induction over paths) with the moved category in
it, and before the move the new parent's ancestors would have led to it. A write
marks the checks under way as old, and `stale` remembers what they write. Where the
list was not of all, the walk over it may end early; then what keeps a cycle away is
that the new parent was a root when it was read, and `cut` remembers the writes for which
it no longer was.

**Articles.** The index keeps two articles from having one SKU, and the foreign keys refuse
or cascade in the step that would leave a reference behind. An update writes the
rotation it read or the one it was given (`CallOK`), which is the one last named unless
the article changed in between. `PreviewIsKept` needs no invariant: preview and import
look for the same things in whatever there is.

**Signup.** Tokens and tenants persist (`Persists`), so what a request has seen of them
stays true: the tokens it knew when it looked are for other emails and slugs
(`Apart`), and the one it verified made the tenant. Seeded data belong to a tenant that
asked for them, all at once, since only the commit makes them visible.

**Password resets.** A link is unused until the first reset with it, so everyone who read
it as unused started before that reset was done (`CallerOK`); whatever links a request
found unused it uses up when it commits (`LinkOK`), and none is stored twice.

**Suggestions.** The loop's invariant (`LoopInv`) says of the rows it has passed: what
a location has given is the sum over its rows, and whenever it gave something at most
the free stock of one of them; while something is still asked for, each is spent, of its
lot or of what its inventory row has beyond its location's count; and each is
spent whenever a later one gives. It holds of every pass because there is no first at
which it does not. At the end either what was asked for is taken or every row is spent,
and then each location gave at least what can be had of any one of its inventory rows,
no row more than can be had of it. Starting a task and editing lots keep of the
answer what is still asked of it. The sums are `StockSums`' cardinalities again.

**The limiter.** What a refused request was told and what the bucket holds are
together never less than a token: the seconds are rounded up, a tick moves one from the
former to the latter, and the cleaner only fills the bucket. For the windows, what the
requests of the last `n` ticks took and what is left are at most a full bucket,
`n - 1` ticks' refill and a bucket for each that the cleaner gave in the window. He gives
none that was used since he came before: nothing passed since the bucket was seen
(`n <= seen` implies `passed[n] = 0`), so two that he gives are at least two of his
rounds apart, which is how many `NewBuckets` counts. The windows may be of any length.

**Stock alerts.** Analyses delete each other's rows, so the rows that speak for an item
come and go. `AlertsInv` has for every watched subject *one* row (`Kept`) such that
whoever found that row and is about to commit has itself read that the subject needs
an alert; its commit takes the row away and brings one of its own (`HoldingOK`). Who has
found the row and read nothing yet will read the need, as it has lasted. A resolution
that found the row saves one for the same subject. That an alert recommends more than
there is follows from the thresholds: stock of a subject that is used lasts 7 days or 14,
and the recommendation is 30 days' use or 21.

**The trial.** `TrialInv` says in which hours a reminder may be marked: within the 24 of
its day, of which `LastHour` is the last (`ReminderOK`). A second email needs a mark 23
hours old, so it leaves in that hour, where it counts towards the runs of the hour.
That no reminder is missed needs the hour before: the last committed run of an hour has
sent what its day asks for, or has ended the trial, so when the hour passes nothing is
owed. Hours and days are related by one fact about the truncating division (`Days`).

**Permissions.** `CacheInv`: a request in progress began its
step at most `MaxDelay` ago, and what it read was current then; an entry ends at
most a TTL from now, and at most a TTL and a delay after its permissions were
replaced. The second half of each is what makes the other inductive: storing an
entry turns the one into the other.

**Types of the areas.** The invariants above know of an area only what its theorems need.
Four more are kept beside them: how many registers' requests there were and what is left
of an import (`RegisterSizes`), which categories moves have marked (`CategorySets`), what
an article is and what a call was given (`ArticleSets`), and that a reset is numbered and
began within those that were done (`ResetsCounted`).

**Only model-checked.** `ForgottenIsReleased` and `AlertsReachAdministrators` are
liveness, which TLAPS does not do under fairness here, and `CancelReleases`,
`ReducesWhatIsLeft`, `DecreasesLeaveReserved` and `HourlyLimit` (section 5) are refuted.
Every other property a run checks is a theorem.

## 5. Disagreements between the code and what is said of it

Four have a run whose property is the sentence the code contradicts.

* **Cancelling an order** (`picking_order_cancel`). `ports/sales_orders.go:34`:
  "Cancel transitions any non-completed status → cancelled; releases picking
  reservations." The code sets `picking_tasks.status` by a bare UPDATE
  (`sales_orders_repository.go:614`); a started task's units stay reserved, and
  no job frees them since it only looks at tasks in progress.
* **Settling a backorder** (`orders_lost_fulfilment`).
  `backorders_repository.go:293` promises SELECT FOR UPDATE "to prevent lost
  updates when two picking tasks sourced from the same backorder complete
  concurrently". The option is one of GORM v1 and is ignored by the version in
  use; the second completion writes over the first.

* **Decreases and reservations** (`moves_decreases`).
  `adjustments_repository.go:233`: "block adjustment if new qty would fall below
  reserved_qty". The row is read without a lock, and saved whole at line 279: a
  reservation that comes in between is neither looked at nor kept.
* **Requests per hour** (`limiter_hourly`). `routes/signup_routes.go:25`: "5 per hour
  per IP", and the like at 26, 46, 51 and in `authentication_routes.go:32-33`. A bucket
  of 5 with a token every 12 minutes lets up to 10 pass in an hour, and as a bucket not
  used for 5 minutes is deleted and made anew full, who pauses gets some 30.

The models also contain the following behaviour. It is why a property is
stated for the lifecycle, for serial requests, for orderly events or for
locations that are not `spoilt`. No run states its absence.

* `services/categories_service.go:34`: "Enforce 2-level max: root categories have no
  parent, children have a root parent". An update checks the new parent and not the
  category's own children; a root with children that gets a parent makes a third
  level, which `GetTree` leaves out.
* Items of the old format are reserved by a start and not released by the cleanup, which
  reads allocations alone (`tools/cron.go:51`, against its comment at 19).
* A line completed on its own ships, and neither the order, its note nor its backorder is
  told; completing the whole task ships and tells the line again.
* Releasing a negative allocation raises `reserved_qty` with no look at the stock; a
  negative received quantity lowers the order's line, since only the upper end is
  clamped (`receiving_tasks_repository.go:36-56`).
* Only the 50 latest open low-stock alerts are told (`tools/cron.go:275`); older ones
  wait until there are fewer. Only the first 200 categories by name are listed
  (`categories_repository_sqlc.go:79-81`), so the tree leaves out the rest and the walk
  that looks for cycles ends at them.
* Two inventory rows at one location share what a suggestion has taken
  (`inventory_repository.go:1236-1281`): of 2 and 3 free units it finds 3 of 5.

* Payloads that set `completed` or `abandoned` by a bare status leave the
  reservation behind; completing lines and then cancelling releases it twice,
  at the expense of other tasks (`ReservationsBalanced` fails under `Next`).
* A start that overlaps a cancellation of the same task revives it; two
  overlapping starts reserve twice.
* An order cancelled while its task is being completed becomes `partial` or
  `completed` again; `Update` saves over a submission; two submissions create two
  tasks; an order whose task completes with nothing picked stays `submitted`.
* Webhooks out of order leave the tenant with the older status; a second live
  subscription is refused by an index and its event answered as handled; a
  server that stops after the claim loses the event for good.
* Updated permissions stay in use on other pods for up to a TTL; on the same pod
  too, if the update reports an error after it wrote.
* A trial reminder can be sent again in the last hour of its day; a trial ends up
  to a day early, since the last 24 hours count as day zero.
* Executing a transfer twice moves its stock twice; the destination row is saved
  as it was read. An Excel import takes a negative quantity, which the endpoint for
  one row and the JSON import refuse.
* A receiving task received line by line and completed as a whole counts its lines
  on the order twice (within what was ordered); a completion that fails on a
  serial or at the end keeps what it booked; a cancelled order goes on receiving.
* An alert resolved while the analysis deletes it comes back as resolved next to the
  new one; a cached answer shows alerts resolved since.
* Two signups for one email or slug may be pending at once, and an email that was
  sent may hold a link that was never stored; a demonstration that failed to seed
  is not tried again. A reset link works twice in resets that overlap.
* Suggestions go by expiration whatever the article's `rotation_strategy`; the stock
  of an archived lot is suggested as unlotted; stock beyond what a location's lots
  say is not suggested.
* Updates of types, reason codes and conversions that leave `is_active` out
  reactivate the row; a deleted client's code stays taken.
* Categories moved at the same time can form a cycle, or a third level.

Met while reading, and only reflected in what the models leave out:

* `UpdateLocation` takes a description and a zone only as `*string`
  (`locations_repository_sqlc.go:132-137`), and `UpdateLot` an expiration date only
  as a pointer, which JSON never yields: both answer OK and ignore them.
* "FEFO requires expiration tracking" (`articles_service.go:246`) is checked of a
  request alone: imports, and updates that name no rotation, get around it.
* A location import that stops at a row reports `failed: 0`
  (`controllers/locations_controller.go:143-155`).
* Migrations 30, 33 and 34 made `tenant_id` mandatory without a default on lots,
  serials and inventory lots; the raw INSERT of a lot when receiving, and lots and
  serials created without it, always fail. `CreateLot` fails on its quantity.
* `generatePONumber` and `nextSONumber` use FOR UPDATE with an aggregate, which
  PostgreSQL refuses.
* The preview of an inventory import calls a negative quantity new; the import then
  skips the row.

## 6. What is not modelled

* **Within the modelled parts**: HTTP parsing and validation that changes
  nothing, the text of items and messages, several tenants at once (but in
  `Articles` and `Signup`, where tenants meet), order and note numbers, PDFs, lots
  and serials moved along with stock. Time is coarse where only an order matters.
  `StockMoves`, `Receiving` and `PickSuggestions` each have their own stock: what a
  receipt does to a row is the creation or increase `StockMoves` has.
  In `PickingRaces`, negative quantities and items without allocations; in
  `SalesOrders`, negative quantities. A receiving task that lists an article twice: its
  second line is only ever received with the whole task.
* **Bounds that leave an interleaving out**: in the run of `Receiving`, edits while
  two completions are under way, a task by hand beside another, and two linked
  tasks one of which is started. In that of `SalesOrders`, lines of two tasks written
  by hand, and where requests race those of the order and of a task. In that of
  `picking_endpoints`, two tasks with negative quantities, and negative quantities
  along with overselling. The theorems have none of these bounds.
* **Creation of sales and purchase orders**: their numbering cannot succeed on
  PostgreSQL as written, so the models start from drafts.
* **Gamification**: `user_stats` rows are inserted with an empty id, which the reads
  take for a missing row; every insert after the first fails, and there are no
  counters to check.
* **Presentations, settings, preferences**: rows of one owner, written by id.
  `stock_settings` inserts NULLs into mandatory columns.
* **Dashboards, audit log, exports, templates, wiring**: read only, insert only or
  layout.
* **Out of reach**: Stripe's API calls for checkout and portal (an unsubscribed
  tenant gets a new Stripe customer each time, since only an existing subscription
  row keeps its id), SMTP, JWT.

## 7. The plan

In order of what the system loses when it goes wrong:

1. Picking: lifecycle, endpoints, races, promises. *Done, proved but for liveness.*
2. Orders, notes and backorders. *Done, proved.*
3. Billing, permissions, trial. *Done, proved.*
4. The other writers of inventory, imports included. *Done, proved.*
5. Receiving and purchase orders. *Done, proved.*
6. Alerts and the rest of the hourly dispatch. *Done, proved but for liveness.*
7. Signup, seeding, password resets, the limiter. *Done, proved.*
8. Registers, categories, articles, suggestions. *Done, proved.*
9. **Lots** and serials under receiving and adjustments, once they can be stored.

Proofs: done for picking, its races, the other writers of stock, receiving, orders,
billing, alerts, the trial, and what tenants and administrators do. Left: the liveness,
which stays with TLC.

## 8. Running it

```
tlc -workers 2 -config PickingLifecycle.cfg MCPickingTasks.tla
tlapm PickingTasksProofs.tla
```

`tlapm` takes from half a minute to some minutes for a module of proofs.

`PROJECT.json` names the module and configuration of each run. Each ends within
four minutes with two workers; the largest, `receiving`, `orders` and `moves`, have one to
two million states.

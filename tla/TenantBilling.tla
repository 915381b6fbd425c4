---------------------------- MODULE TenantBilling ----------------------------
(***************************************************************************)
(* One tenant's subscription as Stripe knows it and as the database does.  *)
(* Stripe posts events to /api/billing/stripe-webhook at least once, in any *)
(* order and concurrently.  A delivery is three writes, each committed on  *)
(* its own: the claim of the event id, the subscription's row, the         *)
(* tenant's row.  The server may stop between two of them.  The hourly     *)
(* trial check reads the tenant in one statement and writes it in another. *)
(***************************************************************************)
EXTENDS Naturals, Sequences

CONSTANTS Subs,       \* ids of Stripe subscriptions the tenant may take
          Requests,   \* webhook deliveries in progress at a time
          MaxEvents   \* bound on the events Stripe sends

ASSUME MaxEventsAssumption == MaxEvents \in Nat

VARIABLES stripe,     \* status of each subscription at Stripe
          events,     \* the events Stripe sent, by their number
          claimed,    \* event numbers in stripe_webhook_events
          answered,   \* event numbers answered with 200
          row,        \* status of each row of subscriptions, or "none"
          tenant,     \* the tenant's row
          req,        \* what each delivery does next
          trialJob,   \* what the trial check does next
          applied,    \* how often each event was handled (history)
          orderly     \* so far nothing failed, events came in order and one
                      \* subscription followed the other (history)

external == <<stripe, events>>
rows == <<row, tenant>>
vars == <<stripe, events, claimed, answered, row, tenant, req, trialJob, applied, orderly>>

Numbers == 1..MaxEvents
SubscriptionStatuses == {"active", "past_due", "cancelled", "incomplete", "trialing"}
TenantStatuses == {"trial", "active", "past_due", "cancelled", "suspended"}
Live == {"active", "trialing", "past_due"}
Idle == [at |-> "none"]

Init == /\ stripe = [s \in Subs |-> "none"]
        /\ events = << >>
        /\ claimed = {} /\ answered = {}
        /\ row = [s \in Subs |-> "none"]
        /\ tenant = [status |-> "trial", isActive |-> TRUE]
        /\ req = [r \in Requests |-> Idle]
        /\ trialJob = "idle"
        /\ applied = [n \in Numbers |-> 0]
        /\ orderly = TRUE

-----------------------------------------------------------------------------
(* Stripe's side.  An event carries the status it asks for; an invoice     *)
(* event names the tenant only where its subscription came expanded.       *)

Event(kind, s, status, known) ==
  [kind |-> kind, sub |-> s, status |-> status, known |-> known]

Sends(batch) == /\ Len(events \o batch) <= MaxEvents
                /\ events' = events \o batch
                /\ UNCHANGED <<claimed, answered, rows, req, trialJob, applied>>

Becomes(s, from, to) == /\ stripe[s] \in from
                        /\ stripe' = [stripe EXCEPT ![s] = to]

Checkout(s) == /\ Becomes(s, {"none"}, "active")
               /\ Sends(<<Event("checkout", s, "active", TRUE)>>)

PaymentFails(s) ==
  /\ Becomes(s, {"active"}, "past_due")
  /\ \E known \in BOOLEAN :
       LET failed == Event("invoice", s, "past_due", known)
           updated == Event("updated", s, "past_due", TRUE)
       IN  Sends(<<failed, updated>>) \/ Sends(<<updated, failed>>)

PaymentRecovers(s) == /\ Becomes(s, {"past_due"}, "active")
                      /\ Sends(<<Event("updated", s, "active", TRUE)>>)

RetriesExhausted(s) == /\ Becomes(s, {"past_due"}, "unpaid")
                       /\ Sends(<<Event("updated", s, "unpaid", TRUE)>>)

Canceled(s) == /\ Becomes(s, {"active", "past_due", "unpaid"}, "canceled")
               /\ Sends(<<Event("deleted", s, "cancelled", TRUE)>>)

-----------------------------------------------------------------------------
(* A delivery.                                                             *)

\* Mutant of NotClaimed.
(* The gate looks for an event that was answered, not for one that was     *)
(* claimed.                                                                *)
NotAnswered(n) == n \notin answered

NotClaimed(n) == n \notin claimed

(* StripeWebhook up to the dispatch: the INSERT of the event id either     *)
(* claims the event or finds it claimed, and then it is answered at once.  *)
AttemptMarkWebhookEventProcessed(r, n) ==
  /\ req[r] = Idle
  /\ claimed' = claimed \cup {n}
  /\ \/ /\ NotClaimed(n)
        /\ req' = [req EXCEPT ![r] = [at |-> "subscription", event |-> n]]
        /\ applied' = [applied EXCEPT ![n] = @ + 1]
        /\ UNCHANGED answered
     \/ /\ ~NotClaimed(n)
        /\ answered' = answered \cup {n}
        /\ UNCHANGED <<req, applied>>
  /\ UNCHANGED <<external, rows, trialJob>>

Handles(r, step) == req[r].at = step
Asked(r) == events[req[r].event]

Answer(r) == /\ answered' = answered \cup {req[r].event}
             /\ req' = [req EXCEPT ![r] = Idle]

\* Mutant of RowAccepts.
(* The columns have no CHECK, and a tenant any number of live rows.        *)
RowAcceptsAnything(s, status) == TRUE

(* The CHECK on subscriptions.status and uq_subscriptions_tenant_active.   *)
RowAccepts(s, status) ==
  /\ status \in SubscriptionStatuses
  /\ status \in Live => \A o \in Subs \ {s} : row[o] \notin Live

(* UpsertSubscription inserts the row a checkout is about; an UPDATE that  *)
(* finds no row is no error.                                               *)
WriteSubscription(r) ==
  /\ Handles(r, "subscription")
  /\ LET e == Asked(r)
         hits == e.kind = "checkout" \/ row[e.sub] # "none"
     IN  \/ /\ hits => RowAccepts(e.sub, e.status)
            /\ row' = IF hits THEN [row EXCEPT ![e.sub] = e.status] ELSE row
            /\ \/ /\ e.known
                  /\ req' = [req EXCEPT ![r].at = "tenant"]
                  /\ UNCHANGED answered
               \/ ~e.known /\ Answer(r)
         \/ /\ hits /\ ~RowAccepts(e.sub, e.status)
            /\ Answer(r)
            /\ UNCHANGED row
  /\ UNCHANGED <<external, claimed, tenant, trialJob, applied>>

TenantStatus(status) == IF status = "trialing" THEN "active" ELSE status

(* UpdateTenantStatus; a status the CHECK on tenants refuses is logged.    *)
WriteTenant(r) ==
  /\ Handles(r, "tenant")
  /\ LET status == TenantStatus(Asked(r).status)
     IN  tenant' = IF status \in TenantStatuses
                   THEN [status |-> status, isActive |-> status = "active"]
                   ELSE tenant
  /\ Answer(r)
  /\ UNCHANGED <<external, claimed, row, trialJob, applied>>

(* Either write may fail; the error is logged and the answer is still 200. *)
WriteFails(r) == /\ Handles(r, "subscription") \/ Handles(r, "tenant")
                 /\ Answer(r)
                 /\ UNCHANGED <<external, claimed, rows, trialJob, applied>>

Deliver(r) == WriteSubscription(r) \/ WriteTenant(r)

(* The claim stays; the trial check's transaction is rolled back.          *)
Crash == /\ \E r \in Requests : req[r] # Idle
         /\ req' = [r \in Requests |-> Idle]
         /\ trialJob' = "idle"
         /\ UNCHANGED <<external, claimed, answered, rows, applied>>

-----------------------------------------------------------------------------
(* RunTrialExpirationCheck, for a tenant at the end of its trial.          *)

ListTrials == /\ trialJob = "idle" /\ tenant.status = "trial"
              /\ trialJob' = "listed"
              /\ UNCHANGED <<external, claimed, answered, rows, req, applied>>

\* Mutant of StillOnTrial.
(* The trial check updates the tenants it listed by their id alone.        *)
ListedIsEnough == TRUE

StillOnTrial == tenant.status = "trial"

ExpireTrial == /\ trialJob = "listed"
               /\ trialJob' = "idle"
               /\ tenant' = IF StillOnTrial
                            THEN [status |-> "past_due", isActive |-> FALSE]
                            ELSE tenant
               /\ UNCHANGED <<external, claimed, answered, row, req, applied>>

TrialCheck == ListTrials \/ ExpireTrial

-----------------------------------------------------------------------------
StripeActs == \E s \in Subs : \/ Checkout(s) \/ PaymentFails(s) \/ PaymentRecovers(s)
                              \/ RetriesExhausted(s) \/ Canceled(s)

(* An event comes after the earlier ones were handled; it and they may     *)
(* still come again.                                                       *)
InOrder(n) == \A k \in 1..(n - 1) :
  k \in claimed /\ \A r \in Requests : req[r] # Idle => req[r].event # k

(* The tenant subscribes again only after its subscription was cancelled.  *)
OneSubscription ==
  \A s \in Subs : stripe[s] = "none" /\ stripe'[s] # "none"
                    => \A o \in Subs \ {s} : stripe[o] \in {"none", "canceled"}

Next == \/ StripeActs /\ orderly' = (orderly /\ OneSubscription)
        \/ TrialCheck /\ UNCHANGED orderly
        \/ Crash /\ orderly' = FALSE
        \/ \E r \in Requests :
             \/ Deliver(r) /\ UNCHANGED orderly
             \/ WriteFails(r) /\ orderly' = FALSE
             \/ \E n \in DOMAIN events : /\ AttemptMarkWebhookEventProcessed(r, n)
                                         /\ orderly' = (orderly /\ InOrder(n))

Spec == Init /\ [][Next]_vars

-----------------------------------------------------------------------------
TypeOK ==
  /\ stripe \in [Subs -> {"none", "active", "past_due", "unpaid", "canceled"}]
  /\ events \in Seq([kind : {"checkout", "updated", "deleted", "invoice"}, sub : Subs,
                     status : {"active", "past_due", "unpaid", "cancelled"},
                     known : BOOLEAN])
  /\ claimed \subseteq DOMAIN events /\ answered \subseteq claimed
  /\ row \in [Subs -> SubscriptionStatuses \cup {"none"}]
  /\ tenant \in [status : TenantStatuses, isActive : BOOLEAN]
  /\ req \in [Requests -> {Idle} \cup [at : {"subscription", "tenant"}, event : DOMAIN events]]
  /\ trialJob \in {"idle", "listed"}
  /\ applied \in [Numbers -> Nat]
  /\ orderly \in BOOLEAN

(* However an event is delivered, again and at the same time, after a      *)
(* failure or a crash, its handler runs at most once: the INSERT of its id *)
(* is the gate (AttemptMarkWebhookEventProcessed).                         *)
AppliedAtMostOnce ==
  /\ \A n \in Numbers : applied[n] <= 1
  /\ \A q, r \in Requests : q # r /\ req[q] # Idle /\ req[r] # Idle
                              => req[q].event # req[r].event

AllHandled == /\ events # << >>
              /\ DOMAIN events \subseteq claimed
              /\ \A r \in Requests : req[r] = Idle

Paid == \E s \in Subs : stripe[s] = "active"

(* Delivered in order, with repetitions, while the trial runs out at any   *)
(* moment: once every event was handled the tenant is active exactly if    *)
(* its subscription is paid, and a row is live exactly if the subscription *)
(* was not cancelled.                                                      *)
AgreesWithStripe ==
  orderly /\ AllHandled =>
                /\ tenant.isActive <=> Paid
                /\ \A s \in Subs : row[s] \in Live <=> stripe[s] \notin {"none", "canceled"}

=============================================================================

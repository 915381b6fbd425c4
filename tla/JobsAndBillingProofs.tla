------------------------- MODULE JobsAndBillingProofs -------------------------
(***************************************************************************)
(* What runs without a user: Stripe's webhook and the jobs of the hourly   *)
(* dispatch.  The webhook handles an event at most once and, delivered in  *)
(* order, leaves the tenant as Stripe has it, for any number of            *)
(* subscriptions, concurrent deliveries and events.  What needs a stock    *)
(* alert keeps one and a trial is announced, for any number of pods,       *)
(* requests, items, lots and hours.  The three share no state.             *)
(***************************************************************************)
EXTENDS MCJobs, TLAPS

-----------------------------------------------------------------------------
(* The webhook.                                                            *)

Busy == [at : {"subscription", "tenant"}, event : claimed]

(* What the property needs to be inductive: an event that was handled, or  *)
(* is being handled, is claimed.                                           *)
GateInv ==
  /\ applied \in [Numbers -> Nat]
  /\ \A n \in Numbers \ claimed : applied[n] = 0
  /\ req \in [Requests -> {Idle} \cup Busy]
  /\ AppliedAtMostOnce

(* A request that waits is not one that handles an event.                  *)
LEMMA IdleIsNotBusy == Idle \notin Busy
BY DEF Idle, Busy

(* At first nothing is claimed or handled.                                 *)
LEMMA InitGateInv == Init => GateInv
<1>. SUFFICES ASSUME Init PROVE GateInv
  OBVIOUS
<1>1. applied \in [Numbers -> Nat]
  BY DEF Init
<1>2. \A n \in Numbers : applied[n] = 0
  BY DEF Init
<1>3. req \in [Requests -> {Idle}]
  BY DEF Init
<1>. QED
  BY <1>1, <1>2, <1>3 DEF GateInv, AppliedAtMostOnce

(* A request that goes on with its event, or stops.                        *)
LEMMA RequestsGoOn ==
  ASSUME GateInv, UNCHANGED <<claimed, applied>>, req' \in [Requests -> {Idle} \cup Busy],
         \A r \in Requests : req'[r] = Idle \/ (req[r] # Idle /\ req'[r].event = req[r].event)
  PROVE  GateInv'
<1>1. Busy' = Busy
  BY DEF Busy
<1>2. req' \in [Requests -> {Idle} \cup Busy]'
  BY <1>1 DEF Idle
<1>3. AppliedAtMostOnce'
  BY DEF GateInv, AppliedAtMostOnce, Idle, Numbers
<1>. QED
  BY <1>2, <1>3 DEF GateInv, Numbers, Idle

(* The INSERT of the event's id lets one delivery of it through.           *)
LEMMA ClaimStep ==
  ASSUME GateInv, NEW r \in Requests, NEW n, AttemptMarkWebhookEventProcessed(r, n)
  PROVE  GateInv'
<1>. USE DEF GateInv
<1>1. CASE ~NotClaimed(n)
  <2>1. claimed' = claimed /\ UNCHANGED <<req, applied>>
    BY <1>1 DEF AttemptMarkWebhookEventProcessed, NotClaimed
  <2>2. \A q \in Requests : req'[q] = Idle \/ (req[q] # Idle /\ req'[q].event = req[q].event)
    BY <2>1
  <2>. QED
    BY <2>1, <2>2, RequestsGoOn
<1>2. CASE NotClaimed(n)
  <2>. DEFINE handling == [at |-> "subscription", event |-> n]
  <2>1. /\ claimed' = claimed \cup {n} /\ n \notin claimed
        /\ req' = [req EXCEPT ![r] = handling]
        /\ applied' = [applied EXCEPT ![n] = @ + 1]
    BY <1>2 DEF AttemptMarkWebhookEventProcessed, NotClaimed
  <2>2. handling \in Busy' /\ Busy \subseteq Busy'
    BY <2>1 DEF Busy
  <2>3. req' \in [Requests -> {Idle} \cup Busy']
    BY <2>1, <2>2
  <2>. DEFINE handled(k) == IF k = n THEN applied[n] + 1 ELSE applied[k]
  <2>4. applied' = [k \in Numbers |-> handled(k)]
    BY <2>1
  <2>5. \A k \in Numbers : handled(k) \in Nat
    OBVIOUS
  <2>6. applied' \in [Numbers -> Nat]
    BY <2>4, <2>5
  <2>7. \A k \in Numbers \ claimed' : applied'[k] = 0
    BY <2>1, <2>4
  <2>8. \A k \in Numbers : applied'[k] <= 1
    <3>. SUFFICES ASSUME NEW k \in Numbers PROVE applied'[k] <= 1
      OBVIOUS
    <3>1. CASE k = n
      BY <2>1, <2>4, <3>1
    <3>2. CASE k # n
      BY <2>4, <3>2 DEF AppliedAtMostOnce
    <3>. QED
      BY <3>1, <3>2
  <2>9. ASSUME NEW p \in Requests, NEW q \in Requests, p # q, req'[p] # Idle, req'[q] # Idle
        PROVE  req'[p].event # req'[q].event
    <3>1. \A o \in Requests \ {r} : req'[o] = req[o]
      BY <2>1
    <3>2. \A o \in Requests \ {r} : req'[o] # Idle => req'[o].event \in claimed
      BY <3>1 DEF Busy
    <3>3. req'[r].event = n
      BY <2>1
    <3>4. CASE p = r \/ q = r
      BY <2>1, <2>9, <3>2, <3>3, <3>4
    <3>5. CASE p # r /\ q # r
      BY <2>9, <3>1, <3>5 DEF AppliedAtMostOnce
    <3>. QED
      BY <3>4, <3>5
  <2>. QED
    BY <2>3, <2>7, <2>8, <2>6, <2>9 DEF AppliedAtMostOnce, Idle
<1>. QED
  BY <1>1, <1>2

(* An answer ends the request.                                             *)
LEMMA AnswerStep ==
  ASSUME GateInv, NEW r \in Requests, Handles(r, "subscription") \/ Handles(r, "tenant"),
         Answer(r), UNCHANGED <<claimed, applied>>
  PROVE  GateInv'
<1>1. req' = [req EXCEPT ![r] = Idle]
  BY DEF Answer
<1>2. req' \in [Requests -> {Idle} \cup Busy]
  BY <1>1 DEF GateInv
<1>3. \A q \in Requests : req'[q] = Idle \/ (req[q] # Idle /\ req'[q].event = req[q].event)
  BY <1>1 DEF GateInv
<1>. QED
  BY <1>2, <1>3, RequestsGoOn

(* The first write keeps the event, or ends the request.                   *)
LEMMA WriteSubscriptionStep ==
  ASSUME GateInv, NEW r \in Requests, WriteSubscription(r)
  PROVE  GateInv'
<1>1. Handles(r, "subscription") /\ UNCHANGED <<claimed, applied>>
  BY DEF WriteSubscription
<1>2. CASE Answer(r)
  BY <1>1, <1>2, AnswerStep
<1>3. CASE req' = [req EXCEPT ![r].at = "tenant"]
  <2>1. req[r] \in Busy /\ req[r] # Idle
    BY <1>1 DEF GateInv, Handles, Idle
  <2>2. req' = [req EXCEPT ![r] = [req[r] EXCEPT !.at = "tenant"]]
    BY <1>3
  <2>3. /\ [req[r] EXCEPT !.at = "tenant"] \in Busy
        /\ [req[r] EXCEPT !.at = "tenant"].event = req[r].event
    BY <2>1 DEF Busy
  <2>4. req' \in [Requests -> {Idle} \cup Busy]
    BY <2>2, <2>3 DEF GateInv
  <2>5. \A q \in Requests : req'[q] = Idle \/ (req[q] # Idle /\ req'[q].event = req[q].event)
    BY <2>1, <2>2, <2>3 DEF GateInv
  <2>. QED
    BY <1>1, <2>4, <2>5, RequestsGoOn
<1>. QED
  BY <1>2, <1>3 DEF WriteSubscription

(* Every step keeps the gate.                                              *)
LEMMA GateInvStep == GateInv /\ [Next]_vars => GateInv'
<1>. SUFFICES ASSUME GateInv, [Next]_vars PROVE GateInv'
  OBVIOUS
<1>1. CASE UNCHANGED <<claimed, applied, req>>
  <2>1. \A q \in Requests : req'[q] = Idle \/ (req[q] # Idle /\ req'[q].event = req[q].event)
    BY <1>1
  <2>. QED
    BY <1>1, <2>1, RequestsGoOn DEF GateInv
<1>2. CASE StripeActs \/ TrialCheck \/ UNCHANGED vars
  BY <1>1, <1>2 DEF StripeActs, Checkout, PaymentFails, PaymentRecovers, RetriesExhausted,
                    Canceled, Sends, TrialCheck, ListTrials, ExpireTrial, vars
<1>3. CASE Crash
  <2>1. req' = [r \in Requests |-> Idle] /\ UNCHANGED <<claimed, applied>>
    BY <1>3 DEF Crash
  <2>2. req' \in [Requests -> {Idle} \cup Busy]
    BY <2>1
  <2>3. \A q \in Requests : req'[q] = Idle
    BY <2>1
  <2>. QED
    BY <2>1, <2>2, <2>3, RequestsGoOn
<1>4. ASSUME NEW r \in Requests, Deliver(r) PROVE GateInv'
  <2>1. CASE WriteSubscription(r)
    BY <2>1, WriteSubscriptionStep
  <2>2. CASE WriteTenant(r)
    BY <2>2, AnswerStep DEF WriteTenant
  <2>. QED
    BY <1>4, <2>1, <2>2 DEF Deliver
<1>5. ASSUME NEW r \in Requests, WriteFails(r) PROVE GateInv'
  BY <1>5, AnswerStep DEF WriteFails
<1>6. ASSUME NEW r \in Requests, NEW n \in DOMAIN events,
             AttemptMarkWebhookEventProcessed(r, n)
      PROVE  GateInv'
  BY <1>6, ClaimStep
<1>. QED
  BY <1>2, <1>3, <1>4, <1>5, <1>6 DEF Next

-----------------------------------------------------------------------------
(* What deliveries in order leave behind.                                  *)

Statuses == {"active", "past_due", "unpaid", "cancelled"}
EventType == [kind : {"checkout", "updated", "deleted", "invoice"}, sub : Subs,
              status : Statuses, known : BOOLEAN]

(* What the i-th event may be: Stripe tells of one subscription after the  *)
(* other, of "unpaid" after "past_due", and an invoice event that does not *)
(* name the tenant has the subscription's own event before or after it.    *)
TellsAt(all, i) ==
  LET e == all[i] IN
  /\ e.kind = "checkout" => e.known /\ e.status = "active"
  /\ e.kind = "deleted" <=> e.status = "cancelled"
  /\ ~e.known => e.status = "past_due"
  /\ i = 1 => e.kind = "checkout"
  /\ i # 1 => LET b == all[i - 1] IN
       /\ e.kind = "checkout" <=> b.kind = "deleted"
       /\ e.kind # "checkout" => e.sub = b.sub
       /\ e.status = "unpaid" => b.status = "past_due"
       /\ ~e.known => /\ b.known
                      /\ \/ b.status = "past_due"
                         \/ i + 1 \in DOMAIN all /\ all[i + 1].status = "past_due"

AtStripe(st) == IF st = "cancelled" THEN "canceled" ELSE st

(* Stripe is where its last event says, with no other subscription.        *)
LastTold ==
  IF events = << >> THEN \A s \in Subs : stripe[s] = "none"
  ELSE LET e == events[Len(events)] IN
       /\ stripe[e.sub] = AtStripe(e.status)
       /\ \A s \in Subs \ {e.sub} : stripe[s] \in {"none", "canceled"}

(* The rows and the tenant as the first k events leave them.               *)
RowsAre(k) == \A s \in Subs :
  row[s] \in Live <=> k # 0 /\ s = events[k].sub /\ events[k].kind # "deleted"

Asks(k) == IF events[k].known THEN events[k].status = "active" ELSE events[k - 1].status = "active"

TenantIs(k) == k # 0 => /\ tenant.status # "trial"
                        /\ tenant.isActive <=> Asks(k)

(* The first k events are claimed; all but the last of them are handled.   *)
Reached(k) ==
  /\ claimed = 1 .. k
  /\ \A r \in Requests : req[r] # Idle => k # 0 /\ req[r].event = k
  /\ \/ (\A r \in Requests : req[r] = Idle) /\ RowsAre(k) /\ TenantIs(k)
     \/ \E r \in Requests : /\ req[r].at = "subscription"
                            /\ RowsAre(k - 1) /\ TenantIs(k - 1)
     \/ \E r \in Requests : /\ req[r].at = "tenant"
                            /\ RowsAre(k) /\ TenantIs(k - 1) /\ events[k].known

OrderInv ==
  /\ \A i \in DOMAIN events : TellsAt(events, i)
  /\ LastTold
  /\ \E k \in 0 .. Len(events) : Reached(k)

BillingInv == GateInv /\ TypeOK /\ (orderly => OrderInv)

-----------------------------------------------------------------------------
(* Stripe's events.                                                        *)

(* The events sent so far stay where they are.                             *)
LEMMA EventsAreAppended ==
  ASSUME TypeOK, NEW batch \in Seq(EventType), Sends(batch)
  PROVE  /\ events' \in Seq(EventType)
         /\ Len(events) \in Nat /\ Len(events') = Len(events) + Len(batch)
         /\ DOMAIN events = 1 .. Len(events) /\ DOMAIN events' = 1 .. Len(events')
         /\ \A i \in 1 .. Len(events) : events'[i] = events[i]
         /\ \A i \in 1 .. Len(batch) : events'[Len(events) + i] = batch[i]
<1>1. events \in Seq(EventType)
  BY DEF TypeOK, EventType, Statuses
<1>. QED
  BY <1>1 DEF Sends

(* Whatever is sent is an event.                                           *)
LEMMA EventIsTyped ==
  ASSUME TypeOK, NEW i \in DOMAIN events
  PROVE  events[i] \in EventType /\ i \in 1 .. Len(events) /\ Len(events) \in Nat
<1>1. events \in Seq(EventType)
  BY DEF TypeOK, EventType, Statuses
<1>. QED
  BY <1>1

(* A subscription that lives at Stripe is the one its last event is about. *)
LEMMA LivingIsLast ==
  ASSUME TypeOK, OrderInv, NEW s \in Subs, stripe[s] \notin {"none", "canceled"}
  PROVE  /\ Len(events) \in DOMAIN events
         /\ events[Len(events)].sub = s /\ stripe[s] = events[Len(events)].status
         /\ events[Len(events)].kind # "deleted"
         /\ \A o \in Subs \ {s} : stripe[o] \in {"none", "canceled"}
<1>1. events # << >> /\ Len(events) \in DOMAIN events
  BY DEF OrderInv, LastTold, TypeOK
<1>2. events[Len(events)] \in EventType
  BY <1>1, EventIsTyped
<1>3. TellsAt(events, Len(events))
  BY <1>1 DEF OrderInv
<1>4. /\ stripe[events[Len(events)].sub] = AtStripe(events[Len(events)].status)
      /\ \A o \in Subs \ {events[Len(events)].sub} : stripe[o] \in {"none", "canceled"}
  BY <1>1 DEF OrderInv, LastTold
<1>5. events[Len(events)].sub = s
  BY <1>4
<1>6. events[Len(events)].status # "cancelled" /\ stripe[s] = events[Len(events)].status
  BY <1>4, <1>5 DEF AtStripe
<1>. QED
  BY <1>1, <1>3, <1>4, <1>5, <1>6 DEF TellsAt

(* What was reached does not change when more events are sent.             *)
LEMMA SendsKeepsReached ==
  ASSUME TypeOK, OrderInv, NEW batch \in Seq(EventType), Sends(batch),
         NEW k \in 0 .. Len(events), Reached(k)
  PROVE  Reached(k)'
<1>1. /\ Len(events) \in Nat /\ DOMAIN events = 1 .. Len(events)
      /\ \A i \in 1 .. Len(events) : events'[i] = events[i]
  BY EventsAreAppended
<1>2. claimed' = claimed /\ row' = row /\ tenant' = tenant /\ req' = req
  BY DEF Sends, rows
<1>3. ASSUME NEW i \in 0 .. Len(events)
      PROVE  (RowsAre(i) => RowsAre(i)') /\ (TenantIs(i) => TenantIs(i)')
  <2>1. CASE i = 0
    BY <1>2, <2>1 DEF RowsAre, TenantIs
  <2>2. CASE i # 0
    <3>1. events'[i] = events[i] /\ i \in DOMAIN events
      BY <1>1, <2>2
    <3>2. ~events[i].known => i # 1
      BY <3>1 DEF OrderInv, TellsAt
    <3>3. ~events[i].known => events'[i - 1] = events[i - 1]
      BY <1>1, <2>2, <3>2
    <3>. QED
      BY <1>2, <3>1, <3>3 DEF RowsAre, TenantIs, Asks
  <2>. QED
    BY <2>1, <2>2
<1>4. k # 0 => k - 1 \in 0 .. Len(events)
  BY <1>1
<1>5. \A r \in Requests : req[r].at \in {"subscription", "tenant"} => k # 0 /\ events'[k] = events[k]
  BY <1>1 DEF Reached, Idle
<1>. QED
  BY <1>2, <1>3, <1>4, <1>5 DEF Reached

(* Events that tell what Stripe does next keep the order.                  *)
LEMMA EventsGoOn ==
  ASSUME TypeOK, OrderInv, NEW s \in Subs, NEW to, stripe' = [stripe EXCEPT ![s] = to],
         NEW batch \in Seq(EventType), Sends(batch), Len(batch) # 0,
         \A o \in Subs \ {s} : stripe[o] \in {"none", "canceled"},
         \A i \in (Len(events) + 1) .. (Len(events) + Len(batch)) : TellsAt(events', i),
         batch[Len(batch)].sub = s, to = AtStripe(batch[Len(batch)].status)
  PROVE  OrderInv'
<1>1. /\ events' \in Seq(EventType)
      /\ Len(events) \in Nat /\ Len(events') = Len(events) + Len(batch)
      /\ DOMAIN events = 1 .. Len(events) /\ DOMAIN events' = 1 .. Len(events')
      /\ \A i \in 1 .. Len(events) : events'[i] = events[i]
      /\ \A i \in 1 .. Len(batch) : events'[Len(events) + i] = batch[i]
  BY EventsAreAppended
<1>2. Len(batch) \in Nat
  OBVIOUS
<1>3. ASSUME NEW i \in 1 .. Len(events) PROVE TellsAt(events', i)
  <2>1. TellsAt(events, i)
    BY <1>1 DEF OrderInv
  <2>2. events'[i] = events[i] /\ (i # 1 => events'[i - 1] = events[i - 1])
    BY <1>1
  <2>3. i + 1 \in DOMAIN events => i + 1 \in DOMAIN events' /\ events'[i + 1] = events[i + 1]
    BY <1>1, <1>2
  <2>. QED
    BY <2>1, <2>2, <2>3 DEF TellsAt
<1>4. \A i \in DOMAIN events' : TellsAt(events', i)
  BY <1>1, <1>2, <1>3
<1>5. LastTold'
  <2>1. events' # << >> /\ events'[Len(events')] = batch[Len(batch)]
    BY <1>1, <1>2
  <2>2. stripe'[s] = to /\ \A o \in Subs \ {s} : stripe'[o] = stripe[o]
    BY DEF TypeOK
  <2>. QED
    BY <2>1, <2>2 DEF LastTold, AtStripe
<1>6. PICK k \in 0 .. Len(events) : Reached(k)
  BY DEF OrderInv
<1>7. k \in 0 .. Len(events') /\ Reached(k)'
  BY <1>1, <1>2, <1>6, SendsKeepsReached
<1>. QED
  BY <1>4, <1>5, <1>7 DEF OrderInv

(* What Stripe does is told in order when one subscription follows the     *)
(* other.                                                                  *)
LEMMA StripeStep ==
  ASSUME TypeOK, OrderInv, StripeActs, OneSubscription
  PROVE  OrderInv'
<1>0. /\ Len(events) \in Nat /\ DOMAIN events = 1 .. Len(events)
      /\ \A s \in Subs : stripe' = [stripe EXCEPT ![s] = "active"] => stripe'[s] = "active"
  BY DEF TypeOK
<1>. PICK n \in Nat : n = Len(events)
  BY <1>0
<1>1. ASSUME NEW s \in Subs, NEW to, NEW e \in EventType,
             stripe' = [stripe EXCEPT ![s] = to], Sends(<<e>>),
             e.sub = s, to = AtStripe(e.status), e.known,
             \A o \in Subs \ {s} : stripe[o] \in {"none", "canceled"},
             e.kind = "checkout" => e.status = "active",
             e.kind = "deleted" <=> e.status = "cancelled",
             n = 0 => e.kind = "checkout",
             n # 0 => /\ e.kind = "checkout" <=> events[n].kind = "deleted"
                      /\ e.kind # "checkout" => events[n].sub = s
                      /\ e.status = "unpaid" => events[n].status = "past_due"
      PROVE  OrderInv'
  <2>. DEFINE batch == <<e>>
  <2>1. batch \in Seq(EventType) /\ Len(batch) = 1 /\ batch[1] = e /\ Sends(batch)
    BY <1>1
  <2>. HIDE DEF batch
  <2>2. /\ \A i \in 1 .. n : events'[i] = events[i]
        /\ \A i \in 1 .. 1 : events'[n + i] = batch[i]
    BY <2>1, EventsAreAppended
  <2>3. events'[n + 1] = e /\ (n # 0 => events'[n] = events[n])
    BY <2>1, <2>2
  <2>4. TellsAt(events', n + 1)
    <3>1. (n + 1 = 1) <=> (n = 0)
      OBVIOUS
    <3>2. (n + 1) - 1 = n
      OBVIOUS
    <3>. QED
      BY <1>1, <2>3, <3>1, <3>2 DEF TellsAt
  <2>5. \A i \in (Len(events) + 1) .. (Len(events) + Len(batch)) : TellsAt(events', i)
    <3>1. \A i \in (n + 1) .. (n + 1) : i = n + 1
      OBVIOUS
    <3>. QED
      BY <2>1, <2>4, <3>1
  <2>6. batch[Len(batch)] = e /\ Len(batch) # 0
    BY <2>1
  <2>. QED
    BY <1>1, <2>1, <2>5, <2>6, EventsGoOn
<1>2. ASSUME NEW s \in Subs, Checkout(s) PROVE OrderInv'
  <2>1. stripe[s] = "none" /\ stripe' = [stripe EXCEPT ![s] = "active"] /\ stripe'[s] = "active"
    BY <1>0, <1>2 DEF Checkout, Becomes
  <2>2. \A o \in Subs \ {s} : stripe[o] \in {"none", "canceled"}
    BY <2>1 DEF OneSubscription
  <2>3. n # 0 => events[n].kind = "deleted"
    <3>. SUFFICES ASSUME n # 0 PROVE events[n].kind = "deleted"
      OBVIOUS
    <3>1. n \in DOMAIN events /\ events # << >>
      BY <1>0
    <3>2. events[n] \in EventType /\ TellsAt(events, n)
      BY <3>1, EventIsTyped DEF OrderInv
    <3>3. stripe[events[n].sub] = AtStripe(events[n].status) /\ stripe[events[n].sub] \in {"none", "canceled"}
      BY <2>1, <2>2, <3>1, <3>2 DEF OrderInv, LastTold, EventType
    <3>4. events[n].status = "cancelled"
      BY <3>2, <3>3 DEF AtStripe, EventType, Statuses
    <3>. QED
      BY <3>2, <3>4 DEF TellsAt
  <2>. DEFINE e == Event("checkout", s, "active", TRUE)
  <2>4. /\ e \in EventType /\ e.sub = s /\ e.known /\ "active" = AtStripe(e.status)
        /\ e.kind = "checkout" /\ e.status = "active"
    BY DEF EventType, Statuses, Event, AtStripe
  <2>5. Sends(<<e>>)
    BY <1>2 DEF Checkout
  <2>. HIDE DEF e
  <2>. QED
    BY <1>1, <2>1, <2>2, <2>3, <2>4, <2>5
<1>3. ASSUME NEW s \in Subs, stripe[s] \notin {"none", "canceled"}
      PROVE  /\ n # 0 /\ n \in DOMAIN events /\ events[n].sub = s /\ stripe[s] = events[n].status
             /\ events[n].kind # "deleted" /\ events[n] \in EventType /\ TellsAt(events, n)
             /\ \A o \in Subs \ {s} : stripe[o] \in {"none", "canceled"}
  BY <1>0, <1>3, LivingIsLast, EventIsTyped DEF OrderInv
<1>4. ASSUME NEW s \in Subs, PaymentRecovers(s) PROVE OrderInv'
  <2>. DEFINE e == Event("updated", s, "active", TRUE)
  <2>1. stripe[s] = "past_due" /\ stripe' = [stripe EXCEPT ![s] = "active"] /\ Sends(<<e>>)
    BY <1>4 DEF PaymentRecovers, Becomes
  <2>2. /\ e \in EventType /\ e.sub = s /\ e.known /\ "active" = AtStripe(e.status)
        /\ e.kind = "updated" /\ e.status = "active"
    BY DEF EventType, Statuses, Event, AtStripe
  <2>. HIDE DEF e
  <2>. QED
    BY <1>1, <1>3, <2>1, <2>2
<1>5. ASSUME NEW s \in Subs, RetriesExhausted(s) PROVE OrderInv'
  <2>. DEFINE e == Event("updated", s, "unpaid", TRUE)
  <2>1. stripe[s] = "past_due" /\ stripe' = [stripe EXCEPT ![s] = "unpaid"] /\ Sends(<<e>>)
    BY <1>5 DEF RetriesExhausted, Becomes
  <2>2. /\ e \in EventType /\ e.sub = s /\ e.known /\ "unpaid" = AtStripe(e.status)
        /\ e.kind = "updated" /\ e.status = "unpaid"
    BY DEF EventType, Statuses, Event, AtStripe
  <2>. HIDE DEF e
  <2>. QED
    BY <1>1, <1>3, <2>1, <2>2
<1>6. ASSUME NEW s \in Subs, Canceled(s) PROVE OrderInv'
  <2>. DEFINE e == Event("deleted", s, "cancelled", TRUE)
  <2>1. /\ stripe[s] \notin {"none", "canceled"}
        /\ stripe' = [stripe EXCEPT ![s] = "canceled"] /\ Sends(<<e>>)
    BY <1>6 DEF Canceled, Becomes
  <2>2. /\ e \in EventType /\ e.sub = s /\ e.known /\ "canceled" = AtStripe(e.status)
        /\ e.kind = "deleted" /\ e.status = "cancelled"
    BY DEF EventType, Statuses, Event, AtStripe
  <2>. HIDE DEF e
  <2>. QED
    BY <1>1, <1>3, <2>1, <2>2
<1>7. ASSUME NEW s \in Subs, PaymentFails(s) PROVE OrderInv'
  <2>1. stripe[s] = "active" /\ stripe' = [stripe EXCEPT ![s] = "past_due"]
    BY <1>7 DEF PaymentFails, Becomes
  <2>2. /\ n # 0 /\ n \in DOMAIN events /\ events[n].sub = s /\ events[n].status = "active"
        /\ events[n].kind # "deleted" /\ events[n] \in EventType /\ TellsAt(events, n)
        /\ \A o \in Subs \ {s} : stripe[o] \in {"none", "canceled"}
    BY <1>3, <2>1
  <2>3. PICK a \in EventType, b \in EventType :
          /\ Sends(<<a, b>>) /\ a.sub = s /\ b.sub = s /\ a.status = "past_due" /\ b.status = "past_due"
          /\ a.kind \in {"invoice", "updated"} /\ b.kind \in {"invoice", "updated"}
          /\ a.known \/ b.known
    <3>1. PICK known \in BOOLEAN :
            LET failed == Event("invoice", s, "past_due", known)
                updated == Event("updated", s, "past_due", TRUE)
            IN  Sends(<<failed, updated>>) \/ Sends(<<updated, failed>>)
      BY <1>7 DEF PaymentFails
    <3>. DEFINE failed == Event("invoice", s, "past_due", known)
                updated == Event("updated", s, "past_due", TRUE)
    <3>2. /\ failed \in EventType /\ failed.sub = s /\ failed.status = "past_due" /\ failed.kind = "invoice"
          /\ updated \in EventType /\ updated.sub = s /\ updated.status = "past_due"
          /\ updated.kind = "updated" /\ updated.known
      BY DEF EventType, Statuses, Event
    <3>3. Sends(<<failed, updated>>) \/ Sends(<<updated, failed>>)
      BY <3>1
    <3>. HIDE DEF failed, updated
    <3>. QED
      BY <3>2, <3>3
  <2>. DEFINE batch == <<a, b>>
  <2>4. /\ batch \in Seq(EventType) /\ Len(batch) = 2 /\ batch[1] = a /\ batch[2] = b /\ Sends(batch)
    BY <2>3
  <2>. HIDE DEF batch
  <2>5. /\ events'[n] = events[n] /\ events'[n + 1] = a /\ events'[n + 2] = b
        /\ n + 2 \in DOMAIN events'
    <3>1. /\ \A i \in 1 .. n : events'[i] = events[i]
          /\ \A i \in 1 .. 2 : events'[n + i] = batch[i]
          /\ DOMAIN events' = 1 .. (n + 2)
      BY <2>4, EventsAreAppended
    <3>. QED
      BY <2>2, <2>4, <3>1
  <2>6. events[n].known
    BY <2>2 DEF TellsAt
  <2>7. TellsAt(events', n + 1)
    <3>1. n + 1 # 1 /\ (n + 1) - 1 = n /\ (n + 1) + 1 = n + 2
      BY <2>2
    <3>. QED
      BY <2>2, <2>3, <2>5, <2>6, <3>1 DEF TellsAt
  <2>8. TellsAt(events', n + 2)
    <3>1. n + 2 # 1 /\ (n + 2) - 1 = n + 1
      BY <2>2
    <3>. QED
      BY <2>2, <2>3, <2>5, <3>1 DEF TellsAt
  <2>9. \A i \in (Len(events) + 1) .. (Len(events) + Len(batch)) : TellsAt(events', i)
    <3>1. \A i \in (n + 1) .. (n + 2) : i = n + 1 \/ i = n + 2
      OBVIOUS
    <3>. QED
      BY <2>4, <2>7, <2>8, <3>1
  <2>10. batch[Len(batch)].sub = s /\ "past_due" = AtStripe(batch[Len(batch)].status) /\ Len(batch) # 0
    <3>1. batch[Len(batch)] = b /\ Len(batch) # 0
      BY <2>4
    <3>. QED
      BY <2>3, <3>1 DEF AtStripe
  <2>. QED
    BY <2>1, <2>2, <2>4, <2>9, <2>10, EventsGoOn
<1>. QED
  BY <1>2, <1>4, <1>5, <1>6, <1>7 DEF StripeActs

-----------------------------------------------------------------------------
(* Deliveries.                                                             *)

(* In order, one event is handled at a time: the last that was claimed.    *)
LEMMA OneIsHandled ==
  ASSUME GateInv, NEW k \in Nat, Reached(k), NEW r \in Requests, req[r] # Idle
  PROVE  /\ k # 0 /\ req[r].event = k /\ req[r].at \in {"subscription", "tenant"}
         /\ \A q \in Requests \ {r} : req[q] = Idle
         /\ req[r].at = "subscription" => RowsAre(k - 1) /\ TenantIs(k - 1)
         /\ req[r].at = "tenant" => RowsAre(k) /\ TenantIs(k - 1) /\ events[k].known
<1>1. k # 0 /\ req[r].event = k
  BY DEF Reached
<1>2. req[r].at \in {"subscription", "tenant"}
  BY DEF GateInv, Busy
<1>3. \A q \in Requests \ {r} : req[q] = Idle
  BY DEF GateInv, AppliedAtMostOnce, Reached
<1>4. \A q \in Requests \ {r} : req[q].at = "none"
  BY <1>3 DEF Idle
<1>. QED
  BY <1>1, <1>2, <1>3, <1>4 DEF Reached

(* A new event is claimed when everything before it was handled.           *)
LEMMA ClaimInOrder ==
  ASSUME GateInv, TypeOK, OrderInv, NEW r \in Requests, NEW n \in DOMAIN events,
         AttemptMarkWebhookEventProcessed(r, n), InOrder(n)
  PROVE  OrderInv'
<1>1. PICK k \in 0 .. Len(events) : Reached(k)
  BY DEF OrderInv
<1>2. /\ events' = events /\ stripe' = stripe /\ row' = row /\ tenant' = tenant
      /\ claimed' = claimed \cup {n} /\ n \in 1 .. Len(events) /\ Len(events) \in Nat
  BY EventIsTyped DEF AttemptMarkWebhookEventProcessed, external, rows
<1>3. (\A i \in DOMAIN events' : TellsAt(events', i)) /\ LastTold'
  BY <1>2 DEF OrderInv, LastTold
<1>4. \A j \in Nat : (RowsAre(j) => RowsAre(j)') /\ (TenantIs(j) => TenantIs(j)')
  BY <1>2 DEF RowsAre, TenantIs, Asks
<1>5. CASE ~NotClaimed(n)
  <2>1. claimed' = claimed /\ req' = req
    BY <1>2, <1>5 DEF AttemptMarkWebhookEventProcessed, NotClaimed
  <2>2. RowsAre(k)' <=> RowsAre(k)
    BY <1>2 DEF RowsAre
  <2>3. Reached(k)'
    BY <1>1, <1>2, <2>1 DEF Reached, RowsAre, TenantIs, Asks
  <2>. QED
    BY <1>1, <1>2, <1>3, <2>3 DEF OrderInv
<1>6. CASE NotClaimed(n)
  <2>1. n \notin claimed /\ claimed = 1 .. k /\ 1 .. (n - 1) \subseteq claimed
    BY <1>1, <1>6 DEF NotClaimed, Reached, InOrder
  <2>2. n = k + 1
    <3>1. n > k
      BY <1>1, <1>2, <2>1
    <3>2. ASSUME n - 1 > k PROVE FALSE
      <4>1. n - 1 \in 1 .. (n - 1)
        BY <1>1, <1>2, <3>2
      <4>2. n - 1 \in 1 .. k
        BY <2>1, <4>1
      <4>. QED
        BY <1>1, <1>2, <3>2, <4>2
    <3>. QED
      BY <1>1, <1>2, <3>1, <3>2
  <2>3. \A q \in Requests : req[q] = Idle
    BY <1>1, <1>2, <2>2 DEF Reached, InOrder
  <2>4. RowsAre(k) /\ TenantIs(k)
    BY <1>1, <2>3 DEF Reached, Idle
  <2>. DEFINE handling == [at |-> "subscription", event |-> n]
  <2>5. req' = [req EXCEPT ![r] = handling]
    BY <1>6 DEF AttemptMarkWebhookEventProcessed
  <2>6. /\ req'[r].at = "subscription" /\ req'[r].event = n
        /\ \A q \in Requests \ {r} : req'[q] = Idle'
    BY <2>3, <2>5 DEF GateInv, Idle
  <2>7. claimed' = 1 .. n /\ n # 0 /\ n - 1 = k
    BY <1>1, <1>2, <2>1, <2>2
  <2>8. Reached(n)'
    <3>1. RowsAre(k)' /\ TenantIs(k)'
      BY <1>1, <1>4, <2>4
    <3>. QED
      BY <2>6, <2>7, <3>1 DEF Reached
  <2>. QED
    BY <1>2, <1>3, <2>8 DEF OrderInv
<1>. QED
  BY <1>5, <1>6

(* The subscription's row after the event that was claimed last.           *)
LEMMA RowFollows ==
  ASSUME TypeOK, OrderInv, NEW k \in 1 .. Len(events), RowsAre(k - 1), NEW e, e = events[k]
  PROVE  /\ e.kind = "checkout" \/ row[e.sub] # "none"
         /\ e.status # "unpaid" => RowAccepts(e.sub, e.status)
         /\ e.status = "unpaid" => ~RowAccepts(e.sub, e.status) /\ RowsAre(k)
         /\ row' = [row EXCEPT ![e.sub] = e.status] /\ events' = events /\ e.status # "unpaid"
              => RowsAre(k)'
<1>1. k \in DOMAIN events /\ k \in Nat /\ k # 0
  BY DEF TypeOK
<1>2. e \in EventType /\ TellsAt(events, k)
  BY <1>1, EventIsTyped DEF OrderInv
<1>3. e.sub \in Subs /\ row \in [Subs -> SubscriptionStatuses \cup {"none"}]
  BY <1>2 DEF EventType, TypeOK
<1>4. /\ e.kind = "checkout" => \A s \in Subs : row[s] \notin Live
      /\ e.kind # "checkout" => \A s \in Subs : row[s] \in Live <=> s = e.sub
  <2>1. CASE k = 1
    <3>1. e.kind = "checkout" /\ k - 1 = 0
      BY <1>2, <2>1 DEF TellsAt
    <3>. QED
      BY <3>1 DEF RowsAre
  <2>2. CASE k # 1
    <3>1. /\ e.kind = "checkout" <=> events[k - 1].kind = "deleted"
          /\ e.kind # "checkout" => e.sub = events[k - 1].sub
      BY <1>2, <2>2 DEF TellsAt
    <3>2. k - 1 # 0
      BY <1>1, <2>2
    <3>. QED
      BY <3>1, <3>2 DEF RowsAre
  <2>. QED
    BY <2>1, <2>2
<1>5. e.kind = "checkout" \/ row[e.sub] # "none"
  BY <1>3, <1>4 DEF Live
<1>6. \A o \in Subs \ {e.sub} : row[o] \notin Live
  BY <1>4
<1>7. e.status # "unpaid" => RowAccepts(e.sub, e.status)
  BY <1>2, <1>6 DEF RowAccepts, EventType, Statuses, SubscriptionStatuses
<1>8. e.status = "unpaid" => ~RowAccepts(e.sub, e.status)
  BY DEF RowAccepts, SubscriptionStatuses
<1>9. e.kind = "deleted" <=> e.status = "cancelled"
  BY <1>2 DEF TellsAt
<1>10. ASSUME e.status = "unpaid" PROVE RowsAre(k)
  <2>1. e.kind # "checkout" /\ e.kind # "deleted"
    BY <1>2, <1>10 DEF TellsAt
  <2>. QED
    BY <1>1, <1>4, <2>1 DEF RowsAre
<1>11. ASSUME row' = [row EXCEPT ![e.sub] = e.status], events' = events, e.status # "unpaid"
       PROVE  RowsAre(k)'
  <2>1. /\ row'[e.sub] = e.status
        /\ \A s \in Subs \ {e.sub} : row'[s] = row[s]
    BY <1>3, <1>11
  <2>2. e.status \in Live <=> e.kind # "deleted"
    BY <1>2, <1>9, <1>11 DEF Live, EventType, Statuses
  <2>. QED
    BY <1>1, <1>6, <1>11, <2>1, <2>2 DEF RowsAre
<1>. QED
  BY <1>5, <1>7, <1>8, <1>10, <1>11

(* "unpaid", and an invoice event that does not name the tenant, leave the *)
(* tenant as it has to be.                                                 *)
LEMMA TenantIsKept ==
  ASSUME TypeOK, OrderInv, NEW k \in 1 .. Len(events), TenantIs(k - 1),
         events[k].status = "unpaid" \/ ~events[k].known
  PROVE  TenantIs(k)
<1>1. k \in DOMAIN events /\ k \in Nat /\ k # 0
  BY DEF TypeOK
<1>2. events[k] \in EventType /\ TellsAt(events, k)
  BY <1>1, EventIsTyped DEF OrderInv
<1>3. k # 1
  BY <1>2 DEF TellsAt
<1>4. k - 1 # 0 /\ k - 1 \in DOMAIN events
  BY <1>1, <1>3 DEF TypeOK
<1>5. events[k - 1] \in EventType /\ TellsAt(events, k - 1)
  BY <1>4, EventIsTyped DEF OrderInv
<1>6. tenant.status # "trial" /\ (tenant.isActive <=> Asks(k - 1))
  BY <1>4 DEF TenantIs
<1>7. CASE ~events[k].known
  <2>1. events[k - 1].known
    BY <1>2, <1>3, <1>7 DEF TellsAt
  <2>2. Asks(k) <=> Asks(k - 1)
    BY <1>7, <2>1 DEF Asks
  <2>. QED
    BY <1>6, <2>2 DEF TenantIs
<1>8. CASE events[k].status = "unpaid" /\ events[k].known
  <2>1. ~Asks(k)
    BY <1>8 DEF Asks
  <2>2. events[k - 1].status = "past_due"
    BY <1>2, <1>3, <1>8 DEF TellsAt
  <2>3. CASE events[k - 1].known
    BY <1>6, <2>1, <2>2, <2>3 DEF TenantIs, Asks
  <2>4. CASE ~events[k - 1].known
    <3>1. k - 1 # 1
      BY <1>5, <2>4 DEF TellsAt
    <3>2. (k - 1) + 1 = k
      BY <1>1
    <3>3. events[(k - 1) - 1].status = "past_due"
      BY <1>5, <1>8, <2>4, <3>1, <3>2 DEF TellsAt
    <3>4. ~Asks(k - 1)
      BY <2>4, <3>3 DEF Asks
    <3>. QED
      BY <1>6, <2>1, <3>4 DEF TenantIs
  <2>. QED
    BY <2>3, <2>4
<1>. QED
  BY <1>7, <1>8

(* Answering the event that was claimed last.                              *)
LEMMA AnswerInOrder ==
  ASSUME GateInv, TypeOK, OrderInv, NEW k \in 1 .. Len(events), Reached(k),
         NEW r \in Requests, req[r] # Idle, Answer(r), UNCHANGED <<external, claimed>>,
         RowsAre(k)', TenantIs(k)'
  PROVE  OrderInv'
<1>1. \A q \in Requests \ {r} : req[q] = Idle
  BY OneIsHandled
<1>2. \A q \in Requests : req'[q] = Idle'
  BY <1>1 DEF Answer, GateInv, Idle
<1>3. events' = events /\ stripe' = stripe /\ claimed' = claimed
  BY DEF external
<1>4. Reached(k)'
  BY <1>2, <1>3 DEF Reached
<1>5. k \in 0 .. Len(events') /\ (\A i \in DOMAIN events' : TellsAt(events', i)) /\ LastTold'
  BY <1>3 DEF OrderInv, LastTold
<1>. QED
  BY <1>4, <1>5 DEF OrderInv

(* The first write of a delivery.                                          *)
LEMMA WriteSubscriptionInOrder ==
  ASSUME GateInv, TypeOK, OrderInv, NEW r \in Requests, WriteSubscription(r)
  PROVE  OrderInv'
<1>1. PICK k \in 0 .. Len(events) : Reached(k)
  BY DEF OrderInv
<1>2. req[r].at = "subscription" /\ req[r] # Idle /\ k \in Nat
  BY DEF WriteSubscription, Handles, Idle, TypeOK
<1>3. /\ k # 0 /\ req[r].event = k /\ RowsAre(k - 1) /\ TenantIs(k - 1)
      /\ \A q \in Requests \ {r} : req[q] = Idle
  BY <1>1, <1>2, OneIsHandled
<1>4. k \in 1 .. Len(events) /\ k \in DOMAIN events
  BY <1>2, <1>3 DEF TypeOK
<1>. PICK e : e = events[k]
  OBVIOUS
<1>5. /\ e.kind = "checkout" \/ row[e.sub] # "none"
      /\ e.status # "unpaid" => RowAccepts(e.sub, e.status)
      /\ e.status = "unpaid" => ~RowAccepts(e.sub, e.status) /\ RowsAre(k)
      /\ row' = [row EXCEPT ![e.sub] = e.status] /\ events' = events /\ e.status # "unpaid"
           => RowsAre(k)'
  BY <1>3, <1>4, RowFollows
<1>6. /\ events' = events /\ stripe' = stripe /\ claimed' = claimed /\ tenant' = tenant
      /\ UNCHANGED <<external, claimed>>
  BY DEF WriteSubscription, external
<1>7. Asked(r) = e
  BY <1>3 DEF Asked
<1>8. \/ /\ RowAccepts(e.sub, e.status) /\ row' = [row EXCEPT ![e.sub] = e.status]
         /\ \/ e.known /\ req' = [req EXCEPT ![r].at = "tenant"]
            \/ ~e.known /\ Answer(r)
      \/ ~RowAccepts(e.sub, e.status) /\ Answer(r) /\ row' = row
  BY <1>5, <1>7 DEF WriteSubscription
<1>9. TenantIs(k) => TenantIs(k)'
  BY <1>6 DEF TenantIs, Asks
<1>10. CASE ~RowAccepts(e.sub, e.status)
  <2>1. e.status = "unpaid" /\ Answer(r) /\ row' = row
    BY <1>5, <1>8, <1>10
  <2>2. RowsAre(k)'
    BY <1>5, <1>6, <2>1 DEF RowsAre
  <2>3. TenantIs(k)'
    BY <1>3, <1>4, <1>9, <2>1, TenantIsKept
  <2>. QED
    BY <1>1, <1>2, <1>4, <1>6, <2>1, <2>2, <2>3, AnswerInOrder
<1>11. CASE RowAccepts(e.sub, e.status) /\ ~e.known
  <2>1. Answer(r) /\ RowsAre(k)'
    BY <1>5, <1>6, <1>8, <1>11
  <2>2. TenantIs(k)'
    BY <1>3, <1>4, <1>9, <1>11, TenantIsKept
  <2>. QED
    BY <1>1, <1>2, <1>4, <1>6, <2>1, <2>2, AnswerInOrder
<1>12. CASE RowAccepts(e.sub, e.status) /\ e.known
  <2>1. RowsAre(k)' /\ req' = [req EXCEPT ![r].at = "tenant"]
    BY <1>5, <1>6, <1>8, <1>12
  <2>2. /\ req'[r].at = "tenant" /\ req'[r].event = k
        /\ \A q \in Requests \ {r} : req'[q] = Idle'
    <3>1. req[r] \in Busy
      BY <1>2 DEF GateInv
    <3>. QED
      BY <1>3, <2>1, <3>1 DEF GateInv, Busy, Idle
  <2>3. TenantIs(k - 1)'
    BY <1>3, <1>6 DEF TenantIs, Asks
  <2>4. events'[k].known /\ claimed' = 1 .. k
    BY <1>1, <1>6, <1>12 DEF Reached
  <2>5. Reached(k)'
    BY <1>3, <2>1, <2>2, <2>3, <2>4 DEF Reached
  <2>6. k \in 0 .. Len(events') /\ (\A i \in DOMAIN events' : TellsAt(events', i)) /\ LastTold'
    BY <1>1, <1>6 DEF OrderInv, LastTold
  <2>. QED
    BY <2>5, <2>6 DEF OrderInv
<1>. QED
  BY <1>10, <1>11, <1>12

(* The second write.                                                       *)
LEMMA WriteTenantInOrder ==
  ASSUME GateInv, TypeOK, OrderInv, NEW r \in Requests, WriteTenant(r)
  PROVE  OrderInv'
<1>1. PICK k \in 0 .. Len(events) : Reached(k)
  BY DEF OrderInv
<1>2. req[r].at = "tenant" /\ req[r] # Idle /\ k \in Nat
  BY DEF WriteTenant, Handles, Idle, TypeOK
<1>3. k # 0 /\ req[r].event = k /\ RowsAre(k) /\ TenantIs(k - 1) /\ events[k].known
  BY <1>1, <1>2, OneIsHandled
<1>4. k \in 1 .. Len(events) /\ k \in DOMAIN events
  BY <1>2, <1>3 DEF TypeOK
<1>5. events[k] \in EventType
  BY <1>4, EventIsTyped
<1>6. /\ events' = events /\ row' = row /\ Answer(r) /\ UNCHANGED <<external, claimed>>
  BY DEF WriteTenant, external
<1>7. RowsAre(k)'
  BY <1>3, <1>6 DEF RowsAre
<1>8. TenantStatus(events[k].status) = events[k].status
  BY <1>5 DEF TenantStatus, EventType, Statuses
<1>9. TenantIs(k)'
  <2>1. CASE events[k].status = "unpaid"
    <3>1. tenant' = tenant
      BY <1>3, <1>8, <2>1 DEF WriteTenant, Asked, TenantStatuses
    <3>2. TenantIs(k)
      BY <1>3, <1>4, <2>1, TenantIsKept
    <3>. QED
      BY <1>6, <3>1, <3>2 DEF TenantIs, Asks
  <2>2. CASE events[k].status # "unpaid"
    <3>1. events[k].status \in TenantStatuses /\ events[k].status # "trial"
      BY <1>5, <2>2 DEF EventType, Statuses, TenantStatuses
    <3>2. tenant' = [status |-> events[k].status, isActive |-> events[k].status = "active"]
      BY <1>3, <1>8, <3>1 DEF WriteTenant, Asked
    <3>3. tenant'.status = events[k].status /\ (tenant'.isActive <=> events[k].status = "active")
      BY <3>2
    <3>. QED
      BY <1>3, <1>6, <3>1, <3>3 DEF TenantIs, Asks
  <2>. QED
    BY <2>1, <2>2
<1>. QED
  BY <1>1, <1>2, <1>4, <1>6, <1>7, <1>9, AnswerInOrder

(* The trial check finds no tenant on trial once an event was handled.     *)
LEMMA TrialCheckInOrder ==
  ASSUME OrderInv, TrialCheck
  PROVE  OrderInv'
<1>1. /\ events' = events /\ stripe' = stripe /\ claimed' = claimed /\ row' = row /\ req' = req
      /\ tenant.status # "trial" => tenant' = tenant
  BY DEF TrialCheck, ListTrials, ExpireTrial, StillOnTrial, external, rows
<1>2. PICK k \in 0 .. Len(events) : Reached(k)
  BY DEF OrderInv
<1>3. ASSUME NEW j PROVE (RowsAre(j) => RowsAre(j)') /\ (TenantIs(j) => TenantIs(j)')
  BY <1>1 DEF RowsAre, TenantIs, Asks
<1>4. Reached(k)'
  BY <1>1, <1>2, <1>3 DEF Reached, Idle
<1>5. k \in 0 .. Len(events') /\ (\A i \in DOMAIN events' : TellsAt(events', i)) /\ LastTold'
  BY <1>1, <1>2 DEF OrderInv, LastTold
<1>. QED
  BY <1>4, <1>5 DEF OrderInv

-----------------------------------------------------------------------------
(* Types.                                                                  *)

(* What Stripe sends is an event, and it has the statuses it has.          *)
LEMMA StripeTypes ==
  ASSUME TypeOK, StripeActs
  PROVE  /\ stripe' \in [Subs -> {"none", "active", "past_due", "unpaid", "canceled"}]
         /\ events' \in Seq(EventType) /\ DOMAIN events \subseteq DOMAIN events'
         /\ UNCHANGED <<claimed, answered, rows, req, trialJob, applied>>
<1>1. ASSUME NEW batch \in Seq(EventType), Sends(batch)
      PROVE  /\ events' \in Seq(EventType) /\ DOMAIN events \subseteq DOMAIN events'
             /\ UNCHANGED <<claimed, answered, rows, req, trialJob, applied>>
  <2>1. /\ events' \in Seq(EventType) /\ Len(events) \in Nat /\ Len(events') = Len(events) + Len(batch)
        /\ DOMAIN events = 1 .. Len(events) /\ DOMAIN events' = 1 .. Len(events')
    BY <1>1, EventsAreAppended
  <2>2. Len(batch) \in Nat
    OBVIOUS
  <2>3. UNCHANGED <<claimed, answered, rows, req, trialJob, applied>>
    BY <1>1 DEF Sends
  <2>. QED
    BY <2>1, <2>2, <2>3
<1>2. ASSUME NEW s \in Subs, NEW from, NEW to \in {"active", "past_due", "unpaid", "canceled"},
             Becomes(s, from, to)
      PROVE  stripe' \in [Subs -> {"none", "active", "past_due", "unpaid", "canceled"}]
  BY <1>2 DEF Becomes, TypeOK
<1>3. ASSUME NEW s \in Subs, NEW kind \in {"checkout", "updated", "deleted", "invoice"},
             NEW st \in Statuses, NEW known \in BOOLEAN
      PROVE  Event(kind, s, st, known) \in EventType
  BY DEF Event, EventType
<1>4. ASSUME NEW s \in Subs, Checkout(s) \/ PaymentRecovers(s) \/ RetriesExhausted(s) \/ Canceled(s)
      PROVE  /\ \E e \in EventType : Sends(<<e>>)
             /\ stripe' \in [Subs -> {"none", "active", "past_due", "unpaid", "canceled"}]
  <2>1. ASSUME Checkout(s)
        PROVE  Sends(<<Event("checkout", s, "active", TRUE)>>) /\ Becomes(s, {"none"}, "active")
    BY <2>1 DEF Checkout
  <2>2. ASSUME PaymentRecovers(s)
        PROVE  Sends(<<Event("updated", s, "active", TRUE)>>) /\ Becomes(s, {"past_due"}, "active")
    BY <2>2 DEF PaymentRecovers
  <2>3. ASSUME RetriesExhausted(s)
        PROVE  Sends(<<Event("updated", s, "unpaid", TRUE)>>) /\ Becomes(s, {"past_due"}, "unpaid")
    BY <2>3 DEF RetriesExhausted
  <2>4. ASSUME Canceled(s)
        PROVE  /\ Sends(<<Event("deleted", s, "cancelled", TRUE)>>)
               /\ Becomes(s, {"active", "past_due", "unpaid"}, "canceled")
    BY <2>4 DEF Canceled
  <2>5. /\ Event("checkout", s, "active", TRUE) \in EventType
        /\ Event("updated", s, "active", TRUE) \in EventType
        /\ Event("updated", s, "unpaid", TRUE) \in EventType
        /\ Event("deleted", s, "cancelled", TRUE) \in EventType
    BY <1>3 DEF Statuses
  <2>. QED
    BY <1>2, <1>4, <2>1, <2>2, <2>3, <2>4, <2>5
<1>5. ASSUME NEW s \in Subs, PaymentFails(s)
      PROVE  /\ \E a \in EventType, b \in EventType : Sends(<<a, b>>)
             /\ Becomes(s, {"active"}, "past_due")
  <2>1. PICK known \in BOOLEAN :
            LET failed == Event("invoice", s, "past_due", known)
                updated == Event("updated", s, "past_due", TRUE)
            IN  Sends(<<failed, updated>>) \/ Sends(<<updated, failed>>)
    BY <1>5 DEF PaymentFails
  <2>. DEFINE failed == Event("invoice", s, "past_due", known)
              updated == Event("updated", s, "past_due", TRUE)
  <2>2. failed \in EventType /\ updated \in EventType
    BY <1>3 DEF Statuses
  <2>3. Sends(<<failed, updated>>) \/ Sends(<<updated, failed>>)
    BY <2>1
  <2>. HIDE DEF failed, updated
  <2>. QED
    BY <1>5, <2>2, <2>3 DEF PaymentFails
<1>6. PICK s \in Subs : Checkout(s) \/ PaymentFails(s) \/ PaymentRecovers(s) \/ RetriesExhausted(s) \/ Canceled(s)
  BY DEF StripeActs
<1>7. CASE PaymentFails(s)
  <2>1. PICK a \in EventType, b \in EventType : Sends(<<a, b>>)
    BY <1>5, <1>7
  <2>2. <<a, b>> \in Seq(EventType)
    OBVIOUS
  <2>. QED
    BY <1>1, <1>2, <1>5, <1>7, <2>1, <2>2
<1>8. CASE ~PaymentFails(s)
  <2>1. PICK e \in EventType : Sends(<<e>>)
    BY <1>4, <1>6, <1>8
  <2>2. <<e>> \in Seq(EventType)
    OBVIOUS
  <2>. QED
    BY <1>1, <1>4, <1>6, <1>8, <2>1, <2>2
<1>. QED
  BY <1>7, <1>8

(* Every step keeps the types.                                             *)
LEMMA TypeStep ==
  ASSUME GateInv, TypeOK, [Next]_vars, GateInv'
  PROVE  TypeOK'
<1>. DEFINE Told ==
       /\ stripe' \in [Subs -> {"none", "active", "past_due", "unpaid", "canceled"}]
       /\ events' \in Seq(EventType) /\ DOMAIN events \subseteq DOMAIN events'
            Books ==
       /\ claimed' \subseteq DOMAIN events' /\ claimed \subseteq claimed'
       /\ answered' \subseteq claimed'
       /\ row' \in [Subs -> SubscriptionStatuses \cup {"none"}]
       /\ tenant' \in [status : TenantStatuses, isActive : BOOLEAN]
       /\ trialJob' \in {"idle", "listed"}
<1>1. Told /\ Books => TypeOK'
  <2>. SUFFICES ASSUME Told, Books PROVE TypeOK'
    OBVIOUS
  <2>1. req' \in [Requests -> {Idle} \cup [at : {"subscription", "tenant"}, event : DOMAIN events']]
    <3>1. req' \in [Requests -> {Idle} \cup [at : {"subscription", "tenant"}, event : claimed']]
      BY DEF GateInv, Busy, Idle
    <3>. QED
      BY <3>1
  <2>2. applied' \in [Numbers -> Nat]
    BY DEF GateInv, Numbers
  <2>3. orderly' \in BOOLEAN
    BY DEF Next, TypeOK, vars
  <2>. QED
    BY <2>1, <2>2, <2>3 DEF TypeOK, EventType, Statuses, SubscriptionStatuses, TenantStatuses, Numbers, Idle
<1>2. /\ stripe \in [Subs -> {"none", "active", "past_due", "unpaid", "canceled"}]
      /\ events \in Seq(EventType)
      /\ claimed \subseteq DOMAIN events /\ answered \subseteq claimed
      /\ row \in [Subs -> SubscriptionStatuses \cup {"none"}]
      /\ tenant \in [status : TenantStatuses, isActive : BOOLEAN]
      /\ trialJob \in {"idle", "listed"}
  BY DEF TypeOK, EventType, Statuses
<1>3. CASE StripeActs
  BY <1>1, <1>2, <1>3, StripeTypes DEF rows
<1>4. CASE UNCHANGED vars
  BY <1>1, <1>2, <1>4 DEF vars
<1>5. CASE TrialCheck
  <2>1. /\ external' = external /\ claimed' = claimed /\ answered' = answered /\ row' = row
        /\ trialJob' = "idle" \/ trialJob' = "listed"
        /\ tenant' = tenant \/ tenant' = [status |-> "past_due", isActive |-> FALSE]
    <3>1. CASE ListTrials
      BY <3>1 DEF ListTrials, rows
    <3>2. CASE ExpireTrial
      <4>1. tenant' = tenant \/ tenant' = [status |-> "past_due", isActive |-> FALSE]
        BY <3>2 DEF ExpireTrial
      <4>. QED
        BY <3>2, <4>1 DEF ExpireTrial
    <3>. QED
      BY <1>5, <3>1, <3>2 DEF TrialCheck
  <2>2. tenant' \in [status : TenantStatuses, isActive : BOOLEAN]
    <3>1. [status |-> "past_due", isActive |-> FALSE] \in [status : TenantStatuses, isActive : BOOLEAN]
      BY DEF TenantStatuses
    <3>2. tenant \in [status : TenantStatuses, isActive : BOOLEAN]
      BY <1>2
    <3>. QED
      BY <2>1, <3>1, <3>2
  <2>. QED
    BY <1>1, <1>2, <2>1, <2>2 DEF external
<1>6. CASE Crash
  BY <1>1, <1>2, <1>6 DEF Crash, external, rows
<1>7. ASSUME NEW r \in Requests, req[r] # Idle PROVE req[r].event \in claimed
  BY <1>7 DEF GateInv, Busy
<1>8. ASSUME NEW r \in Requests, WriteFails(r) PROVE TypeOK'
  <2>1. req[r].event \in claimed
    BY <1>7, <1>8 DEF WriteFails, Handles, Idle
  <2>. QED
    BY <1>1, <1>2, <1>8, <2>1 DEF WriteFails, Answer, external, rows
<1>9. ASSUME NEW r \in Requests, NEW n \in DOMAIN events, AttemptMarkWebhookEventProcessed(r, n)
      PROVE  TypeOK'
  BY <1>1, <1>2, <1>9 DEF AttemptMarkWebhookEventProcessed, external, rows
<1>10. ASSUME NEW r \in Requests, Handles(r, "subscription") \/ Handles(r, "tenant")
       PROVE  Asked(r) \in EventType /\ req[r].event \in claimed
  <2>1. req[r].event \in claimed
    BY <1>7, <1>10 DEF Handles, Idle
  <2>. QED
    BY <1>2, <2>1 DEF Asked
<1>11. ASSUME NEW r \in Requests, WriteSubscription(r) PROVE TypeOK'
  <2>1. Asked(r) \in EventType /\ req[r].event \in claimed
    BY <1>10, <1>11 DEF WriteSubscription
  <2>2. row' \in [Subs -> SubscriptionStatuses \cup {"none"}]
    BY <1>2, <1>11, <2>1 DEF WriteSubscription, RowAccepts, EventType
  <2>3. answered' \subseteq claimed /\ UNCHANGED <<external, claimed, tenant, trialJob>>
    BY <1>2, <1>11, <2>1 DEF WriteSubscription, Answer
  <2>. QED
    BY <1>1, <1>2, <2>2, <2>3 DEF external
<1>12. ASSUME NEW r \in Requests, WriteTenant(r) PROVE TypeOK'
  <2>1. Asked(r) \in EventType /\ req[r].event \in claimed
    BY <1>10, <1>12 DEF WriteTenant
  <2>2. tenant' \in [status : TenantStatuses, isActive : BOOLEAN]
    BY <1>2, <1>12 DEF WriteTenant
  <2>3. answered' \subseteq claimed /\ UNCHANGED <<external, claimed, row, trialJob>>
    BY <1>2, <1>12, <2>1 DEF WriteTenant, Answer
  <2>. QED
    BY <1>1, <1>2, <2>2, <2>3 DEF external
<1>. QED
  BY <1>3, <1>4, <1>5, <1>6, <1>8, <1>9, <1>11, <1>12 DEF Next, Deliver

-----------------------------------------------------------------------------
(* At first nothing was sent, so everything sent was handled.              *)
LEMMA InitBillingInv == Init => BillingInv
<1>. SUFFICES ASSUME Init PROVE BillingInv
  OBVIOUS
<1>1. TypeOK
  BY DEF Init, TypeOK, Numbers, TenantStatuses
<1>2. OrderInv
  <2>1. events = << >> /\ \A r \in Requests : req[r] = Idle
    BY DEF Init
  <2>2. RowsAre(0) /\ TenantIs(0)
    BY DEF Init, RowsAre, TenantIs, Live
  <2>3. claimed = 1 .. 0 /\ 0 \in 0 .. Len(events)
    BY DEF Init
  <2>4. Reached(0)
    BY <2>1, <2>2, <2>3 DEF Reached
  <2>5. LastTold
    BY DEF Init, LastTold
  <2>6. \A i \in DOMAIN events : TellsAt(events, i)
    BY <2>1
  <2>. QED
    BY <2>3, <2>4, <2>5, <2>6 DEF OrderInv
<1>. QED
  BY <1>1, <1>2, InitGateInv DEF BillingInv

(* A step that keeps the order so far keeps what it means.                 *)
LEMMA OrderStep ==
  ASSUME GateInv, TypeOK, orderly => OrderInv, [Next]_vars, orderly'
  PROVE  OrderInv'
<1>1. CASE UNCHANGED vars
  <2>1. OrderInv
    BY <1>1 DEF vars
  <2>2. \A k : Reached(k) => Reached(k)'
    BY <1>1 DEF vars, Reached, RowsAre, TenantIs, Asks, Idle
  <2>. QED
    BY <1>1, <2>1, <2>2 DEF vars, OrderInv, LastTold
<1>2. CASE StripeActs /\ orderly' = (orderly /\ OneSubscription)
  BY <1>2, StripeStep
<1>3. CASE TrialCheck /\ UNCHANGED orderly
  BY <1>3, TrialCheckInOrder
<1>4. ASSUME NEW r \in Requests, Deliver(r) /\ UNCHANGED orderly PROVE OrderInv'
  BY <1>4, WriteSubscriptionInOrder, WriteTenantInOrder DEF Deliver
<1>5. ASSUME NEW r \in Requests, NEW n \in DOMAIN events,
             AttemptMarkWebhookEventProcessed(r, n), orderly' = (orderly /\ InOrder(n))
      PROVE  OrderInv'
  BY <1>5, ClaimInOrder
<1>. QED
  BY <1>1, <1>2, <1>3, <1>4, <1>5 DEF Next

(* Every step keeps the types, and the order where there is one.           *)
LEMMA BillingInvStep == BillingInv /\ [Next]_vars => BillingInv'
<1>. SUFFICES ASSUME BillingInv, [Next]_vars PROVE BillingInv'
  OBVIOUS
<1>1. GateInv'
  BY GateInvStep DEF BillingInv
<1>2. TypeOK'
  BY <1>1, TypeStep DEF BillingInv
<1>3. orderly' => OrderInv'
  BY OrderStep DEF BillingInv
<1>. QED
  BY <1>1, <1>2, <1>3 DEF BillingInv

(* In every reachable state, in order or not.                              *)
THEOREM BillingInvariant == Spec => []BillingInv
BY InitBillingInv, BillingInvStep, PTL DEF Spec

(* Rows and tenants only take statuses their CHECKs allow, and only events *)
(* that Stripe sent are claimed and answered.                              *)
THEOREM BillingTypes == Spec => []TypeOK
<1>1. BillingInv => TypeOK
  BY DEF BillingInv
<1>. QED
  BY <1>1, BillingInvariant, PTL

(* Delivered in order, with repetitions, concurrently with the trial check *)
(* and by any number of handlers: when every event was handled, the tenant *)
(* is active exactly if a subscription is paid, and a row is live exactly  *)
(* if its subscription was not cancelled.                                  *)
THEOREM TenantAgreesWithStripe == Spec => []AgreesWithStripe
<1>1. BillingInv => AgreesWithStripe
  <2>. SUFFICES ASSUME BillingInv, orderly, AllHandled
                PROVE  /\ tenant.isActive <=> Paid
                       /\ \A s \in Subs : row[s] \in Live <=> stripe[s] \notin {"none", "canceled"}
    BY DEF AgreesWithStripe
  <2>1. TypeOK /\ OrderInv
    BY DEF BillingInv
  <2>2. PICK k \in 0 .. Len(events) : Reached(k)
    BY <2>1 DEF OrderInv
  <2>3. Len(events) \in Nat \ {0} /\ DOMAIN events = 1 .. Len(events)
    BY <2>1 DEF AllHandled, TypeOK
  <2>4. k = Len(events)
    <3>1. Len(events) \in DOMAIN events
      BY <2>3
    <3>2. DOMAIN events \subseteq claimed
      BY DEF AllHandled
    <3>3. claimed = 1 .. k
      BY <2>2 DEF Reached
    <3>4. Len(events) \in 1 .. k
      BY <3>1, <3>2, <3>3
    <3>5. k \in 0 .. Len(events) /\ k \in Nat
      BY <2>2, <2>3
    <3>6. \A n \in Nat, j \in Nat : j \in 0 .. n /\ n \in 1 .. j => j = n
      OBVIOUS
    <3>. QED
      BY <2>3, <3>4, <3>5, <3>6
  <2>5. RowsAre(k) /\ TenantIs(k)
    BY <2>2 DEF AllHandled, Reached, Idle
  <2>6. events[k] \in EventType /\ TellsAt(events, k)
    BY <2>1, <2>3, <2>4, EventIsTyped DEF OrderInv
  <2>7. /\ stripe[events[k].sub] = AtStripe(events[k].status)
        /\ \A s \in Subs \ {events[k].sub} : stripe[s] \in {"none", "canceled"}
    BY <2>1, <2>3, <2>4 DEF OrderInv, LastTold
  <2>8. AtStripe(events[k].status) \in {"none", "canceled"} <=> events[k].kind = "deleted"
    BY <2>6 DEF TellsAt, AtStripe, EventType, Statuses
  <2>9. Paid <=> events[k].status = "active"
    BY <2>6, <2>7 DEF Paid, AtStripe, EventType, Statuses
  <2>10. Asks(k) <=> events[k].status = "active"
    <3>1. CASE events[k].known
      BY <3>1 DEF Asks
    <3>2. CASE ~events[k].known
      <4>1. k + 1 \notin DOMAIN events /\ k # 1 /\ events[k].status # "active"
        BY <2>3, <2>4, <2>6, <3>2 DEF TellsAt
      <4>2. events[k - 1].status = "past_due"
        BY <2>6, <3>2, <4>1 DEF TellsAt
      <4>. QED
        BY <3>2, <4>1, <4>2 DEF Asks
    <3>. QED
      BY <3>1, <3>2
  <2>11. tenant.isActive <=> Paid
    BY <2>3, <2>4, <2>5, <2>9, <2>10 DEF TenantIs
  <2>12. ASSUME NEW s \in Subs PROVE row[s] \in Live <=> stripe[s] \notin {"none", "canceled"}
    BY <2>3, <2>4, <2>5, <2>7, <2>8 DEF RowsAre
  <2>. QED
    BY <2>11, <2>12
<1>. QED
  BY <1>1, BillingInvariant, PTL

(* However deliveries are repeated, reordered, interleaved, cut short by a *)
(* crash or failing, no event's handler runs twice.                        *)
THEOREM EventsAreAppliedOnce == Spec => []AppliedAtMostOnce
<1>1. GateInv => AppliedAtMostOnce
  BY DEF GateInv
<1>. QED
  BY <1>1, InitGateInv, GateInvStep, PTL DEF Spec

-----------------------------------------------------------------------------
(* The stock alerts.  What the transactions in progress hold, and which of *)
(* them found which row.                                                   *)
Places == Alerts!Analyzing \cup {"idle", "lots", "tell", "resolve"}
Cached == [filled : BOOLEAN, served : SUBSET Alerts!Callers]
Held == [new : SUBSET Alerts!Rows, saw : SUBSET Alerts!Subjects]

AlertTypes ==
    /\ stock \in [Items -> Levels] /\ soon \subseteq due /\ due \subseteq Lots
    /\ alerts \subseteq Alerts!Rows /\ watched \subseteq Alerts!Subjects /\ redis \in BOOLEAN
    /\ cache \in [Alerts!Caches -> Cached]
    /\ at \in [Alerts!Callers -> Places] /\ told \in [Pods -> SUBSET Alerts!Subjects]
    /\ tx \in [Alerts!Callers -> Held]

(* What an analysis saw needs an alert still, and has one among those the  *)
(* analysis will insert, which no statement has found yet.                 *)
HoldingOK(c) ==
    /\ at[c] # "commit" => tx[c].saw = {}
    /\ tx[c].saw \subseteq Alerts!Needed
    /\ \A w \in tx[c].saw : \E a \in tx[c].new : a.of = w /\ a.foundBy = {}
    /\ \A a \in tx[c].new : Alerts!RecommendsMore(a)

(* A row that speaks for w, and goes only with an analysis that read the   *)
(* need of w itself.                                                       *)
Keeps(a, w) == a.of = w /\ \A c \in a.foundBy : at[c] = "commit" => w \in tx[c].saw
Kept(w) == \E a \in alerts : Keeps(a, w)

AlertsInv ==
    /\ AlertTypes
    /\ \A c \in Alerts!Callers : HoldingOK(c)
    /\ \A a \in alerts : Alerts!RecommendsMore(a)
    /\ watched \subseteq Alerts!Needed
    /\ \A w \in watched : Kept(w)

LEMMA TypesOfAlerts == AlertTypes => Alerts!TypeOK
<1>. SUFFICES ASSUME AlertTypes PROVE Alerts!TypeOK
  OBVIOUS
<1>1. \A c \in Alerts!Callers : tx[c].new \subseteq Alerts!Rows /\ tx[c].saw \subseteq Alerts!Subjects
  BY DEF AlertTypes, Held
<1>. QED
  BY <1>1 DEF AlertTypes, Alerts!TypeOK, Places, Cached

LEMMA AlertsStayRightNow == AlertsInv => AlertsAreRight
<1>. SUFFICES ASSUME AlertsInv PROVE AlertsAreRight
  OBVIOUS
<1>1. \A w \in watched : w \in Alerts!Listed
  BY DEF AlertsInv, Kept, Keeps, Alerts!Listed
<1>. QED
  BY <1>1 DEF AlertsInv, AlertsAreRight, Alerts!WhatNeedsItIsListed,
     Alerts!RecommendedAboveStock

-----------------------------------------------------------------------------
(* What calculateRecommendedStock recommends.                              *)
LEMMA Recommended ==
    ASSUME NEW q \in Nat, NEW u \in Nat, Alerts!classifyAlertLevel(q, u) # "none"
    PROVE  /\ Alerts!calculateRecommendedStock(q, u, Alerts!classifyAlertLevel(q, u)) \in Nat
           /\ Alerts!calculateRecommendedStock(q, u, Alerts!classifyAlertLevel(q, u)) > q
<1>1. CASE q <= 10
  BY <1>1 DEF Alerts!calculateRecommendedStock
<1>2. CASE q > 10 /\ Alerts!LastsAtMost(7, q, u)
  <2>1. u > 0 /\ 30 * q < 8 * u
    BY <1>2 DEF Alerts!LastsAtMost
  <2>2. Alerts!classifyAlertLevel(q, u) = "critical"
    BY <1>2 DEF Alerts!classifyAlertLevel
  <2>3. Alerts!calculateRecommendedStock(q, u, Alerts!classifyAlertLevel(q, u)) = u
    BY <1>2, <2>1, <2>2 DEF Alerts!calculateRecommendedStock
  <2>. QED
    BY <2>1, <2>3
<1>3. CASE q > 10 /\ ~Alerts!LastsAtMost(7, q, u)
  <2>1. Alerts!LastsAtMost(14, q, u) /\ Alerts!classifyAlertLevel(q, u) = "high"
    BY <1>3 DEF Alerts!classifyAlertLevel
  <2>2. u > 0 /\ 30 * q < 15 * u
    BY <1>3, <2>1 DEF Alerts!LastsAtMost
  <2>3. Alerts!calculateRecommendedStock(q, u, Alerts!classifyAlertLevel(q, u)) = (7 * u + 9) \div 10
    BY <1>3, <2>1, <2>2 DEF Alerts!calculateRecommendedStock
  <2>4. PICK n \in Int : n = (7 * u + 9) \div 10 /\ 10 * n <= 7 * u + 9 /\ 7 * u + 9 < 10 * n + 10
    OBVIOUS
  <2>5. n > q
    BY <2>2, <2>4
  <2>. QED
    BY <2>3, <2>4, <2>5
<1>. QED
  BY <1>1, <1>2, <1>3

(* What an analysis of all items and lots inserts.                         *)
Inserts ==
    {Alerts!analyzeInventoryItem(i) : i \in {x \in Items : Alerts!ItemNeeds(x)}}
        \cup Alerts!buildLotExpirationAlerts

LEMMA LotRows ==
    ASSUME AlertTypes
    PROVE  \A a \in Alerts!buildLotExpirationAlerts :
               a \in Alerts!Rows /\ Alerts!RecommendsMore(a) /\ a.foundBy = {}
<1>1. ASSUME NEW lot \in due
      PROVE  /\ Alerts!Alert(lot, "lot_expiration", 0, 0) \in Alerts!Rows
             /\ Alerts!Alert(lot, "lot_expiration", 0, 0).type = "lot_expiration"
             /\ Alerts!Alert(lot, "lot_expiration", 0, 0).foundBy = {}
  <2>1. lot \in Alerts!Subjects /\ {} \in SUBSET Alerts!Callers
    BY DEF AlertTypes, Alerts!Subjects
  <2>. QED
    BY <2>1 DEF Alerts!Alert, Alerts!Rows, Alerts!Types
<1>. QED
  BY <1>1, Zenon DEF Alerts!buildLotExpirationAlerts, Alerts!RecommendsMore

LEMMA ItemRows ==
    ASSUME AlertTypes, NEW i \in Items, Alerts!ItemNeeds(i)
    PROVE  /\ Alerts!analyzeInventoryItem(i) \in Alerts!Rows
           /\ Alerts!RecommendsMore(Alerts!analyzeInventoryItem(i))
           /\ Alerts!analyzeInventoryItem(i).of = i /\ Alerts!analyzeInventoryItem(i).foundBy = {}
<1>1. stock[i].quantity \in Nat /\ stock[i].used \in Nat
  BY AlertsAssumption DEF AlertTypes
<1>2. PICK q \in Nat, u \in Nat : q = stock[i].quantity /\ u = stock[i].used
  BY <1>1
<1>3. PICK r : r = Alerts!calculateRecommendedStock(q, u, Alerts!classifyAlertLevel(q, u))
  OBVIOUS
<1>4. r \in Nat /\ r > q
  BY <1>2, <1>3, Recommended DEF Alerts!ItemNeeds
<1>5. PICK type : type = Alerts!classifyAlertType(q)
  OBVIOUS
<1>6. type \in Alerts!Types
  BY <1>5 DEF Alerts!classifyAlertType, Alerts!Types
<1>7. Alerts!analyzeInventoryItem(i) = Alerts!Alert(i, type, q, r)
  BY <1>2, <1>3, <1>5, Zenon DEF Alerts!analyzeInventoryItem
<1>8. i \in Alerts!Subjects
  BY DEF Alerts!Subjects
<1>. QED
  BY <1>2, <1>4, <1>6, <1>7, <1>8 DEF Alerts!Alert, Alerts!Rows, Alerts!RecommendsMore

LEMMA InsertsAreRight ==
    ASSUME AlertTypes
    PROVE  /\ \A a \in Inserts : a \in Alerts!Rows /\ Alerts!RecommendsMore(a)
           /\ \A w \in Alerts!Needed : \E a \in Inserts : a.of = w /\ a.foundBy = {}
<1>1. \A a \in Inserts : a \in Alerts!Rows /\ Alerts!RecommendsMore(a)
  BY ItemRows, LotRows DEF Inserts
<1>2. ASSUME NEW w \in Alerts!Needed PROVE \E a \in Inserts : a.of = w /\ a.foundBy = {}
  <2>1. CASE w \in Items /\ Alerts!ItemNeeds(w)
    BY <2>1, ItemRows DEF Inserts
  <2>2. CASE w \in due
    <3>1. Alerts!Alert(w, "lot_expiration", 0, 0) \in Alerts!buildLotExpirationAlerts
      BY <2>2 DEF Alerts!buildLotExpirationAlerts
    <3>2. Alerts!Alert(w, "lot_expiration", 0, 0).of = w
      BY DEF Alerts!Alert
    <3>. QED
      BY <3>1, <3>2, LotRows DEF Inserts
  <2>. QED
    BY <2>1, <2>2 DEF Alerts!Needed
<1>. QED
  BY <1>1, <1>2

-----------------------------------------------------------------------------
(* What the transactions do to a row keeps what it recommends.             *)
LEMMA RowEdits ==
    ASSUME NEW a \in Alerts!Rows, NEW c \in Alerts!Callers
    PROVE  /\ [a EXCEPT !.foundBy = @ \cup {c}] \in Alerts!Rows
           /\ [a EXCEPT !.foundBy = @ \cup {c}].of = a.of
           /\ [a EXCEPT !.foundBy = @ \cup {c}].foundBy = a.foundBy \cup {c}
           /\ Alerts!RecommendsMore(a) => Alerts!RecommendsMore([a EXCEPT !.foundBy = @ \cup {c}])
           /\ [a EXCEPT !.foundBy = @ \ {c}] \in Alerts!Rows
           /\ [a EXCEPT !.foundBy = @ \ {c}].of = a.of
           /\ [a EXCEPT !.foundBy = @ \ {c}].foundBy = a.foundBy \ {c}
           /\ Alerts!RecommendsMore(a) => Alerts!RecommendsMore([a EXCEPT !.foundBy = @ \ {c}])
           /\ [a EXCEPT !.resolved = TRUE] \in Alerts!Rows
           /\ [a EXCEPT !.resolved = TRUE].of = a.of
           /\ [a EXCEPT !.resolved = TRUE].foundBy = a.foundBy
           /\ Alerts!RecommendsMore(a) => Alerts!RecommendsMore([a EXCEPT !.resolved = TRUE])
           /\ [a EXCEPT !.resolved = TRUE, !.foundBy = {}] \in Alerts!Rows
           /\ Alerts!RecommendsMore(a) => Alerts!RecommendsMore([a EXCEPT !.resolved = TRUE, !.foundBy = {}])
BY DEF Alerts!Rows, Alerts!RecommendsMore

(* A set of rows after a step of c: right ones, and one for each that was  *)
(* there, which at most c found besides.                                   *)
Right(some) == some \subseteq Alerts!Rows /\ \A a \in some : Alerts!RecommendsMore(a)
Follows(some, c) ==
    \A a \in alerts : \E b \in some : b.of = a.of /\ b.foundBy \subseteq a.foundBy \cup {c}

LEMMA FindsFollow ==
    ASSUME AlertsInv, NEW c \in Alerts!Callers, NEW some
    PROVE  Right(Alerts!Finds(c, some)) /\ Follows(Alerts!Finds(c, some), c)
<1>1. \A a \in alerts : a \in Alerts!Rows /\ Alerts!RecommendsMore(a)
  BY DEF AlertsInv, AlertTypes
<1>2. Right(Alerts!Finds(c, some))
  <2>1. ASSUME NEW b \in Alerts!Finds(c, some) PROVE b \in Alerts!Rows /\ Alerts!RecommendsMore(b)
    <3>1. PICK a \in alerts : b = IF a \in some THEN [a EXCEPT !.foundBy = @ \cup {c}] ELSE a
      BY DEF Alerts!Finds
    <3>. QED
      BY <1>1, <3>1, RowEdits
  <2>. QED
    BY <2>1 DEF Right
<1>3. ASSUME NEW a \in alerts
      PROVE  \E b \in Alerts!Finds(c, some) : b.of = a.of /\ b.foundBy \subseteq a.foundBy \cup {c}
  <2>1. CASE a \in some
    <3>1. [a EXCEPT !.foundBy = @ \cup {c}] \in Alerts!Finds(c, some)
      BY <2>1, Zenon DEF Alerts!Finds
    <3>2. /\ [a EXCEPT !.foundBy = @ \cup {c}].of = a.of
          /\ [a EXCEPT !.foundBy = @ \cup {c}].foundBy = a.foundBy \cup {c}
      BY <1>1, RowEdits
    <3>. QED
      BY <3>1, <3>2
  <2>2. CASE a \notin some
    <3>1. a \in Alerts!Finds(c, some)
      BY <2>2, Zenon DEF Alerts!Finds
    <3>. QED
      BY <3>1
  <2>. QED
    BY <2>1, <2>2
<1>. QED
  BY <1>2, <1>3 DEF Follows

LEMMA WithoutFollow ==
    ASSUME AlertsInv, NEW c \in Alerts!Callers
    PROVE  Right(Alerts!Without(c, alerts)) /\ Follows(Alerts!Without(c, alerts), c)
<1>1. \A a \in alerts : a \in Alerts!Rows /\ Alerts!RecommendsMore(a)
  BY DEF AlertsInv, AlertTypes
<1>2. Right(Alerts!Without(c, alerts))
  <2>1. ASSUME NEW b \in Alerts!Without(c, alerts) PROVE b \in Alerts!Rows /\ Alerts!RecommendsMore(b)
    <3>1. PICK a \in alerts : b = [a EXCEPT !.foundBy = @ \ {c}]
      BY DEF Alerts!Without
    <3>. QED
      BY <1>1, <3>1, RowEdits
  <2>. QED
    BY <2>1 DEF Right
<1>3. ASSUME NEW a \in alerts
      PROVE  \E b \in Alerts!Without(c, alerts) : b.of = a.of /\ b.foundBy \subseteq a.foundBy \cup {c}
  <2>1. [a EXCEPT !.foundBy = @ \ {c}] \in Alerts!Without(c, alerts)
    BY Zenon DEF Alerts!Without
  <2>2. /\ [a EXCEPT !.foundBy = @ \ {c}].of = a.of
        /\ [a EXCEPT !.foundBy = @ \ {c}].foundBy = a.foundBy \ {c}
    BY <1>1, RowEdits
  <2>. QED
    BY <2>1, <2>2
<1>. QED
  BY <1>2, <1>3 DEF Follows

LEMMA SavedFollow ==
    ASSUME AlertsInv, NEW c \in Alerts!Callers
    PROVE  /\ Right((alerts \ Alerts!FoundBy(c)) \cup Alerts!Saved(c))
           /\ Follows((alerts \ Alerts!FoundBy(c)) \cup Alerts!Saved(c), c)
<1>1. \A a \in alerts : a \in Alerts!Rows /\ Alerts!RecommendsMore(a)
  BY DEF AlertsInv, AlertTypes
<1>2. \A a \in tx[c].new : a \in Alerts!Rows /\ Alerts!RecommendsMore(a)
  BY DEF AlertsInv, AlertTypes, Held, HoldingOK
<1>3. ASSUME NEW a \in Alerts!FoundBy(c)
      PROVE  \E b \in Alerts!Saved(c) : b.of = a.of /\ b.foundBy \subseteq a.foundBy \cup {c}
  <2>1. a \in alerts /\ Alerts!FoundBy(c) # {}
    BY DEF Alerts!FoundBy
  <2>2. PICK d : d = [a EXCEPT !.foundBy = @ \ {c}]
    OBVIOUS
  <2>3. d \in Alerts!Without(c, Alerts!FoundBy(c))
    BY <2>2, Zenon DEF Alerts!Without
  <2>4. d \in Alerts!Rows /\ d.of = a.of /\ d.foundBy = a.foundBy \ {c}
    BY <1>1, <2>1, <2>2, RowEdits
  <2>5. [d EXCEPT !.resolved = TRUE] \in Alerts!Saved(c)
    BY <2>1, <2>3, Zenon DEF Alerts!Saved
  <2>6. [d EXCEPT !.resolved = TRUE].of = a.of /\ [d EXCEPT !.resolved = TRUE].foundBy = a.foundBy \ {c}
    BY <2>4, RowEdits
  <2>. QED
    BY <2>5, <2>6
<1>4. ASSUME NEW b \in Alerts!Saved(c) PROVE b \in Alerts!Rows /\ Alerts!RecommendsMore(b)
  <2>1. CASE Alerts!FoundBy(c) = {}
    BY <1>2, <2>1 DEF Alerts!Saved
  <2>2. CASE Alerts!FoundBy(c) # {}
    <3>1. PICK d \in Alerts!Without(c, Alerts!FoundBy(c)) : b = [d EXCEPT !.resolved = TRUE]
      BY <2>2 DEF Alerts!Saved
    <3>2. PICK a \in Alerts!FoundBy(c) : d = [a EXCEPT !.foundBy = @ \ {c}]
      BY DEF Alerts!Without
    <3>3. a \in Alerts!Rows /\ Alerts!RecommendsMore(a)
      BY <1>1 DEF Alerts!FoundBy
    <3>. QED
      BY <3>1, <3>2, <3>3, RowEdits
  <2>. QED
    BY <2>1, <2>2
<1>. QED
  BY <1>1, <1>3, <1>4 DEF Right, Follows

LEMMA LotsFollow ==
    ASSUME AlertsInv, NEW c \in Alerts!Callers
    PROVE  /\ Right(alerts \cup Alerts!buildLotExpirationAlerts)
           /\ Follows(alerts \cup Alerts!buildLotExpirationAlerts, c)
BY LotRows DEF AlertsInv, AlertTypes, Right, Follows

LEMMA SameFollow ==
    ASSUME AlertsInv, NEW c \in Alerts!Callers
    PROVE  Right(alerts) /\ Follows(alerts, c)
BY DEF AlertsInv, AlertTypes, Right, Follows

-----------------------------------------------------------------------------
LEMMA StillKept ==
    ASSUME NEW c \in Alerts!Callers, NEW w, NEW a, Keeps(a, w), NEW b \in alerts',
           b.of = w, b.foundBy \subseteq Alerts!Callers, b.foundBy \subseteq a.foundBy \cup {c},
           \A d \in Alerts!Callers \ {c} : at'[d] = at[d] /\ tx'[d] = tx[d],
           c \in b.foundBy /\ at'[c] = "commit" => w \in tx'[c].saw
    PROVE  Kept(w)'
<1>1. ASSUME NEW d \in b.foundBy, at'[d] = "commit" PROVE w \in tx'[d].saw
  <2>1. CASE d = c
    BY <1>1, <2>1
  <2>2. CASE d # c
    BY <1>1, <2>2 DEF Keeps
  <2>. QED
    BY <2>1, <2>2
<1>. QED
  BY <1>1 DEF Kept, Keeps

LEMMA SameNeeds == ASSUME UNCHANGED Alerts!world PROVE Alerts!Needed' = Alerts!Needed
BY DEF Alerts!world, Alerts!Needed, Alerts!ItemNeeds

LEMMA SameHolding ==
    ASSUME AlertsInv, UNCHANGED Alerts!world, NEW d \in Alerts!Callers, at'[d] = at[d], tx'[d] = tx[d]
    PROVE  HoldingOK(d)'
<1>1. HoldingOK(d)
  BY DEF AlertsInv
<1>. QED
  BY <1>1, SameNeeds DEF HoldingOK, Alerts!RecommendsMore

(* A step of one caller, other than to read or to commit an analysis.      *)
LEMMA CallerMoves ==
    ASSUME AlertsInv, NEW c \in Alerts!Callers, NEW place \in Places \ {"commit"}, NEW held \in Held,
           at' = [at EXCEPT ![c] = place], tx' = [tx EXCEPT ![c] = held],
           held.saw = {}, \A a \in held.new : Alerts!RecommendsMore(a),
           UNCHANGED <<Alerts!world, watched, redis>>,
           cache' \in [Alerts!Caches -> Cached],
           told' \in [Pods -> SUBSET Alerts!Subjects],
           Right(alerts'), Follows(alerts', c)
    PROVE  AlertsInv'
<1>1. /\ at'[c] = place /\ tx'[c] = held
      /\ \A d \in Alerts!Callers \ {c} : at'[d] = at[d] /\ tx'[d] = tx[d]
  BY DEF AlertsInv, AlertTypes
<1>2. HoldingOK(c)'
  BY <1>1 DEF HoldingOK, Alerts!RecommendsMore
<1>3. ASSUME NEW d \in Alerts!Callers PROVE HoldingOK(d)'
  BY <1>1, <1>2, SameHolding
<1>4. ASSUME NEW w \in watched PROVE Kept(w)'
  <2>1. PICK a \in alerts : Keeps(a, w)
    BY DEF AlertsInv, Kept
  <2>2. PICK b \in alerts' : b.of = a.of /\ b.foundBy \subseteq a.foundBy \cup {c}
    BY DEF Follows
  <2>3. b.of = w /\ b.foundBy \subseteq Alerts!Callers
    BY <2>1, <2>2 DEF Keeps, Right, Alerts!Rows
  <2>. QED
    BY <1>1, <2>1, <2>2, <2>3, StillKept
<1>5. \A a \in alerts' : Alerts!RecommendsMore(a)'
  BY DEF Right, Alerts!RecommendsMore
<1>6. watched' \subseteq Alerts!Needed'
  BY SameNeeds DEF AlertsInv
<1>7. AlertTypes'
  BY DEF AlertsInv, AlertTypes, Right, Alerts!world
<1>. QED
  BY <1>3, <1>4, <1>5, <1>6, <1>7 DEF AlertsInv

LEMMA SameHeld ==
    ASSUME AlertsInv, NEW c \in Alerts!Callers, at[c] # "commit"
    PROVE  /\ tx[c] \in Held /\ tx = [tx EXCEPT ![c] = tx[c]]
           /\ tx[c].saw = {} /\ \A a \in tx[c].new : Alerts!RecommendsMore(a)
BY DEF AlertsInv, AlertTypes, HoldingOK

LEMMA NothingHeld == Alerts!Nothing \in Held /\ Alerts!Nothing.saw = {} /\ Alerts!Nothing.new = {}
BY DEF Alerts!Nothing, Held

LEMMA TypesOfTold ==
    ASSUME AlertsInv
    PROVE  /\ cache \in [Alerts!Caches -> Cached]
           /\ told \in [Pods -> SUBSET Alerts!Subjects]
           /\ Pods \subseteq Alerts!Callers /\ Requesters \subseteq Alerts!Callers
BY DEF AlertsInv, AlertTypes, Alerts!Callers

-----------------------------------------------------------------------------
LEMMA InitAlerts == Alerts!Init => AlertsInv
<1>. SUFFICES ASSUME Alerts!Init PROVE AlertsInv
  OBVIOUS
<1>1. /\ cache \in [Alerts!Caches -> Cached]
      /\ at \in [Alerts!Callers -> Places] /\ told \in [Pods -> SUBSET Alerts!Subjects]
  BY DEF Alerts!Init, Alerts!NoCache, Places, Cached
<1>2. tx \in [Alerts!Callers -> Held]
  BY NothingHeld DEF Alerts!Init
<1>3. AlertTypes
  BY <1>1, <1>2 DEF Alerts!Init, AlertTypes
<1>4. \A c \in Alerts!Callers : HoldingOK(c)
  BY NothingHeld DEF Alerts!Init, HoldingOK
<1>. QED
  BY <1>3, <1>4 DEF Alerts!Init, AlertsInv

(* Where stock moves, nobody watches what needs nothing any more.          *)
LEMMA LookKeeps ==
    ASSUME AlertsInv, Alerts!Look, stock' \in [Items -> Levels], soon' \subseteq due', due' \subseteq Lots,
           UNCHANGED <<alerts, redis, cache, at, told>>
    PROVE  AlertsInv'
<1>1. ASSUME NEW c \in Alerts!Callers
      PROVE  tx'[c].new = tx[c].new /\ tx'[c].saw = tx[c].saw \cap Alerts!Needed' /\ tx'[c] \in Held
  <2>1. tx[c] \in Held /\ tx'[c] = [tx[c] EXCEPT !.saw = @ \cap Alerts!Needed']
    BY DEF Alerts!Look, AlertsInv, AlertTypes
  <2>. QED
    BY <2>1 DEF Held
<1>2. AlertTypes'
  <2>1. tx' \in [Alerts!Callers -> Held]
    BY <1>1 DEF Alerts!Look
  <2>2. watched' \subseteq Alerts!Subjects
    BY DEF Alerts!Look, AlertsInv, AlertTypes
  <2>. QED
    BY <2>1, <2>2 DEF AlertsInv, AlertTypes
<1>3. ASSUME NEW c \in Alerts!Callers PROVE HoldingOK(c)'
  <2>1. HoldingOK(c)
    BY DEF AlertsInv
  <2>. QED
    BY <1>1, <2>1 DEF HoldingOK, Alerts!RecommendsMore
<1>4. ASSUME NEW w \in watched' PROVE Kept(w)'
  <2>1. w \in watched /\ w \in Alerts!Needed'
    BY DEF Alerts!Look
  <2>2. PICK a \in alerts : Keeps(a, w)
    BY <2>1 DEF AlertsInv, Kept
  <2>3. \A c \in a.foundBy : c \in Alerts!Callers
    BY DEF AlertsInv, AlertTypes, Alerts!Rows
  <2>. QED
    BY <1>1, <2>1, <2>2, <2>3 DEF Kept, Keeps
<1>5. watched' \subseteq Alerts!Needed' /\ \A a \in alerts' : Alerts!RecommendsMore(a)'
  BY DEF Alerts!Look, AlertsInv, Alerts!RecommendsMore
<1>. QED
  BY <1>2, <1>3, <1>4, <1>5 DEF AlertsInv

LEMMA WorldKeeps == ASSUME AlertsInv, Alerts!World PROVE AlertsInv'
<1>1. ASSUME NEW i \in Items, NEW level \in Levels, Alerts!StockChanges(i, level) PROVE AlertsInv'
  <2>1. stock' \in [Items -> Levels] /\ soon' \subseteq due' /\ due' \subseteq Lots
    BY <1>1 DEF Alerts!StockChanges, AlertsInv, AlertTypes
  <2>. QED
    BY <1>1, <2>1, LookKeeps DEF Alerts!StockChanges
<1>2. ASSUME NEW lot \in Lots, Alerts!LotChanges(lot) PROVE AlertsInv'
  <2>1. stock' \in [Items -> Levels] /\ soon' \subseteq due' /\ due' \subseteq Lots
    BY <1>2 DEF Alerts!LotChanges, AlertsInv, AlertTypes
  <2>. QED
    BY <1>2, <2>1, LookKeeps DEF Alerts!LotChanges
<1>. QED
  BY <1>1, <1>2 DEF Alerts!World

LEMMA ExpireKeeps == ASSUME AlertsInv, NEW m \in Alerts!Caches, Alerts!Expire(m) PROVE AlertsInv'
<1>1. cache' \in [Alerts!Caches -> Cached]
  BY DEF Alerts!Expire, Alerts!NoCache, Cached, AlertsInv, AlertTypes
<1>2. UNCHANGED <<stock, due, soon, alerts, watched, redis, at, tx, told>>
  BY DEF Alerts!Expire, Alerts!world, Alerts!rows
<1>3. AlertTypes'
  BY <1>1, <1>2 DEF AlertsInv, AlertTypes
<1>4. Alerts!Needed' = Alerts!Needed /\ \A c \in Alerts!Callers : HoldingOK(c)'
  BY <1>2, SameNeeds, SameHolding DEF Alerts!world
<1>. QED
  BY <1>2, <1>3, <1>4 DEF AlertsInv, Alerts!RecommendsMore, Kept, Keeps

-----------------------------------------------------------------------------
(* The steps of an analysis.                                               *)
LEMMA ReadKeeps ==
    ASSUME AlertsInv, NEW c \in Alerts!Callers, Alerts!ReadInventory(c)
    PROVE  AlertsInv'
<1>1. /\ UNCHANGED <<stock, due, soon, alerts, watched, redis, cache, told>>
      /\ at' = [at EXCEPT ![c] = "commit"]
      /\ tx' = [tx EXCEPT ![c].new = Inserts, ![c].saw = Alerts!Needed]
  BY Zenon DEF Alerts!ReadInventory, Alerts!Goes, Alerts!world, Alerts!rows, Inserts
<1>2. /\ tx'[c].new = Inserts /\ tx'[c].saw = Alerts!Needed /\ at'[c] = "commit"
      /\ \A d \in Alerts!Callers \ {c} : at'[d] = at[d] /\ tx'[d] = tx[d]
  BY <1>1 DEF AlertsInv, AlertTypes, Held
<1>3. Alerts!Needed' = Alerts!Needed
  BY <1>1, SameNeeds DEF Alerts!world
<1>4. AlertTypes'
  <2>1. Inserts \subseteq Alerts!Rows /\ Alerts!Needed \subseteq Alerts!Subjects
    BY InsertsAreRight DEF AlertsInv, AlertTypes, Alerts!Needed, Alerts!Subjects
  <2>2. at' \in [Alerts!Callers -> Places] /\ tx' \in [Alerts!Callers -> Held]
    BY <1>1, <2>1 DEF AlertsInv, AlertTypes, Held, Places, Alerts!Analyzing
  <2>. QED
    BY <1>1, <2>2 DEF AlertsInv, AlertTypes
<1>5. HoldingOK(c)'
  <2>1. /\ \A a \in Inserts : Alerts!RecommendsMore(a)
        /\ \A w \in Alerts!Needed : \E a \in Inserts : a.of = w /\ a.foundBy = {}
    BY InsertsAreRight DEF AlertsInv
  <2>. QED
    BY <1>2, <1>3, <2>1 DEF HoldingOK, Alerts!RecommendsMore
<1>6. ASSUME NEW d \in Alerts!Callers PROVE HoldingOK(d)'
  BY <1>1, <1>2, <1>5, SameHolding DEF Alerts!world
<1>7. ASSUME NEW w \in watched PROVE Kept(w)'
  <2>1. PICK a \in alerts : Keeps(a, w)
    BY DEF AlertsInv, Kept
  <2>2. w \in Alerts!Needed /\ a.foundBy \subseteq Alerts!Callers
    BY DEF AlertsInv, AlertTypes, Alerts!Rows
  <2>3. a \in alerts' /\ a.of = w /\ w \in tx'[c].saw
    BY <1>1, <1>2, <2>1, <2>2 DEF Keeps
  <2>. QED
    BY <1>2, <2>1, <2>2, <2>3, StillKept
<1>. QED
  BY <1>1, <1>3, <1>4, <1>6, <1>7 DEF AlertsInv, Alerts!RecommendsMore

(* The rows the analysis found go; of those that speak for what is         *)
(* watched, it read the need itself.                                       *)
LEMMA CommitKeeps ==
    ASSUME AlertsInv, NEW c \in Alerts!Callers, Alerts!CommitAnalysis(c)
    PROVE  AlertsInv'
<1>1. /\ UNCHANGED <<stock, due, soon, redis, told>> /\ at[c] = "commit"
      /\ alerts' = (alerts \ Alerts!FoundBy(c)) \cup tx[c].new /\ watched' = watched \cup tx[c].saw
      /\ at' = [at EXCEPT ![c] = Alerts!After(c)] /\ tx' = [tx EXCEPT ![c] = Alerts!Nothing]
  BY DEF Alerts!CommitAnalysis, Alerts!Goes, Alerts!Leave, Alerts!world, Alerts!Remaining
<1>2. Alerts!After(c) \in Places /\ Alerts!After(c) # "commit"
  BY DEF Alerts!After, Places
<1>3. /\ at'[c] = Alerts!After(c) /\ tx'[c] = Alerts!Nothing
      /\ \A d \in Alerts!Callers \ {c} : at'[d] = at[d] /\ tx'[d] = tx[d]
  BY <1>1 DEF AlertsInv, AlertTypes
<1>4. Alerts!Needed' = Alerts!Needed
  BY <1>1, SameNeeds DEF Alerts!world
<1>5. tx[c].new \subseteq Alerts!Rows /\ tx[c].saw \subseteq Alerts!Subjects /\ HoldingOK(c)
  BY DEF AlertsInv, AlertTypes, Held
<1>6. cache' \in [Alerts!Caches -> Cached]
  <2>1. \A m : [cache EXCEPT ![m] = [filled |-> TRUE, served |-> {c}]] \in [Alerts!Caches -> Cached]
    BY DEF Cached, AlertsInv, AlertTypes
  <2>. QED
    BY <2>1 DEF Alerts!CommitAnalysis, AlertsInv, AlertTypes
<1>7. AlertTypes'
  <2>1. at' \in [Alerts!Callers -> Places] /\ tx' \in [Alerts!Callers -> Held]
    BY <1>1, <1>2, NothingHeld DEF AlertsInv, AlertTypes
  <2>2. alerts' \subseteq Alerts!Rows /\ watched' \subseteq Alerts!Subjects
    BY <1>1, <1>5 DEF AlertsInv, AlertTypes
  <2>. QED
    BY <1>1, <1>6, <2>1, <2>2 DEF AlertsInv, AlertTypes
<1>8. HoldingOK(c)'
  BY <1>3, NothingHeld DEF HoldingOK
<1>9. ASSUME NEW d \in Alerts!Callers PROVE HoldingOK(d)'
  BY <1>1, <1>3, <1>8, SameHolding DEF Alerts!world
<1>10. ASSUME NEW w \in watched' PROVE Kept(w)'
  <2>1. CASE w \in tx[c].saw
    <3>1. PICK a \in tx[c].new : a.of = w /\ a.foundBy = {}
      BY <1>5, <2>1 DEF HoldingOK
    <3>. QED
      BY <1>1, <3>1 DEF Kept, Keeps
  <2>2. CASE w \in watched \ tx[c].saw
    <3>1. PICK a \in alerts : Keeps(a, w)
      BY <2>2 DEF AlertsInv, Kept
    <3>2. c \notin a.foundBy
      BY <1>1, <2>2, <3>1 DEF Keeps
    <3>3. a \in alerts' /\ a.foundBy \subseteq Alerts!Callers
      BY <1>1, <3>2 DEF Alerts!FoundBy, AlertsInv, AlertTypes, Alerts!Rows
    <3>4. a.of = w
      BY <3>1 DEF Keeps
    <3>. QED
      BY <1>3, <3>1, <3>2, <3>3, <3>4, StillKept
  <2>. QED
    BY <1>1, <2>1, <2>2
<1>11. watched' \subseteq Alerts!Needed'
  BY <1>1, <1>4, <1>5 DEF AlertsInv, HoldingOK
<1>12. \A a \in alerts' : Alerts!RecommendsMore(a)'
  BY <1>1, <1>5 DEF AlertsInv, HoldingOK, Alerts!RecommendsMore
<1>. QED
  BY <1>7, <1>9, <1>10, <1>11, <1>12 DEF AlertsInv

LEMMA AnalyzeKeeps ==
    ASSUME AlertsInv, NEW c \in Alerts!Callers, Alerts!Analyze(c)
    PROVE  AlertsInv'
<1>1. CASE Alerts!ServeCached(c)
  <2>1. /\ at[c] # "commit" /\ at' = [at EXCEPT ![c] = Alerts!After(c)]
        /\ UNCHANGED <<Alerts!world, watched, redis, alerts, tx, told>>
        /\ cache' = [cache EXCEPT ![Alerts!CacheOf(c)].served = @ \cup {c}]
    BY <1>1 DEF Alerts!ServeCached, Alerts!Goes, Alerts!rows
  <2>2. Alerts!After(c) \in Places \ {"commit"}
    BY DEF Alerts!After, Places
  <2>3. cache' \in [Alerts!Caches -> Cached]
    <3>1. \A m \in Alerts!Caches : cache[m] \in Cached /\ cache[m].served \cup {c} \in SUBSET Alerts!Callers
      BY TypesOfTold DEF Cached
    <3>2. \A m \in Alerts!Caches : [cache[m] EXCEPT !.served = @ \cup {c}] \in Cached
      BY <3>1 DEF Cached
    <3>. QED
      BY <2>1, <3>2, TypesOfTold
  <2>. QED
    BY <2>1, <2>2, <2>3, SameHeld, SameFollow, TypesOfTold, CallerMoves
<1>2. CASE Alerts!BeginAnalysis(c)
  <2>1. /\ at[c] # "commit" /\ at' = [at EXCEPT ![c] = "delete"] /\ alerts' = Alerts!Finds(c, alerts)
        /\ UNCHANGED <<Alerts!world, watched, redis, cache, tx, told>>
    BY <1>2 DEF Alerts!BeginAnalysis, Alerts!Goes
  <2>2. "delete" \in Places \ {"commit"}
    BY DEF Places, Alerts!Analyzing
  <2>. QED
    BY <2>1, <2>2, SameHeld, FindsFollow, TypesOfTold, CallerMoves
<1>3. CASE Alerts!DeleteAlerts(c)
  <2>1. /\ at[c] # "commit" /\ at' = [at EXCEPT ![c] = "read"]
        /\ UNCHANGED <<Alerts!world, watched, redis, alerts, cache, tx, told>>
    BY <1>3 DEF Alerts!DeleteAlerts, Alerts!Goes, Alerts!rows
  <2>2. "read" \in Places \ {"commit"}
    BY DEF Places, Alerts!Analyzing
  <2>. QED
    BY <2>1, <2>2, SameHeld, SameFollow, TypesOfTold, CallerMoves
<1>. QED
  BY <1>1, <1>2, <1>3, ReadKeeps, CommitKeeps DEF Alerts!Analyze

LEMMA FailureKeeps ==
    ASSUME AlertsInv, NEW c \in Alerts!Callers, Alerts!AnalysisFails(c)
    PROVE  AlertsInv'
<1>1. PICK place : place = IF c \in Pods THEN "tell" ELSE "idle"
  OBVIOUS
<1>2. /\ at' = [at EXCEPT ![c] = place] /\ alerts' = Alerts!Without(c, alerts)
      /\ tx' = [tx EXCEPT ![c] = Alerts!Nothing]
      /\ UNCHANGED <<Alerts!world, watched, redis, cache, told>>
  BY <1>1 DEF Alerts!AnalysisFails, Alerts!Goes, Alerts!Leave
<1>3. place \in Places \ {"commit"}
  BY <1>1 DEF Places
<1>. QED
  BY <1>2, <1>3, NothingHeld, WithoutFollow, TypesOfTold, CallerMoves

-----------------------------------------------------------------------------
(* The other steps of requests and of dispatches.                          *)
LEMMA RequestsKeep ==
    ASSUME AlertsInv, NEW c \in Alerts!Callers, Alerts!OverHTTP(c)
    PROVE  AlertsInv'
<1>1. CASE Alerts!RequestAnalysis(c)
  <2>1. /\ at[c] # "commit" /\ at' = [at EXCEPT ![c] = "begin"]
        /\ UNCHANGED <<Alerts!world, watched, redis, alerts, cache, tx, told>>
    BY <1>1 DEF Alerts!RequestAnalysis, Alerts!Goes, Alerts!rows
  <2>2. "begin" \in Places \ {"commit"}
    BY DEF Places, Alerts!Analyzing
  <2>. QED
    BY <2>1, <2>2, SameHeld, SameFollow, TypesOfTold, CallerMoves
<1>2. CASE Alerts!ListLots(c)
  <2>1. /\ at[c] = "idle" /\ alerts' = alerts \cup Alerts!buildLotExpirationAlerts
        /\ UNCHANGED <<Alerts!world, watched, redis, cache, at, tx, told>>
    BY <1>2 DEF Alerts!ListLots, Alerts!generateLotExpirationAlerts
  <2>2. "idle" \in Places \ {"commit"} /\ at' = [at EXCEPT ![c] = "idle"]
    BY <2>1 DEF Places, AlertsInv, AlertTypes
  <2>. QED
    BY <2>1, <2>2, SameHeld, LotsFollow, TypesOfTold, CallerMoves
<1>3. CASE Alerts!ResolveAlert(c)
  <2>1. /\ alerts' = (alerts \ Alerts!FoundBy(c)) \cup Alerts!Saved(c) /\ at' = [at EXCEPT ![c] = "idle"]
        /\ tx' = [tx EXCEPT ![c] = Alerts!Nothing]
        /\ UNCHANGED <<Alerts!world, watched, redis, cache, told>>
    BY <1>3 DEF Alerts!ResolveAlert, Alerts!Goes, Alerts!Leave
  <2>2. "idle" \in Places \ {"commit"}
    BY DEF Places
  <2>. QED
    BY <2>1, <2>2, NothingHeld, SavedFollow, TypesOfTold, CallerMoves
<1>4. ASSUME NEW a \in alerts, Alerts!BeginResolve(c, a) PROVE AlertsInv'
  <2>1. PICK read : read = [a EXCEPT !.resolved = TRUE, !.foundBy = {}]
    OBVIOUS
  <2>2. /\ at[c] # "commit" /\ alerts' = Alerts!Finds(c, {a}) /\ at' = [at EXCEPT ![c] = "resolve"]
        /\ tx' = [tx EXCEPT ![c].new = {read}]
        /\ UNCHANGED <<Alerts!world, watched, redis, cache, told>>
    BY <1>4, <2>1 DEF Alerts!BeginResolve, Alerts!Goes
  <2>3. a \in Alerts!Rows /\ Alerts!RecommendsMore(a)
    BY DEF AlertsInv, AlertTypes
  <2>4. read \in Alerts!Rows /\ Alerts!RecommendsMore(read)
    BY <2>1, <2>3, RowEdits
  <2>5. PICK held : held = [tx[c] EXCEPT !.new = {read}]
    OBVIOUS
  <2>6. tx[c] \in Held /\ tx[c].saw = {}
    BY <2>2, SameHeld
  <2>7. held \in Held /\ held.saw = {} /\ held.new = {read}
    BY <2>4, <2>5, <2>6 DEF Held
  <2>8. tx' = [tx EXCEPT ![c] = held]
    BY <2>2, <2>5
  <2>9. "resolve" \in Places \ {"commit"}
    BY DEF Places
  <2>10. \A b \in held.new : Alerts!RecommendsMore(b)
    BY <2>4, <2>7
  <2>. QED
    BY <2>2, <2>7, <2>8, <2>9, <2>10, FindsFollow, TypesOfTold, CallerMoves
<1>. QED
  BY <1>1, <1>2, <1>3, <1>4, AnalyzeKeeps DEF Alerts!OverHTTP

LEMMA CronDispatchKeeps ==
    ASSUME AlertsInv, NEW p \in Pods, Alerts!CronDispatch(p)
    PROVE  AlertsInv'
<1>0. p \in Alerts!Callers
  BY DEF Alerts!Callers
<1>1. CASE Alerts!Dispatch(p)
  <2>1. PICK place : place = IF Alerts!Locked THEN "tell" ELSE "begin"
    OBVIOUS
  <2>2. /\ at[p] # "commit" /\ at' = [at EXCEPT ![p] = place] /\ told' = [told EXCEPT ![p] = {}]
        /\ UNCHANGED <<Alerts!world, watched, redis, alerts, cache, tx>>
    BY <1>1, <2>1 DEF Alerts!Dispatch, Alerts!RunStockAlertAnalysis, Alerts!Goes, Alerts!rows
  <2>3. place \in Places \ {"commit"}
    BY <2>1 DEF Places, Alerts!Analyzing
  <2>4. told' \in [Pods -> SUBSET Alerts!Subjects]
    BY <2>2, TypesOfTold
  <2>. QED
    BY <1>0, <2>2, <2>3, <2>4, SameHeld, SameFollow, TypesOfTold, CallerMoves
<1>2. CASE Alerts!DispatchLots(p)
  <2>1. /\ at[p] # "commit" /\ at' = [at EXCEPT ![p] = "tell"]
        /\ alerts' = alerts \cup Alerts!buildLotExpirationAlerts
        /\ UNCHANGED <<Alerts!world, watched, redis, cache, tx, told>>
    BY <1>2 DEF Alerts!DispatchLots, Alerts!generateLotExpirationAlerts, Alerts!Goes
  <2>2. "tell" \in Places \ {"commit"}
    BY DEF Places
  <2>. QED
    BY <1>0, <2>1, <2>2, SameHeld, LotsFollow, TypesOfTold, CallerMoves
<1>3. CASE Alerts!Notify(p)
  <2>1. PICK low \in SUBSET Alerts!OpenLowStock :
        /\ at[p] # "commit" /\ at' = [at EXCEPT ![p] = "idle"]
        /\ UNCHANGED <<Alerts!world, watched, redis, alerts, cache, tx>>
        /\ told' = [told EXCEPT ![p] = soon \cup low]
    BY <1>3 DEF Alerts!Notify, Alerts!Goes, Alerts!rows, Alerts!RunLotExpirationCheck,
       Alerts!RunLowStockNotifications
  <2>2. "idle" \in Places \ {"commit"}
    BY DEF Places
  <2>3. soon \subseteq Alerts!Subjects /\ Alerts!OpenLowStock \subseteq Alerts!Subjects
    BY DEF Alerts!OpenLowStock, AlertsInv, AlertTypes, Alerts!Rows, Alerts!Subjects
  <2>4. told' \in [Pods -> SUBSET Alerts!Subjects]
    BY <2>1, <2>3, TypesOfTold
  <2>. QED
    BY <1>0, <2>1, <2>2, <2>4, SameHeld, SameFollow, TypesOfTold, CallerMoves
<1>. QED
  BY <1>0, <1>1, <1>2, <1>3, AnalyzeKeeps DEF Alerts!CronDispatch

LEMMA AlertsInvStep ==
    ASSUME AlertsInv, [Alerts!Next]_(Alerts!vars)
    PROVE  AlertsInv'
<1>1. CASE UNCHANGED Alerts!vars
  <2>1. UNCHANGED <<stock, due, soon, alerts, watched, redis, cache, at, tx, told>>
    BY <1>1 DEF Alerts!vars, Alerts!world, Alerts!rows
  <2>2. AlertTypes'
    BY <2>1 DEF AlertsInv, AlertTypes
  <2>3. Alerts!Needed' = Alerts!Needed /\ \A c \in Alerts!Callers : HoldingOK(c)'
    BY <2>1, SameNeeds, SameHolding DEF Alerts!world
  <2>. QED
    BY <2>1, <2>2, <2>3 DEF AlertsInv, Alerts!RecommendsMore, Kept, Keeps
<1>2. Requesters \subseteq Alerts!Callers
  BY DEF Alerts!Callers
<1>. QED
  BY <1>1, <1>2, WorldKeeps, ExpireKeeps, FailureKeeps, CronDispatchKeeps,
     RequestsKeep DEF Alerts!Next

(* Whatever overlaps, fails, is resolved or expires, for any number of     *)
(* pods, requests, items and lots: what an analysis found to need an alert *)
(* has one for as long as it does, and an alert recommends more than there *)
(* was.                                                                    *)
THEOREM AlertsStayRight == Alerts!Spec => []AlertsAreRight
<1>1. Alerts!Init /\ [][Alerts!Next]_(Alerts!vars) => []AlertsInv
  BY InitAlerts, AlertsInvStep, PTL
<1>. QED
  BY <1>1, AlertsStayRightNow, PTL DEF Alerts!Spec

-----------------------------------------------------------------------------
(* The emails of a trial.  Hours and days are related by one fact about    *)
(* DaysLeft; the rest is where in its day a reminder was first sent.       *)
Finite == /\ now \in Nat /\ ran \in Nat /\ rollbacks \in Nat /\ farewells \in Nat
          /\ now <= MaxHours /\ ran <= RunsPerHour /\ rollbacks <= MaxRollbacks
          /\ status \in {"trial", "past_due", "active"}
          /\ marked = [d \in Reminders |-> marked[d]] /\ sent = [d \in Reminders |-> sent[d]]

(* Within the day of a reminder, the hour at which it ends.                *)
LastHour(d) == TrialHours - 1 - 24 * d

(* A reminder was marked in its day, and left again only in the last hour  *)
(* of it, once for each run then, or without a commit.                     *)
ReminderOK(d) ==
    /\ sent[d] \in Nat
    /\ IF marked[d] = Trial!NotMarked THEN sent[d] <= rollbacks
       ELSE /\ marked[d] \in Nat /\ marked[d] <= now /\ sent[d] > 0
            /\ LastHour(d) - 23 <= marked[d] /\ marked[d] <= LastHour(d)
            /\ now < LastHour(d) => sent[d] <= 1 + rollbacks
            /\ now = LastHour(d) => sent[d] <= 1 + ran + rollbacks
            /\ sent[d] <= 1 + RunsPerHour + rollbacks

(* The last run that committed within the hour did what its day wants.     *)
TrialInv ==
    /\ Finite
    /\ \A d \in Reminders : ReminderOK(d)
    /\ farewells <= rollbacks + (IF status = "trial" THEN 0 ELSE 1)
    /\ Trial!DeactivatedKnowingly /\ Trial!RemindersArrive
    /\ status = "trial" /\ ran > 0 =>
         /\ ~Trial!Expired
         /\ \A d \in Reminders : Trial!DaysLeft = d => sent[d] > 0

LEMMA TrialNumbers ==
    /\ TrialHours \in Nat /\ MaxHours \in Nat /\ MaxRollbacks \in Nat /\ RunsPerHour \in Nat
    /\ RunsPerHour > 0 /\ Trial!NotMarked \notin Nat
    /\ \A d \in Reminders : d \in Nat /\ d > 0 /\ LastHour(d) \in Int
BY HoursAssumption DEF Trial!NotMarked, LastHour

Left(n) == (TrialHours - n - 1) \div 24

LEMMA Days ==
    ASSUME NEW n \in Nat
    PROVE  /\ Left(n) \in Int
           /\ \A d \in Reminders :
                /\ Left(n) = d <=> LastHour(d) - 23 <= n /\ n <= LastHour(d)
                /\ Left(n) < d <=> n > LastHour(d)
           /\ Left(n) <= 0 <=> TrialHours - n <= 24
<1>1. PICK h \in Int : h = TrialHours - n - 1
  BY TrialNumbers
<1>2. PICK q \in Int : q = Left(n) /\ 24 * q <= h /\ h < 24 * q + 24
  BY <1>1 DEF Left
<1>. QED
  BY <1>1, <1>2, TrialNumbers DEF LastHour

LEMMA DaysOfNow ==
    /\ Trial!DaysLeft = Left(now) /\ (Trial!Expired <=> Left(now) <= 0)
    /\ Trial!DaysLeft' = Left(now')
BY DEF Trial!DaysLeft, Trial!Expired, Left

LEMMA InitTrial == Trial!Init => TrialInv
<1>. SUFFICES ASSUME Trial!Init PROVE TrialInv
  OBVIOUS
<1>1. Finite
  BY TrialNumbers DEF Trial!Init, Finite
<1>2. \A d \in Reminders : ReminderOK(d)
  BY TrialNumbers DEF Trial!Init, ReminderOK
<1>3. Trial!DeactivatedKnowingly
  BY DEF Trial!Init, Trial!DeactivatedKnowingly
<1>4. Trial!RemindersArrive
  <2>1. now = 0 /\ TrialHours \in Nat
    BY TrialNumbers DEF Trial!Init
  <2>2. ASSUME NEW d \in Reminders, Left(0) < d, 24 * d < TrialHours PROVE FALSE
    BY <2>2, Days, TrialNumbers DEF LastHour
  <2>. QED
    BY <2>1, <2>2, DaysOfNow DEF Trial!RemindersArrive
<1>. QED
  BY <1>1, <1>2, <1>3, <1>4 DEF Trial!Init, TrialInv

LEMMA EmailsAreBounded == TrialInv => Trial!EmailsBounded
<1>. SUFFICES ASSUME TrialInv PROVE Trial!EmailsBounded
  OBVIOUS
<1>1. farewells <= 1 + rollbacks
  BY DEF TrialInv, Finite
<1>2. ASSUME NEW d \in Reminders PROVE sent[d] <= 1 + RunsPerHour + rollbacks
  BY TrialNumbers DEF TrialInv, Finite, ReminderOK
<1>. QED
  BY <1>1, <1>2 DEF Trial!EmailsBounded

LEMMA TypesOfTrial == TrialInv => Trial!TypeOK
<1>. SUFFICES ASSUME TrialInv PROVE Trial!TypeOK
  OBVIOUS
<1>1. marked \in [Reminders -> 0..now \cup {Trial!NotMarked}] /\ sent \in [Reminders -> Nat]
  <2>1. ASSUME NEW d \in Reminders
        PROVE  marked[d] \in 0..now \cup {Trial!NotMarked} /\ sent[d] \in Nat
    BY DEF TrialInv, Finite, ReminderOK
  <2>. QED
    BY <2>1 DEF TrialInv, Finite
<1>. QED
  BY <1>1, TrialNumbers DEF TrialInv, Finite, Trial!TypeOK

(* Whatever leaves the clock, and the marks, alone, and takes no email     *)
(* back.                                                                   *)
LEMMA RunKeeps ==
    ASSUME TrialInv, now' = now, Finite', \A d \in Reminders : ReminderOK(d)',
           \A d \in Reminders : sent'[d] >= sent[d],
           status' = "trial" => status = "trial",
           farewells' <= rollbacks' + (IF status' = "trial" THEN 0 ELSE 1),
           farewells' >= farewells, farewells' > farewells => Left(now) <= 0,
           status' = "past_due" => farewells' > 0,
           status' = "trial" /\ ran' > 0 =>
             Left(now) > 0 /\ \A d \in Reminders : Left(now) = d => sent'[d] > 0
    PROVE  TrialInv'
<1>1. /\ Left(now) \in Int /\ now \in Nat
      /\ \A d \in Reminders : sent[d] \in Nat /\ sent'[d] \in Nat
      /\ farewells \in Nat /\ farewells' \in Nat
  BY Days DEF TrialInv, Finite, ReminderOK
<1>2. Trial!Expired' <=> Left(now) <= 0
  BY DEF Trial!Expired, Trial!DaysLeft, Left
<1>3. Trial!DeactivatedKnowingly'
  BY <1>1, Days DEF TrialInv, Trial!DeactivatedKnowingly
<1>4. Trial!RemindersArrive'
  <2>1. ASSUME status' = "trial", NEW d \in Reminders, Left(now) < d, 24 * d < TrialHours
        PROVE  sent'[d] > 0
    <3>1. sent[d] > 0
      BY <2>1, DaysOfNow DEF TrialInv, Trial!RemindersArrive
    <3>. QED
      BY <1>1, <3>1
  <2>2. status' = "trial" => now' <= TrialHours
    BY DEF TrialInv, Trial!RemindersArrive
  <2>3. Trial!DaysLeft' = Left(now)
    BY DaysOfNow
  <2>. QED
    BY <2>1, <2>2, <2>3 DEF Trial!RemindersArrive
<1>5. Trial!DaysLeft' = Left(now)
  BY DaysOfNow
<1>. QED
  BY <1>1, <1>2, <1>3, <1>4, <1>5 DEF TrialInv

(* A reminder leaves.                                                      *)
LEMMA ReminderLeaves ==
    ASSUME TrialInv, NEW d \in Reminders, Left(now) = d, FALSE \in Trial!RecentlySent(d)
    PROVE  \/ marked[d] = Trial!NotMarked
           \/ marked[d] # Trial!NotMarked /\ now = LastHour(d)
<1>1. SUFFICES ASSUME marked[d] # Trial!NotMarked PROVE now = LastHour(d)
  OBVIOUS
<1>2. marked[d] \in Nat /\ now \in Nat /\ LastHour(d) \in Int
  BY <1>1, TrialNumbers DEF TrialInv, Finite, ReminderOK
<1>3. now - marked[d] >= 23
  <2>1. Trial!RecentlySent(d) = {now - marked[d] <= 23, now - marked[d] < 23}
    BY <1>1 DEF Trial!RecentlySent
  <2>2. ~(now - marked[d] <= 23) \/ ~(now - marked[d] < 23)
    BY <2>1, Zenon
  <2>. QED
    BY <1>2, <2>2
<1>4. LastHour(d) - 23 <= marked[d] /\ now <= LastHour(d)
  BY <1>1, Days DEF TrialInv, Finite, ReminderOK
<1>. QED
  BY <1>2, <1>3, <1>4

LEMMA RemindKeeps ==
    ASSUME TrialInv, Trial!RunTrialExpirationCheck, NEW d \in Reminders, Trial!Remind(d)
    PROVE  TrialInv'
<1>1. /\ now' = now /\ ran' = ran + 1 /\ ran < RunsPerHour /\ rollbacks' = rollbacks /\ status = "trial"
      /\ status' = status /\ farewells' = farewells
  BY DEF Trial!RunTrialExpirationCheck, Trial!Remind
<1>2. /\ Left(now) = d /\ FALSE \in Trial!RecentlySent(d)
      /\ marked' = [marked EXCEPT ![d] = Trial!Mark(d)] /\ sent' = [sent EXCEPT ![d] = @ + 1]
  BY DaysOfNow DEF Trial!Remind
<1>3. /\ marked'[d] = (IF marked[d] = Trial!NotMarked THEN now ELSE marked[d]) /\ sent'[d] = sent[d] + 1
      /\ \A e \in Reminders \ {d} : marked'[e] = marked[e] /\ sent'[e] = sent[e]
  BY <1>2 DEF TrialInv, Finite, Trial!Mark
<1>4. Finite'
  <2>1. marked' = [e \in Reminders |-> marked'[e]] /\ sent' = [e \in Reminders |-> sent'[e]]
    BY <1>2, Zenon DEF TrialInv, Finite
  <2>2. /\ now \in Nat /\ ran \in Nat /\ RunsPerHour \in Nat /\ rollbacks \in Nat /\ farewells \in Nat
        /\ now <= MaxHours /\ rollbacks <= MaxRollbacks /\ status \in {"trial", "past_due", "active"}
    BY TrialNumbers DEF TrialInv, Finite
  <2>3. ran' \in Nat /\ ran' <= RunsPerHour
    BY <1>1, <2>2
  <2>. QED
    BY <1>1, <2>1, <2>2, <2>3 DEF Finite
<1>5. /\ now \in Nat /\ ran \in Nat /\ rollbacks \in Nat /\ LastHour(d) \in Int
      /\ LastHour(d) - 23 <= now /\ now <= LastHour(d)
  BY <1>2, Days, TrialNumbers DEF TrialInv, Finite
<1>6. ReminderOK(d)'
  <2>1. LastHour(d)' = LastHour(d) /\ Trial!NotMarked' = Trial!NotMarked
    BY DEF LastHour, Trial!NotMarked
  <2>2. CASE marked[d] = Trial!NotMarked
    <3>1. sent[d] \in Nat /\ sent[d] <= rollbacks
      BY <2>2 DEF TrialInv, ReminderOK
    <3>. QED
      BY <1>1, <1>3, <1>5, <2>1, <2>2, <3>1, TrialNumbers DEF ReminderOK
  <2>3. CASE marked[d] # Trial!NotMarked
    <3>1. now = LastHour(d)
      BY <1>2, <2>3, ReminderLeaves
    <3>2. /\ sent[d] \in Nat /\ sent[d] <= 1 + ran + rollbacks /\ marked[d] \in Nat /\ marked[d] <= now
          /\ LastHour(d) - 23 <= marked[d] /\ marked[d] <= LastHour(d)
      BY <2>3, <3>1 DEF TrialInv, ReminderOK
    <3>. QED
      BY <1>1, <1>3, <1>5, <2>1, <2>3, <3>1, <3>2, TrialNumbers DEF ReminderOK
  <2>. QED
    BY <2>2, <2>3
<1>7. ASSUME NEW e \in Reminders \ {d} PROVE ReminderOK(e)'
  BY <1>1, <1>3, <1>5, <1>7, TrialNumbers DEF TrialInv, Finite, ReminderOK, LastHour, Trial!NotMarked
<1>8. \A e \in Reminders : ReminderOK(e)'
  BY <1>6, <1>7
<1>9. \A e \in Reminders : sent'[e] >= sent[e] /\ (e = d => sent'[e] > 0)
  BY <1>3 DEF TrialInv, ReminderOK
<1>10. Left(now) > 0 /\ Left(now) \in Int
  BY <1>2, TrialNumbers
<1>11. farewells \in Nat /\ farewells' <= rollbacks' + (IF status' = "trial" THEN 0 ELSE 1)
  BY <1>1 DEF TrialInv, Finite
<1>. QED
  BY <1>1, <1>2, <1>4, <1>8, <1>9, <1>10, <1>11, RunKeeps

LEMMA OtherRunKeeps ==
    ASSUME TrialInv, Trial!RunTrialExpirationCheck, Trial!Deactivate \/ Trial!NothingToDo
    PROVE  TrialInv'
<1>1. /\ now' = now /\ ran' = ran + 1 /\ ran < RunsPerHour /\ rollbacks' = rollbacks /\ status = "trial"
      /\ marked' = marked /\ sent' = sent
  BY DEF Trial!RunTrialExpirationCheck, Trial!Deactivate, Trial!NothingToDo
<1>2. \/ Left(now) <= 0 /\ status' = "past_due" /\ farewells' = farewells + 1
      \/ ~(Left(now) <= 0) /\ status' = status /\ farewells' = farewells
  BY DaysOfNow DEF Trial!Deactivate, Trial!NothingToDo
<1>3. Finite'
  BY <1>1, <1>2, TrialNumbers DEF TrialInv, Finite
<1>4. \A d \in Reminders : ReminderOK(d)'
  BY <1>1, TrialNumbers DEF TrialInv, Finite, ReminderOK, LastHour, Trial!NotMarked
<1>5. ASSUME NEW d \in Reminders, Left(now) = d, ~(Left(now) <= 0), status' = "trial" PROVE sent'[d] > 0
  <2>1. TRUE \in Trial!RecentlySent(d)
    BY <1>2, <1>5, DaysOfNow DEF Trial!Deactivate, Trial!NothingToDo
  <2>2. marked[d] # Trial!NotMarked
    BY <2>1 DEF Trial!RecentlySent
  <2>. QED
    BY <1>1, <2>2 DEF TrialInv, ReminderOK
<1>6. Left(now) \in Int /\ \A d \in Reminders : sent[d] \in Nat
  BY Days DEF TrialInv, Finite, ReminderOK
<1>7. /\ farewells \in Nat /\ farewells' \in Nat /\ rollbacks \in Nat /\ farewells <= rollbacks
  BY <1>1, <1>2 DEF TrialInv, Finite
<1>. QED
  BY <1>1, <1>2, <1>3, <1>4, <1>5, <1>6, <1>7, RunKeeps

LEMMA RollbackKeeps ==
    ASSUME TrialInv, Trial!RunRollsBack
    PROVE  TrialInv'
<1>1. /\ now' = now /\ ran' = ran /\ rollbacks' = rollbacks + 1 /\ rollbacks < MaxRollbacks
      /\ status = "trial" /\ status' = status /\ marked' = marked
  BY DEF Trial!RunRollsBack
<1>2. /\ now \in Nat /\ ran \in Nat /\ rollbacks \in Nat /\ farewells \in Nat /\ Left(now) \in Int
      /\ \A d \in Reminders : sent[d] \in Nat
  BY Days DEF TrialInv, Finite, ReminderOK
<1>3. /\ \/ Left(now) <= 0 /\ farewells' = farewells + 1
         \/ farewells' = farewells
      /\ sent' = [d \in Reminders |-> sent'[d]]
      /\ \A d \in Reminders : sent'[d] = sent[d] \/ sent'[d] = sent[d] + 1
  <2>1. CASE Left(now) <= 0 /\ farewells' = farewells + 1 /\ sent' = sent
    BY <2>1 DEF TrialInv, Finite
  <2>2. CASE \E d \in Reminders : sent' = [sent EXCEPT ![d] = @ + 1] /\ farewells' = farewells
    BY <2>2 DEF TrialInv, Finite
  <2>. QED
    BY <2>1, <2>2, DaysOfNow DEF Trial!RunRollsBack
<1>4. Finite'
  BY <1>1, <1>2, <1>3, TrialNumbers DEF TrialInv, Finite
<1>5. ASSUME NEW d \in Reminders PROVE ReminderOK(d)'
  <2>1. ReminderOK(d) /\ LastHour(d) \in Int /\ sent'[d] \in Nat
    BY <1>2, <1>3, TrialNumbers DEF TrialInv
  <2>. QED
    BY <1>1, <1>2, <1>3, <2>1, TrialNumbers DEF ReminderOK, LastHour, Trial!NotMarked
<1>6. \A d \in Reminders : sent'[d] >= sent[d]
  BY <1>2, <1>3
<1>7. ran > 0 => Left(now) > 0 /\ \A d \in Reminders : Left(now) = d => sent[d] > 0
  BY <1>1, <1>2, DaysOfNow DEF TrialInv
<1>8. \A d \in Reminders : sent[d] > 0 => sent'[d] > 0
  BY <1>2, <1>3
<1>9. farewells <= rollbacks
  BY <1>1, <1>2 DEF TrialInv
<1>. QED
  BY <1>1, <1>2, <1>3, <1>4, <1>5, <1>6, <1>7, <1>8, <1>9, RunKeeps

LEMMA PaymentKeeps ==
    ASSUME TrialInv, Trial!Pays
    PROVE  TrialInv'
<1>1. /\ now' = now /\ ran' = ran /\ rollbacks' = rollbacks /\ status' = "active"
      /\ marked' = marked /\ sent' = sent /\ farewells' = farewells
  BY DEF Trial!Pays
<1>2. Finite'
  BY <1>1 DEF TrialInv, Finite
<1>3. \A d \in Reminders : ReminderOK(d)'
  BY <1>1 DEF TrialInv, ReminderOK, LastHour, Trial!NotMarked
<1>4. /\ farewells \in Nat /\ rollbacks \in Nat /\ farewells <= rollbacks + 1
      /\ \A d \in Reminders : sent[d] \in Nat
  BY DEF TrialInv, Finite, ReminderOK
<1>. QED
  BY <1>1, <1>2, <1>3, <1>4, RunKeeps

(* When the hour is over, so may be the day of a reminder: it has left.    *)
LEMMA HourKeeps ==
    ASSUME TrialInv, Trial!HourPasses
    PROVE  TrialInv'
<1>1. /\ now < MaxHours /\ now' = now + 1 /\ ran' = 0 /\ (status = "trial" => ran > 0)
      /\ status' = status /\ marked' = marked /\ sent' = sent /\ farewells' = farewells
      /\ rollbacks' = rollbacks
  BY DEF Trial!HourPasses
<1>2. /\ now \in Nat /\ ran \in Nat /\ ran <= RunsPerHour /\ rollbacks \in Nat /\ farewells \in Nat
      /\ MaxHours \in Nat /\ TrialHours \in Nat
  BY TrialNumbers DEF TrialInv, Finite
<1>3. Finite'
  BY <1>1, <1>2, TrialNumbers DEF TrialInv, Finite
<1>4. ASSUME NEW d \in Reminders PROVE ReminderOK(d)'
  <2>1. ReminderOK(d) /\ LastHour(d) \in Int
    BY TrialNumbers DEF TrialInv
  <2>. QED
    BY <1>1, <1>2, <2>1, TrialNumbers DEF ReminderOK, LastHour, Trial!NotMarked
<1>5. Trial!DeactivatedKnowingly'
  BY <1>1, <1>2 DEF TrialInv, Trial!DeactivatedKnowingly
<1>6. status = "trial" => ~(Left(now) <= 0) /\ \A d \in Reminders : Left(now) = d => sent[d] > 0
  BY <1>1, DaysOfNow DEF TrialInv
<1>7. Left(now) \in Int /\ Left(now') \in Int /\ now' \in Nat
  BY <1>1, <1>2, Days
<1>8. Trial!RemindersArrive'
  <2>1. ASSUME status = "trial", NEW d \in Reminders, Left(now') < d, 24 * d < TrialHours
        PROVE  sent[d] > 0
    <3>1. now' > LastHour(d) /\ LastHour(d) \in Int
      BY <1>7, <2>1, Days, TrialNumbers
    <3>2. Left(now) < d \/ Left(now) = d
      BY <1>1, <1>2, <3>1, Days
    <3>3. Left(now) < d => sent[d] > 0
      BY <2>1, DaysOfNow DEF TrialInv, Trial!RemindersArrive
    <3>. QED
      BY <1>6, <2>1, <3>2, <3>3
  <2>2. status = "trial" => now' <= TrialHours
    BY <1>1, <1>2, <1>6, Days
  <2>. QED
    BY <1>1, <2>1, <2>2, DaysOfNow DEF Trial!RemindersArrive
<1>. QED
  BY <1>1, <1>2, <1>3, <1>4, <1>5, <1>8 DEF TrialInv

LEMMA TrialInvStep ==
    ASSUME TrialInv, [Trial!Next]_(Trial!vars)
    PROVE  TrialInv'
<1>1. CASE UNCHANGED Trial!vars
  <2>1. UNCHANGED <<now, ran, status, marked, sent, farewells, rollbacks>>
    BY <1>1 DEF Trial!vars
  <2>2. Finite' /\ \A d \in Reminders : ReminderOK(d)'
    BY <2>1 DEF TrialInv, Finite, ReminderOK, LastHour, Trial!NotMarked
  <2>. QED
    BY <2>1, <2>2 DEF TrialInv, Trial!DeactivatedKnowingly, Trial!RemindersArrive, Trial!Expired,
       Trial!DaysLeft
<1>2. CASE Trial!RunTrialExpirationCheck
  BY <1>2, RemindKeeps, OtherRunKeeps DEF Trial!RunTrialExpirationCheck
<1>. QED
  BY <1>1, <1>2, RollbackKeeps, PaymentKeeps, HourKeeps DEF Trial!Next

LEMMA TrialInvariant == Trial!Spec => []TrialInv
BY InitTrial, TrialInvStep, PTL DEF Trial!Spec

(* With a run of the check in every hour, over all pods and whatever does  *)
(* not commit: a tenant on trial has had every reminder whose day is over, *)
(* is deactivated only with an email that says so, in the last day, and    *)
(* gets no email more often than the last hour of a day allows.            *)
THEOREM TrialStaysAnnounced == Trial!Spec => []TrialIsAnnounced
<1>1. TrialInv => TrialIsAnnounced
  BY EmailsAreBounded DEF TrialInv, TrialIsAnnounced
<1>. QED
  BY <1>1, TrialInvariant, PTL

-----------------------------------------------------------------------------
(* The run: a behaviour is of one of the three, and each keeps what is its. *)
JobsInv == AlertsInv /\ TrialInv

LEMMA JobsInvariant == MCSpec => []JobsInv
<1>1. MCInit => JobsInv
  BY InitAlerts, InitTrial DEF MCInit, JobsInv
<1>2. ASSUME JobsInv, [StockAlertsStep \/ TrialStep \/ WebhookStep]_<<job, alertVars, trialVars, vars>>
      PROVE  JobsInv'
  <2>1. [Alerts!Next]_(Alerts!vars) /\ [Trial!Next]_(Trial!vars)
    BY <1>2 DEF StockAlertsStep, TrialStep, WebhookStep, alertVars, trialVars, Alerts!vars, Trial!vars,
       Alerts!world, Alerts!rows
  <2>. QED
    BY <1>2, <2>1, AlertsInvStep, TrialInvStep DEF JobsInv
<1>. QED
  BY <1>1, <1>2, PTL DEF MCSpec

(* What TLC runs is, of the webhook's tables and of the trial's, a behaviour *)
(* of their specifications: the theorems about them hold of it.            *)
THEOREM JobsSpecIsTheirs == MCSpec => Spec /\ Trial!Spec
<1>1. MCInit => Init /\ Trial!Init
  BY DEF MCInit
<1>2. ASSUME [StockAlertsStep \/ TrialStep \/ WebhookStep]_<<job, alertVars, trialVars, vars>>
      PROVE  [Next]_vars /\ [Trial!Next]_(Trial!vars)
  BY <1>2 DEF StockAlertsStep, TrialStep, WebhookStep, trialVars, Trial!vars
<1>. QED
  BY <1>1, <1>2, PTL DEF MCSpec, Spec, Trial!Spec

(* Types of the variables of both jobs, in the run.                        *)
THEOREM JobsTypes == MCSpec => []JobsTypeOK
<1>1. JobsInv => JobsTypeOK
  BY TypesOfAlerts, TypesOfTrial DEF JobsInv, JobsTypeOK, AlertsInv
<1>. QED
  BY <1>1, JobsInvariant, PTL

===============================================================================

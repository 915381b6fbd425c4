-------------------------------- MODULE MCJobs --------------------------------
(***************************************************************************)
(* What runs without a user, for TLC: Stripe's webhook, with two           *)
(* subscriptions and two deliveries at a time, and the jobs of the hourly  *)
(* dispatch that keep state of their own: the stock alerts, with           *)
(* everything that happens within an hour, and the emails of a trial, over *)
(* its days.  A behaviour is of one of the three.                          *)
(***************************************************************************)
EXTENDS TenantBilling, Integers, FiniteSets

CONSTANTS Pods, Requesters, ServedBy, Items, Lots, Levels,
          TellLimit, MaxDisturbed,
          TrialHours, Reminders, RunsPerHour, MaxRollbacks, MaxHours

ASSUME AlertsAssumption == /\ Levels \subseteq [quantity : Nat, used : Nat]
                           /\ Items \cap Lots = {} /\ Pods \cap Requesters = {}
                           /\ ServedBy \in [Requesters -> Pods] /\ "redis" \notin Pods
                           /\ TellLimit \in Nat /\ MaxDisturbed \in Nat

ASSUME HoursAssumption == /\ TrialHours \in Nat /\ MaxHours \in Nat /\ MaxRollbacks \in Nat
                          /\ RunsPerHour \in Nat \ {0}
                          /\ Reminders \subseteq Nat \ {0}

VARIABLES job,
          stock, due, soon, alerts, redis, cache, at, tx, told, watched, disturbed,
          now, ran, status, marked, sent, farewells, rollbacks

Alerts == INSTANCE StockAlerts
Trial  == INSTANCE TrialReminders

alertVars == <<stock, due, soon, alerts, redis, cache, at, tx, told, watched, disturbed>>
trialVars == <<now, ran, status, marked, sent, farewells, rollbacks>>

Enough   == [quantity |-> 20, used |-> 0]
Few      == [quantity |-> 3, used |-> 0]
InDemand == [quantity |-> 20, used |-> 60]
MCServedBy == [c \in Requesters |-> CHOOSE p \in Pods : TRUE]
MCLevels == {Enough, Few, InDemand}

MCInit ==
    /\ job \in {"alerts", "trial", "webhook"} /\ Alerts!Init /\ Trial!Init /\ Init
    /\ job # "alerts" => redis /\ \A i \in Items : stock[i] = Enough

StockAlertsStep == job = "alerts" /\ Alerts!Next /\ UNCHANGED <<job, trialVars, vars>>
TrialStep == job = "trial" /\ Trial!Next /\ UNCHANGED <<job, alertVars, vars>>
WebhookStep == job = "webhook" /\ Next /\ UNCHANGED <<job, alertVars, trialVars>>

AlertsFairness ==
    /\ \A m \in Alerts!Caches : WF_alertVars(job = "alerts" /\ Alerts!Expire(m))
    /\ \A p \in Pods : WF_alertVars(job = "alerts" /\ Alerts!CronDispatch(p))
    /\ \A c \in Requesters :
           WF_alertVars(job = "alerts" /\ (Alerts!Analyze(c) \/ Alerts!ResolveAlert(c)))

MCSpec ==
    /\ MCInit /\ [][StockAlertsStep \/ TrialStep \/ WebhookStep]_<<job, alertVars, trialVars, vars>>
    /\ AlertsFairness

(* Types of the variables of the two jobs.                                 *)
JobsTypeOK == Alerts!TypeOK /\ Trial!TypeOK

(* StockAlertsRepository.Analyze: what needs an alert keeps one, and what  *)
(* an alert recommends is more than there is.                              *)
AlertsAreRight == Alerts!WhatNeedsItIsListed /\ Alerts!RecommendedAboveStock

(* RunTrialExpirationCheck: a tenant on trial has had every reminder whose *)
(* day is over, none is deactivated without an email that says so, no such *)
(* email leaves before the last day, and the rows of notifications keep    *)
(* emails from being sent twice, over all pods.                            *)
TrialIsAnnounced ==
    Trial!RemindersArrive /\ Trial!DeactivatedKnowingly /\ Trial!EmailsBounded

(* WhatStaysLowIsTold, of the behaviours of the alerts.                    *)
AlertsReachAdministrators == job = "alerts" => Alerts!WhatStaysLowIsTold
===============================================================================

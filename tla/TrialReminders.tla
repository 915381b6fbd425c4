---------------------------- MODULE TrialReminders ----------------------------
(***************************************************************************)
(* The emails of one tenant's trial.  Every pod runs RunTrialExpirationCheck *)
(* once an hour, under an advisory lock, so runs are atomic; the phase of  *)
(* each pod's ticker within the hour is its own.  Time is the number of    *)
(* whole hours since the trial began.                                      *)
(***************************************************************************)
EXTENDS Integers, FiniteSets

CONSTANTS TrialHours,     \* from the beginning to trial_ends_at
          Reminders,      \* days left that have a reminder
          RunsPerHour,    \* runs that commit in an hour, over all pods
          MaxRollbacks,   \* runs that do not, in the whole trial
          MaxHours        \* bound on the clock

VARIABLES now, ran,       \* the hour, and the runs in it
          status,         \* tenants.status
          marked,         \* hour of the notification row, or NotMarked
          sent,           \* emails sent for each reminder
          farewells,      \* emails that the trial is over
          rollbacks       \* runs that did not commit

vars == <<now, ran, status, marked, sent, farewells, rollbacks>>

NotMarked == -1
Init == /\ now = 0 /\ ran = 0
        /\ status = "trial"
        /\ marked = [d \in Reminders |-> NotMarked]
        /\ sent = [d \in Reminders |-> 0]
        /\ farewells = 0
        /\ rollbacks = 0

(* Within the hour the time left is less than TrialHours - now.            *)
DaysLeft == (TrialHours - now - 1) \div 24

\* Mutant of Expired.
(* One day counts as none.                                                 *)
ExpiredADayEarly == DaysLeft <= 1

Expired == DaysLeft <= 0

\* Mutant of RecentlySent.
(* The dedup forgets the event type and looks three days back.             *)
SomeSentInThreeDays(d) ==
  {\E e \in Reminders : marked[e] # NotMarked /\ now - marked[e] < 72}

\* Mutant of RecentlySent.
(* The dedup looks half a day back.                                        *)
SentInHalfADay(d) == {marked[d] # NotMarked /\ now - marked[d] < 12}

(* created_at > NOW() - 23 hours: for two runs 23 whole hours apart it     *)
(* depends on their phases.                                                *)
RecentlySent(d) == IF marked[d] = NotMarked THEN {FALSE}
                   ELSE {now - marked[d] <= 23, now - marked[d] < 23}

Deactivate == /\ Expired
              /\ status' = "past_due"
              /\ farewells' = farewells + 1
              /\ UNCHANGED <<marked, sent>>

\* Mutant of Mark.
(* The row is dated with the trial's end.                                  *)
MarkTheEnd(d) == TrialHours

(* The row keeps the id of the first reminder: ON CONFLICT DO NOTHING.     *)
Mark(d) == IF marked[d] = NotMarked THEN now ELSE marked[d]

Remind(d) == /\ DaysLeft = d
             /\ FALSE \in RecentlySent(d)
             /\ marked' = [marked EXCEPT ![d] = Mark(d)]
             /\ sent' = [sent EXCEPT ![d] = @ + 1]
             /\ UNCHANGED <<status, farewells>>

NothingToDo == /\ ~Expired
               /\ DaysLeft \in Reminders => TRUE \in RecentlySent(DaysLeft)
               /\ UNCHANGED <<status, marked, sent, farewells>>

RunTrialExpirationCheck ==
  /\ status = "trial" /\ ran < RunsPerHour
  /\ ran' = ran + 1
  /\ Deactivate \/ NothingToDo \/ \E d \in Reminders : Remind(d)
  /\ UNCHANGED <<now, rollbacks>>

(* The transaction does not commit; its emails have left.                  *)
RunRollsBack ==
  /\ status = "trial" /\ rollbacks < MaxRollbacks
  /\ rollbacks' = rollbacks + 1
  /\ \/ Expired /\ farewells' = farewells + 1 /\ UNCHANGED sent
     \/ \E d \in Reminders : /\ DaysLeft = d /\ FALSE \in RecentlySent(d)
                             /\ sent' = [sent EXCEPT ![d] = @ + 1]
                             /\ UNCHANGED farewells
  /\ UNCHANGED <<now, ran, status, marked>>

(* HandleCheckoutSessionCompleted.                                         *)
Pays == /\ status # "active"
        /\ status' = "active"
        /\ UNCHANGED <<now, ran, marked, sent, farewells, rollbacks>>

(* In every hour of a trial some pod runs the check and the run commits.   *)
HourPasses == /\ now < MaxHours
              /\ now' = now + 1 /\ ran' = 0
              /\ status = "trial" => ran > 0
              /\ UNCHANGED <<status, marked, sent, farewells, rollbacks>>

Next == RunTrialExpirationCheck \/ RunRollsBack \/ Pays \/ HourPasses
Spec == Init /\ [][Next]_vars

-----------------------------------------------------------------------------
TypeOK == /\ now \in 0..MaxHours /\ ran \in 0..RunsPerHour
          /\ status \in {"trial", "past_due", "active"}
          /\ marked \in [Reminders -> 0..now \cup {NotMarked}]
          /\ sent \in [Reminders -> Nat] /\ farewells \in Nat
          /\ rollbacks \in 0..MaxRollbacks

(* A tenant is deactivated only with an email that says so, were it by a   *)
(* run that did not commit, and such an email means the last day began.    *)
DeactivatedKnowingly == /\ status = "past_due" => farewells > 0
                        /\ farewells > 0 => TrialHours - now <= 24

(* With a run every hour, a tenant still on trial had every reminder whose *)
(* day is over, and none is on trial past the end.                         *)
RemindersArrive ==
  status = "trial" => /\ \A d \in Reminders : DaysLeft < d /\ 24 * d < TrialHours => sent[d] > 0
                      /\ now <= TrialHours

(* The row of a reminder keeps the runs of the next 23 hours from sending  *)
(* it again; those of the last hour of its day, and those that left no     *)
(* row, it does not.  The tenant is told once that the trial is over.      *)
EmailsBounded ==
  /\ \A d \in Reminders : sent[d] <= 1 + RunsPerHour + rollbacks
  /\ farewells <= 1 + rollbacks

=============================================================================

------------------------------ MODULE RateLimiter ------------------------------
(***************************************************************************)
(* The bucket one limiter keeps for one address, in ticks: a token is      *)
(* PerToken of them, and the cleaner, who comes every Idle ticks, deletes  *)
(* a bucket that nobody asked for more than Idle ticks, full or not.       *)
(***************************************************************************)
EXTENDS Naturals

CONSTANTS Burst, PerToken,
          Second,       \* ticks of the second that Retry-After counts
          IdleTicks,    \* called Idle below
          Window        \* the longest time whose requests are counted

VARIABLES level,        \* of the bucket, full when there is none
          seen,         \* ticks since it was last asked for; Never without a bucket
          phase,        \* ticks since the cleaner came
          passed,       \* the requests that passed in the last so many ticks
          promises      \* ticks until a refused request was told to come back

limiterVars == <<level, seen, phase, passed, promises>>

Full == Burst * PerToken
Never == IdleTicks + 1

Init == /\ level = Full /\ seen = Never /\ phase = 0
        /\ passed = [n \in 1..Window |-> 0] /\ promises = {}

\* Mutant of secondsUntil.
(* The seconds are rounded down.                                           *)
secondsDown(ticks) == ticks \div Second

(* At least one second, rounded up.                                        *)
secondsUntil(ticks) == LET whole == (ticks + Second - 1) \div Second
                       IN  IF whole < 1 THEN 1 ELSE whole

(* retryAfter of computeHeaders: until the next whole token.               *)
computeHeaders == secondsUntil(PerToken - level) * Second

(* A request finds or makes the bucket and takes a token, or is told when  *)
(* to come back.  What it was told holds until another request passes.     *)
Request ==
    /\ \/ /\ level >= PerToken
          /\ level' = level - PerToken
          /\ passed' = [n \in 1..Window |-> passed[n] + 1]
          /\ promises' = {}
       \/ /\ level < PerToken
          /\ promises' = promises \cup {computeHeaders}
          /\ UNCHANGED <<level, passed>>
    /\ seen' = 0 /\ UNCHANGED phase

\* Mutant of Stale.
(* The cleaner looks at no time.                                           *)
StaleAlways(age) == TRUE

Stale(age) == age > IdleTicks

Deletes == phase + 1 = IdleTicks /\ Stale(seen + 1)

(* Time passes, and it may be the cleaner's.                               *)
Tick ==
    /\ phase' = (phase + 1) % IdleTicks
    /\ passed' = [n \in 1..Window |-> IF n = 1 THEN 0 ELSE passed[n - 1]]
    /\ promises' = {IF p = 0 THEN 0 ELSE p - 1 : p \in promises}
    /\ LET older == IF seen = Never THEN Never ELSE seen + 1
           more == IF level < Full THEN level + 1 ELSE Full
       IN  IF Deletes THEN seen' = Never /\ level' = Full
           ELSE seen' = older /\ level' = more

Next == Request \/ Tick

Spec == Init /\ [][Next]_limiterVars

-----------------------------------------------------------------------------
(* Types of the variables.                                                 *)
TypeOK ==
    /\ level \in 0..Full /\ seen \in 0..Never /\ phase \in 0..(IdleTicks - 1)
    /\ passed \in [1..Window -> Nat]
    /\ promises \subseteq 0..(PerToken + Second)

(* A refused request that comes back after Retry-After seconds passes,     *)
(* unless another of its address passed since; that the others refused     *)
(* meanwhile were told later times, or that the bucket was deleted, takes  *)
(* nothing from it.                                                        *)
RetryAfterIsHonest == 0 \in promises => level >= PerToken

(* A bucket made by the cleaner is no more than one in 2 * Idle ticks: he  *)
(* deletes none that was used since he came before.                        *)
NewBuckets(n) == (n + IdleTicks - 2) \div (2 * IdleTicks)

(* In n ticks no more requests pass than a full bucket, its refilling and  *)
(* the full buckets that the cleaner's deleting gives meanwhile allow,     *)
(* however the requests and his visits fall, in windows longer than Idle   *)
(* too.                                                                    *)
WindowBounded == \A n \in 1..Window : passed[n] <= Burst * (1 + NewBuckets(n)) + n \div PerToken

(* "5 per hour per IP" (signup_routes.go:25), with the hour the time that  *)
(* refills a bucket of 5 (46: "one per 12 minutes").                       *)
HourlyLimit == \A n \in 1..Window : n <= Full => passed[n] <= Burst
================================================================================

----------------------------- MODULE PasswordReset -----------------------------
(***************************************************************************)
(* Password resets of one active user.  A request marks the user's tokens  *)
(* as used and stores a new one, in a transaction that sends the email     *)
(* before it commits; a reset reads its token outside the transaction that *)
(* uses it.  The resets are numbered.                                      *)
(***************************************************************************)
EXTENDS Naturals

CONSTANTS Links, Callers,
          MaxResets      \* bound on the resets of a behaviour

VARIABLES link,       \* the tokens that are committed
          mailed,     \* the links that were sent
          resets,     \* for each link, the resets done with it
          done,       \* how many resets there were
          req

resetVars == <<link, mailed, resets, done, req>>

NoLink == [state |-> "none"]
Idle == [at |-> "none"]

Init ==
    /\ link = [l \in Links |-> NoLink] /\ mailed = {}
    /\ resets = [l \in Links |-> {}] /\ done = 0
    /\ req = [c \in Callers |-> Idle]

Goes(c, to) == req' = [req EXCEPT ![c] = to]

Usable == {l \in Links : link[l].state = "unused"}

\* Mutant of Invalidated.
(* The request leaves the links before its own as they are.                *)
NoneInvalidated(links) == {}

(* UPDATE ... WHERE user_id = ? AND used_at IS NULL marks the links whose  *)
(* requests had committed.                                                 *)
Invalidated(links) == links

(* The transaction begins with the UPDATE, and sends the email.            *)
RequestPasswordReset(c) ==
    /\ req[c] = Idle
    /\ \E l \in Links \ mailed : /\ Goes(c, [at |-> "mail", link |-> l, found |-> Usable])
                                 /\ mailed' = mailed \cup {l}
    /\ UNCHANGED <<link, resets, done>>

CommitRequest(c) ==
    /\ req[c].at = "mail"
    /\ link' = [l \in Links |->
                   IF l = req[c].link THEN [state |-> "unused", found |-> req[c].found]
                   ELSE IF l \in Invalidated(req[c].found) THEN [link[l] EXCEPT !.state = "used"]
                   ELSE link[l]]
    /\ Goes(c, Idle)
    /\ UNCHANGED <<mailed, resets, done>>

(* What fails after the email leaves a link that was never stored.         *)
RequestRollsBack(c) ==
    /\ req[c].at = "mail" /\ Goes(c, Idle)
    /\ UNCHANGED <<link, mailed, resets, done>>

Expire(l) ==
    /\ l \in Usable /\ link' = [link EXCEPT ![l].state = "expired"]
    /\ UNCHANGED <<mailed, resets, done, req>>

(* The token of a link is looked for, and the new password encrypted.      *)
ReadToken(c) ==
    /\ req[c] = Idle
    /\ \E l \in mailed \cap Usable : Goes(c, [at |-> "reset", link |-> l, since |-> done])
    /\ UNCHANGED <<link, mailed, resets, done>>

\* Mutant of Spent.
(* The token stays as it is.                                               *)
NotSpent(l) == link[l]

Spent(l) == [link[l] EXCEPT !.state = "used"]

(* One transaction sets the password and marks the token by its id; it     *)
(* does not look at the token again.                                       *)
ResetPassword(c) ==
    /\ req[c].at = "reset" /\ done < MaxResets
    /\ LET l == req[c].link
       IN  /\ link' = [link EXCEPT ![l] = Spent(l)]
           /\ resets' = [resets EXCEPT ![l] = @ \cup {[number |-> done + 1, since |-> req[c].since]}]
    /\ done' = done + 1 /\ Goes(c, Idle)
    /\ UNCHANGED mailed

Next == \/ \E c \in Callers : \/ RequestPasswordReset(c) \/ CommitRequest(c) \/ RequestRollsBack(c)
                              \/ ReadToken(c) \/ ResetPassword(c)
        \/ \E l \in Links : Expire(l)

Spec == Init /\ [][Next]_resetVars

-----------------------------------------------------------------------------
(* Types of the variables.                                                 *)
TypeOK ==
    /\ \A l \in Links : link[l] # NoLink =>
        /\ link[l].state \in {"unused", "used", "expired"}
        /\ link[l].found \subseteq Links
    /\ mailed \subseteq Links /\ done \in 0..MaxResets
    /\ resets \in [Links -> SUBSET [number : 1..MaxResets, since : 0..MaxResets]]
    /\ \A c \in Callers : req[c].at \in {"none", "mail", "reset"}

(* ResetPassword checks its token before the transaction that marks it:    *)
(* a link sets the password twice only in resets that overlapped.          *)
LinkWorksOnce ==
    \A l \in Links : \A r, s \in resets[l] : r.number < s.number => s.since < r.number

(* "Invalidar tokens activos previos" is one UPDATE that sees no request   *)
(* still running: two links work at a time only if the requests for them   *)
(* overlapped.                                                             *)
OldLinksDie == \A l, k \in Usable : k \notin link[l].found
================================================================================

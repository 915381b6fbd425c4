--------------------------- MODULE PermissionsCache ---------------------------
(***************************************************************************)
(* The permissions of one role: its row in the database and the copy each  *)
(* pod keeps for TTL after it was read (RolesRepositoryCache).  The        *)
(* permissions are numbered by the updates that made them.  A hit changes  *)
(* nothing; a miss reads the database with the mutex released.             *)
(***************************************************************************)
EXTENDS Naturals

CONSTANTS Pods, Requests,
          TTL,          \* how long an entry is used
          MaxDelay,     \* how long a request stays between two of its steps
          MaxTime, MaxVersion   \* bounds on the clock and on the updates

ASSUME BoundsAssumption == TTL \in Nat /\ MaxDelay \in Nat /\ MaxVersion \in Nat

VARIABLES now, stored, replacedAt, cache, req

vars == <<now, stored, replacedAt, cache, req>>

NoEntry == [perms |-> 0, until |-> 0]
Idle == [at |-> "none"]

Init == /\ now = 0
        /\ stored = 0
        /\ replacedAt = [v \in 0..MaxVersion |-> 0]
        /\ cache = [p \in Pods |-> NoEntry]
        /\ req = [r \in Requests |-> Idle]

\* Mutant of Fresh.
(* An entry is used for as long as it is there.                            *)
FreshWhileThere(entry) == entry # NoEntry

Fresh(entry) == now < entry.until

Goes(r, to) == req' = [req EXCEPT ![r] = to]

(* GetRolePermissions finds no fresh entry and reads the database.         *)
ReadPermissions(r, p) ==
  /\ req[r] = Idle /\ ~Fresh(cache[p])
  /\ Goes(r, [at |-> "read", pod |-> p, perms |-> stored, since |-> now])
  /\ UNCHANGED <<now, stored, replacedAt, cache>>

(* It takes the mutex again and stores what it read.                       *)
StoreEntry(r) ==
  /\ req[r].at = "read"
  /\ cache' = [cache EXCEPT ![req[r].pod] = [perms |-> req[r].perms, until |-> now + TTL]]
  /\ Goes(r, Idle)
  /\ UNCHANGED <<now, stored, replacedAt>>

(* UpdatePermissions writes the row, and with an error, which may come     *)
(* although the row was written, it returns.                               *)
WritePermissions(r, p) ==
  /\ req[r] = Idle /\ stored < MaxVersion
  /\ stored' = stored + 1
  /\ replacedAt' = [replacedAt EXCEPT ![stored] = now]
  /\ \/ Goes(r, [at |-> "written", pod |-> p, since |-> now])
     \/ UNCHANGED req
  /\ UNCHANGED <<now, cache>>

\* Mutant of Without.
(* The update drops the entry and all that finding it missing relies on.   *)
WithoutIt(entries, p) == [q \in DOMAIN entries \ {p} |-> entries[q]]

Without(entries, p) == [entries EXCEPT ![p] = NoEntry]

InvalidateEntry(r) ==
  /\ req[r].at = "written"
  /\ cache' = Without(cache, req[r].pod)
  /\ Goes(r, Idle)
  /\ UNCHANGED <<now, stored, replacedAt>>

Tick == /\ now < MaxTime
        /\ \A r \in Requests : req[r] # Idle => now < req[r].since + MaxDelay
        /\ now' = now + 1
        /\ UNCHANGED <<stored, replacedAt, cache, req>>

Next == \/ Tick
        \/ \E r \in Requests : \/ StoreEntry(r) \/ InvalidateEntry(r)
                               \/ \E p \in Pods : ReadPermissions(r, p) \/ WritePermissions(r, p)

Spec == Init /\ [][Next]_vars

-----------------------------------------------------------------------------
TypeOK ==
  /\ now \in Nat /\ stored \in 0..MaxVersion
  /\ replacedAt \in [0..MaxVersion -> Nat]
  /\ cache \in [Pods -> [perms : Nat, until : Nat]]
  /\ req \in [Requests -> {Idle} \cup [at : {"read"}, pod : Pods, perms : Nat, since : Nat]
                                 \cup [at : {"written"}, pod : Pods, since : Nat]]

(* No pod answers with permissions that were replaced TTL and one          *)
(* request's delay ago: not if another pod made the change, nor if a       *)
(* request stores what it read before the change, nor if the update        *)
(* returned before it invalidated the entry.                               *)
StalenessBounded ==
  \A p \in Pods : LET entry == cache[p]
                  IN  Fresh(entry) /\ entry.perms # stored
                        => now < replacedAt[entry.perms] + MaxDelay + TTL

=============================================================================

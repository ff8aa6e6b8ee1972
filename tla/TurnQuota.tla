----------------------------- MODULE TurnQuota -----------------------------
(***************************************************************************)
(* The quota tracker of the TURN relay (internal/turn): reservations made  *)
(* by the quota handler, turned into allocations by the event handler, and *)
(* released by five-second timers.                                         *)
(*                                                                         *)
(* The TURN library is external.  It calls the quota handler for an        *)
(* allocation request, then binds the relay socket, then reports the       *)
(* allocation created; it handles one request of a source address at a     *)
(* time, refuses a second allocation of a live one before it asks the      *)
(* handler, and reports each allocation's end once.                        *)
(***************************************************************************)
EXTENDS Integers, FiniteSets

CONSTANTS Users,      \* TURN usernames
          Sources,    \* source addresses
          PerUser,    \* quotaTracker.perUser
          MaxTotal,   \* quotaTracker.maxTotal
          MaxTimers   \* bound: timers outstanding for one key

ASSUME UsersAssumption == IsFiniteSet(Users) /\ IsFiniteSet(Sources)

ASSUME QuotaAssumption ==
  PerUser \in Nat \ {0} /\ MaxTotal \in Nat \ {0} /\ MaxTimers \in Nat \ {0}

\* quotaReservationKey.
Keys == Users \X Sources

User(k) == k[1]

VARIABLES
  pending,         \* keys with a reservation
  pendingByUser,
  pendingTotal,
  byUser,          \* allocations per user
  total,
  timers,          \* timers[k]: armed AfterFunc timers of key k
  request,         \* the library's request for key k
  allocated,       \* keys with a live allocation
  uncovered        \* history: live allocations created without a reservation

vars == <<pending, pendingByUser, pendingTotal, byUser, total, timers,
          request, allocated, uncovered>>

pendingVars == <<pending, pendingByUser, pendingTotal>>
usedVars == <<byUser, total>>

Init ==
  /\ pending = {} /\ pendingByUser = [u \in Users |-> 0] /\ pendingTotal = 0
  /\ byUser = [u \in Users |-> 0] /\ total = 0
  /\ timers = [k \in Keys |-> 0]
  /\ request = [k \in Keys |-> "none"]
  /\ allocated = {} /\ uncovered = {}

\* Mutant of OverQuota: reservations are not counted.
OverQuotaUsed(u) == total >= MaxTotal \/ byUser[u] >= PerUser

OverQuota(u) ==
  \/ total + pendingTotal >= MaxTotal
  \/ byUser[u] + pendingByUser[u] >= PerUser

\* Mutant of RemovePending: a missing reservation is released again.
RemovePendingBlindly(k) ==
  /\ pending' = pending \ {k}
  /\ pendingByUser' = [pendingByUser EXCEPT ![User(k)] =
                         IF @ > 1 THEN @ - 1 ELSE 0]
  /\ pendingTotal' = IF pendingTotal > 0 THEN pendingTotal - 1 ELSE 0

\* removePendingLocked.
RemovePending(k) ==
  IF k \in pending
  THEN /\ pending' = pending \ {k}
       /\ pendingByUser' = [pendingByUser EXCEPT ![User(k)] =
                              IF @ > 1 THEN @ - 1 ELSE 0]
       /\ pendingTotal' = IF pendingTotal > 0 THEN pendingTotal - 1 ELSE 0
  ELSE UNCHANGED pendingVars

----------------------------------------------------------------------------
\* allow.  The timer is armed after the lock is released.

Requested(k) == request[k] = "none" /\ k \notin allocated

\* A retry finds the reservation of the request that failed.
AllowAgain(k) ==
  /\ Requested(k)
  /\ k \in pending
  /\ request' = [request EXCEPT ![k] = "allowed"]
  /\ UNCHANGED <<pendingVars, usedVars, timers, allocated, uncovered>>

Refuse(k) ==
  /\ Requested(k)
  /\ k \notin pending
  /\ OverQuota(User(k))
  /\ UNCHANGED vars

Reserve(k) ==
  /\ Requested(k)
  /\ k \notin pending
  /\ ~OverQuota(User(k))
  /\ timers[k] < MaxTimers
  /\ pending' = pending \cup {k}
  /\ pendingByUser' = [pendingByUser EXCEPT ![User(k)] = @ + 1]
  /\ pendingTotal' = pendingTotal + 1
  /\ request' = [request EXCEPT ![k] = "arming"]
  /\ UNCHANGED <<usedVars, timers, allocated, uncovered>>

ArmTimer(k) ==
  /\ request[k] = "arming"
  /\ timers' = [timers EXCEPT ![k] = @ + 1]
  /\ request' = [request EXCEPT ![k] = "allowed"]
  /\ UNCHANGED <<pendingVars, usedVars, allocated, uncovered>>

----------------------------------------------------------------------------
\* The relay socket cannot be bound: the library answers the client and the
\* reservation is left to its timer.
BindFails(k) ==
  /\ request[k] = "allowed"
  /\ request' = [request EXCEPT ![k] = "none"]
  /\ UNCHANGED <<pendingVars, usedVars, timers, allocated, uncovered>>

\* created.
Created(k) ==
  /\ request[k] = "allowed"
  /\ RemovePending(k)
  /\ byUser' = [byUser EXCEPT ![User(k)] = @ + 1]
  /\ total' = total + 1
  /\ request' = [request EXCEPT ![k] = "none"]
  /\ allocated' = allocated \cup {k}
  /\ uncovered' = IF k \in pending THEN uncovered ELSE uncovered \cup {k}
  /\ UNCHANGED timers

\* deleted: the client, the lifetime or the server ends an allocation.
Deleted(k) ==
  /\ k \in allocated
  /\ byUser' = [byUser EXCEPT ![User(k)] = IF @ > 1 THEN @ - 1 ELSE 0]
  /\ total' = IF total > 0 THEN total - 1 ELSE 0
  /\ allocated' = allocated \ {k}
  /\ uncovered' = uncovered \ {k}
  /\ UNCHANGED <<pendingVars, timers, request>>

\* Mutant of TimerFires: the reservation of a request under way is spared.
TimerSparesRequest(k) ==
  /\ timers[k] > 0
  /\ timers' = [timers EXCEPT ![k] = @ - 1]
  /\ IF request[k] = "allowed" THEN UNCHANGED pendingVars ELSE RemovePending(k)
  /\ UNCHANGED <<usedVars, request, allocated, uncovered>>

\* A timer fires: releasePending, by key and not by reservation.
TimerFires(k) ==
  /\ timers[k] > 0
  /\ timers' = [timers EXCEPT ![k] = @ - 1]
  /\ RemovePending(k)
  /\ UNCHANGED <<usedVars, request, allocated, uncovered>>

Next ==
  \E k \in Keys :
    \/ AllowAgain(k) \/ Refuse(k) \/ Reserve(k) \/ ArmTimer(k)
    \/ BindFails(k) \/ Created(k) \/ Deleted(k) \/ TimerFires(k)

Spec == Init /\ [][Next]_vars

----------------------------------------------------------------------------
\* Properties.

\* Every variable keeps the shape of the Go value it stands for.
TypeOK ==
  /\ pending \subseteq Keys /\ allocated \subseteq Keys
  /\ uncovered \subseteq Keys
  /\ pendingByUser \in [Users -> Nat] /\ pendingTotal \in Nat
  /\ byUser \in [Users -> Nat] /\ total \in Nat
  /\ timers \in [Keys -> Nat]
  /\ request \in [Keys -> {"none", "arming", "allowed"}]

OfUser(S, u) == {k \in S : User(k) = u}

\* The four counters say what the tracker holds: reservations and live
\* allocations, per user and in all.  A counter that drifts up locks users
\* out of the relay, one that drifts down (the clamps at zero) hides use.
CountersExact ==
  /\ pendingTotal = Cardinality(pending)
  /\ total = Cardinality(allocated)
  /\ \A u \in Users :
       /\ pendingByUser[u] = Cardinality(OfUser(pending, u))
       /\ byUser[u] = Cardinality(OfUser(allocated, u))

\* The quotas hold except for allocations whose reservation a timer had
\* taken away before they were created: each of these exceeds a quota by at
\* most one, and nothing else does.
OverdraftBounded ==
  /\ total + pendingTotal <= MaxTotal + Cardinality(uncovered)
  /\ \A u \in Users :
       byUser[u] + pendingByUser[u]
         <= PerUser + Cardinality(OfUser(uncovered, u))

\* A reservation is never left without a timer that will release it, even
\* though an older timer of the same key may release a newer reservation.
ReservationsTimed ==
  \A k \in pending : timers[k] > 0 \/ request[k] = "arming"

=============================================================================

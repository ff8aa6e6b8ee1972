-------------------------- MODULE TurnQuotaProofs --------------------------
(***************************************************************************)
(* Proofs about the TURN quota tracker, for any number of users, source    *)
(* addresses and timers and any quotas.                                    *)
(***************************************************************************)
EXTENDS TurnQuota, FiniteSetTheorems, TLAPS

----------------------------------------------------------------------------
\* A key under request has no live allocation, and only live allocations
\* count as uncovered.
RequestsFresh ==
  /\ \A k \in Keys : request[k] # "none" => k \notin allocated
  /\ uncovered \subseteq allocated

\* The inductive invariant: what makes the counters and the bound provable.
IInv ==
  TypeOK /\ RequestsFresh /\ CountersExact /\ OverdraftBounded
    /\ ReservationsTimed

----------------------------------------------------------------------------
\* The keys of the tracker.

\* Reservation keys are pairs, finitely many of them.
LEMMA KeysFinite ==
  /\ IsFiniteSet(Keys)
  /\ \A k \in Keys : User(k) \in Users
BY UsersAssumption, FS_Product DEF Keys, User

\* How adding and removing a key changes the count of a set of keys and the
\* count of its keys of one user.
LEMMA CountAdd ==
  ASSUME NEW S \in SUBSET Keys, NEW k \in Keys, k \notin S
  PROVE  /\ Cardinality(S \cup {k}) = Cardinality(S) + 1
         /\ \A u \in Users :
              Cardinality(OfUser(S \cup {k}, u)) =
                IF u = User(k) THEN Cardinality(OfUser(S, u)) + 1
                ELSE Cardinality(OfUser(S, u))
<1>1. IsFiniteSet(S)
  BY KeysFinite, FS_Subset
<1>2. \A u \in Users : IsFiniteSet(OfUser(S, u))
  BY <1>1, FS_Subset DEF OfUser
<1>3. ASSUME NEW u \in Users
      PROVE  Cardinality(OfUser(S \cup {k}, u)) =
               IF u = User(k) THEN Cardinality(OfUser(S, u)) + 1
               ELSE Cardinality(OfUser(S, u))
  <2>1. CASE u = User(k)
    <3>1. OfUser(S \cup {k}, u) = OfUser(S, u) \cup {k}
      BY <2>1 DEF OfUser
    <3>2. k \notin OfUser(S, u)
      BY DEF OfUser
    <3> QED
      BY <1>2, <2>1, <3>1, <3>2, FS_AddElement, ZenonT(30)
  <2>2. CASE u # User(k)
    <3>1. OfUser(S \cup {k}, u) = OfUser(S, u)
      BY <2>2 DEF OfUser
    <3> QED
      BY <2>2, <3>1
  <2> QED
    BY <2>1, <2>2
<1> QED
  BY <1>1, <1>3, FS_AddElement

LEMMA CountRemove ==
  ASSUME NEW S \in SUBSET Keys, NEW k \in S
  PROVE  /\ Cardinality(S) = Cardinality(S \ {k}) + 1
         /\ \A u \in Users :
              Cardinality(OfUser(S, u)) =
                IF u = User(k) THEN Cardinality(OfUser(S \ {k}, u)) + 1
                ELSE Cardinality(OfUser(S \ {k}, u))
<1> DEFINE T == S \ {k}
<1>1. T \in SUBSET Keys /\ k \in Keys /\ k \notin T /\ T \cup {k} = S
  OBVIOUS
<1> HIDE DEF T
<1>2. /\ Cardinality(T \cup {k}) = Cardinality(T) + 1
      /\ \A u \in Users :
           Cardinality(OfUser(T \cup {k}, u)) =
             IF u = User(k) THEN Cardinality(OfUser(T, u)) + 1
             ELSE Cardinality(OfUser(T, u))
  BY <1>1, CountAdd, Zenon
<1> QED
  BY <1>1, <1>2 DEF T

\* Counts are natural numbers.
LEMMA CountNat ==
  ASSUME NEW S \in SUBSET Keys
  PROVE  /\ Cardinality(S) \in Nat
         /\ \A u \in Users : Cardinality(OfUser(S, u)) \in Nat
<1>1. IsFiniteSet(S)
  BY KeysFinite, FS_Subset
<1>2. \A u \in Users : IsFiniteSet(OfUser(S, u))
  BY <1>1, FS_Subset DEF OfUser
<1> QED
  BY <1>1, <1>2, FS_CardinalityType

----------------------------------------------------------------------------
\* The actions, one lemma each where the counting matters.

Step(k) ==
  \/ AllowAgain(k) \/ Refuse(k) \/ Reserve(k) \/ ArmTimer(k)
  \/ BindFails(k) \/ Created(k) \/ Deleted(k) \/ TimerFires(k)

\* Each action keeps the types.
LEMMA TypeStep ==
  ASSUME TypeOK, NEW k \in Keys, Step(k)
  PROVE  TypeOK'
<1> USE KeysFinite
<1>1. CASE AllowAgain(k)
  BY <1>1 DEF TypeOK, AllowAgain, pendingVars, usedVars
<1>2. CASE Refuse(k)
  BY <1>2 DEF TypeOK, Refuse, vars
<1>3. CASE Reserve(k)
  BY <1>3 DEF TypeOK, Reserve, usedVars
<1>4. CASE ArmTimer(k)
  BY <1>4 DEF TypeOK, ArmTimer, pendingVars, usedVars
<1>5. CASE BindFails(k)
  BY <1>5 DEF TypeOK, BindFails, pendingVars, usedVars
<1>6. CASE Created(k)
  BY <1>6 DEF TypeOK, Created, RemovePending, pendingVars
<1>7. CASE Deleted(k)
  BY <1>7 DEF TypeOK, Deleted, pendingVars
<1>8. CASE TimerFires(k)
  BY <1>8 DEF TypeOK, TimerFires, RemovePending, pendingVars, usedVars
<1> QED
  BY <1>1, <1>2, <1>3, <1>4, <1>5, <1>6, <1>7, <1>8 DEF Step

\* removePendingLocked takes one reservation off the set and off both
\* counters, or changes nothing; its clamps at zero never bite.
LEMMA RemovePendingExact ==
  ASSUME TypeOK, CountersExact, NEW k \in Keys, RemovePending(k)
  PROVE  /\ pending' = pending \ {k}
         /\ pendingTotal' = Cardinality(pending')
         /\ \A u \in Users : pendingByUser'[u] = Cardinality(OfUser(pending', u))
         /\ pendingTotal' = IF k \in pending THEN pendingTotal - 1
                            ELSE pendingTotal
         /\ \A u \in Users :
              pendingByUser'[u] = IF k \in pending /\ u = User(k)
                                  THEN pendingByUser[u] - 1 ELSE pendingByUser[u]
<1>1. CASE k \in pending
  <2>1. pending' = pending \ {k} /\ pending \in SUBSET Keys
    BY <1>1 DEF RemovePending, TypeOK
  <2>2. /\ Cardinality(pending) = Cardinality(pending') + 1
        /\ \A u \in Users :
             Cardinality(OfUser(pending, u)) =
               IF u = User(k) THEN Cardinality(OfUser(pending', u)) + 1
               ELSE Cardinality(OfUser(pending', u))
    BY <1>1, <2>1, CountRemove
  <2>3. /\ Cardinality(pending') \in Nat
        /\ \A u \in Users : Cardinality(OfUser(pending', u)) \in Nat
    BY <2>1, CountNat
  <2> QED
    BY <1>1, <2>1, <2>2, <2>3, KeysFinite DEF RemovePending, TypeOK, CountersExact
<1>2. CASE k \notin pending
  BY <1>2 DEF RemovePending, pendingVars, TypeOK, CountersExact
<1> QED
  BY <1>1, <1>2

\* What a live allocation adds to the counters.
LEMMA CreatedExact ==
  ASSUME IInv, NEW k \in Keys, Created(k)
  PROVE  CountersExact' /\ OverdraftBounded'
<1> USE DEF IInv
<1>1. /\ k \notin allocated /\ k \notin uncovered
      /\ allocated \in SUBSET Keys /\ uncovered \in SUBSET Keys
  BY DEF Created, RequestsFresh, TypeOK
<1>2. /\ Cardinality(allocated') = Cardinality(allocated) + 1
      /\ \A u \in Users :
           Cardinality(OfUser(allocated', u)) =
             IF u = User(k) THEN Cardinality(OfUser(allocated, u)) + 1
             ELSE Cardinality(OfUser(allocated, u))
  BY <1>1, CountAdd DEF Created
<1>3. RemovePending(k)
  BY DEF Created
<1>4. CountersExact'
  BY <1>2, <1>3, RemovePendingExact, KeysFinite DEF Created, CountersExact, TypeOK
<1>5. CASE k \in pending
  <2>1. uncovered' = uncovered
    BY <1>5 DEF Created
  <2>2. total' = total + 1 /\ pendingTotal' = pendingTotal - 1
    BY <1>3, <1>5, RemovePendingExact DEF Created
  <2>3. ASSUME NEW u \in Users
        PROVE  byUser'[u] + pendingByUser'[u] = byUser[u] + pendingByUser[u]
    BY <1>3, <1>5, RemovePendingExact, KeysFinite DEF Created, TypeOK
  <2> QED
    BY <1>4, <2>1, <2>2, <2>3 DEF OverdraftBounded, TypeOK, OfUser
<1>6. CASE k \notin pending
  <2>1. uncovered' = uncovered \cup {k}
    BY <1>6 DEF Created
  <2>2. /\ Cardinality(uncovered') = Cardinality(uncovered) + 1
        /\ \A u \in Users :
             Cardinality(OfUser(uncovered', u)) =
               IF u = User(k) THEN Cardinality(OfUser(uncovered, u)) + 1
               ELSE Cardinality(OfUser(uncovered, u))
    BY <1>1, <2>1, CountAdd
  <2>3. total' = total + 1 /\ pendingTotal' = pendingTotal
    BY <1>3, <1>6, RemovePendingExact DEF Created
  <2>4. ASSUME NEW u \in Users
        PROVE  byUser'[u] + pendingByUser'[u] =
                 IF u = User(k) THEN byUser[u] + pendingByUser[u] + 1
                 ELSE byUser[u] + pendingByUser[u]
    BY <1>3, <1>6, RemovePendingExact, KeysFinite DEF Created, TypeOK
  <2>5. /\ Cardinality(uncovered) \in Nat
        /\ \A u \in Users : Cardinality(OfUser(uncovered, u)) \in Nat
    BY <1>1, CountNat
  <2> QED
    BY <1>4, <2>2, <2>3, <2>4, <2>5, QuotaAssumption DEF OverdraftBounded, TypeOK
<1> QED
  BY <1>4, <1>5, <1>6

\* What a reservation adds to the counters: the guard of allow leaves room.
LEMMA ReserveExact ==
  ASSUME IInv, NEW k \in Keys, Reserve(k)
  PROVE  CountersExact' /\ OverdraftBounded'
<1> USE DEF IInv
<1>1. /\ k \notin pending /\ pending \in SUBSET Keys
      /\ uncovered \in SUBSET Keys
  BY DEF Reserve, TypeOK
<1>2. /\ Cardinality(pending') = Cardinality(pending) + 1
      /\ \A u \in Users :
           Cardinality(OfUser(pending', u)) =
             IF u = User(k) THEN Cardinality(OfUser(pending, u)) + 1
             ELSE Cardinality(OfUser(pending, u))
  BY <1>1, CountAdd DEF Reserve
<1>3. CountersExact'
  BY <1>2, KeysFinite DEF Reserve, CountersExact, TypeOK, usedVars
<1>4. /\ Cardinality(uncovered) \in Nat
      /\ \A u \in Users : Cardinality(OfUser(uncovered, u)) \in Nat
  BY <1>1, CountNat
<1>5. OverdraftBounded'
  BY <1>4, KeysFinite, QuotaAssumption
  DEF Reserve, OverQuota, OverdraftBounded, TypeOK, usedVars
<1> QED
  BY <1>3, <1>5

\* What the end of an allocation takes from the counters.
LEMMA DeletedExact ==
  ASSUME IInv, NEW k \in Keys, Deleted(k)
  PROVE  CountersExact' /\ OverdraftBounded'
<1> USE DEF IInv
<1>1. /\ k \in allocated /\ allocated \in SUBSET Keys
      /\ uncovered \in SUBSET Keys /\ allocated' \in SUBSET Keys
      /\ uncovered' \in SUBSET Keys
  BY DEF Deleted, TypeOK
<1>2. /\ Cardinality(allocated) = Cardinality(allocated') + 1
      /\ \A u \in Users :
           Cardinality(OfUser(allocated, u)) =
             IF u = User(k) THEN Cardinality(OfUser(allocated', u)) + 1
             ELSE Cardinality(OfUser(allocated', u))
  BY <1>1, CountRemove DEF Deleted
<1>3. /\ Cardinality(allocated') \in Nat /\ Cardinality(uncovered') \in Nat
      /\ \A u \in Users : /\ Cardinality(OfUser(allocated', u)) \in Nat
                           /\ Cardinality(OfUser(uncovered', u)) \in Nat
  BY <1>1, CountNat
<1>4. /\ total' = total - 1
      /\ \A u \in Users : byUser'[u] = IF u = User(k) THEN byUser[u] - 1
                                      ELSE byUser[u]
  BY <1>2, <1>3, KeysFinite DEF Deleted, CountersExact, TypeOK
<1>5. CountersExact'
  <2>1. pending' = pending /\ pendingTotal' = pendingTotal
        /\ pendingByUser' = pendingByUser
    BY DEF Deleted, pendingVars
  <2>2. /\ total' = Cardinality(allocated')
        /\ \A u \in Users : byUser'[u] = Cardinality(OfUser(allocated', u))
    BY <1>2, <1>3, <1>4 DEF CountersExact, TypeOK
  <2> QED
    BY <2>1, <2>2 DEF CountersExact
<1>6. /\ Cardinality(uncovered) <= Cardinality(uncovered') + 1
      /\ \A u \in Users :
           Cardinality(OfUser(uncovered, u)) <=
             IF u = User(k) THEN Cardinality(OfUser(uncovered', u)) + 1
             ELSE Cardinality(OfUser(uncovered', u))
  <2>1. CASE k \in uncovered
    <3>1. /\ Cardinality(uncovered) = Cardinality(uncovered') + 1
          /\ \A u \in Users :
               Cardinality(OfUser(uncovered, u)) =
                 IF u = User(k) THEN Cardinality(OfUser(uncovered', u)) + 1
                 ELSE Cardinality(OfUser(uncovered', u))
      BY <1>1, <2>1, CountRemove DEF Deleted
    <3> QED
      BY <1>3, <3>1
  <2>2. CASE k \notin uncovered
    <3>1. uncovered' = uncovered
      BY <2>2 DEF Deleted
    <3> QED
      BY <1>3, <3>1
  <2> QED
    BY <2>1, <2>2
<1>7. /\ Cardinality(uncovered) \in Nat
      /\ \A u \in Users : Cardinality(OfUser(uncovered, u)) \in Nat
  BY <1>1, CountNat
<1>8. OverdraftBounded'
  <2>1. pendingTotal' = pendingTotal /\ pendingByUser' = pendingByUser
    BY DEF Deleted, pendingVars
  <2>2. total' + pendingTotal' <= MaxTotal + Cardinality(uncovered')
    BY <1>3, <1>4, <1>6, <1>7, <2>1, QuotaAssumption
    DEF OverdraftBounded, TypeOK
  <2>3. ASSUME NEW u \in Users
        PROVE  byUser'[u] + pendingByUser'[u]
                 <= PerUser + Cardinality(OfUser(uncovered', u))
    BY <1>3, <1>4, <1>6, <1>7, <2>1, QuotaAssumption
    DEF OverdraftBounded, TypeOK
  <2> QED
    BY <2>2, <2>3 DEF OverdraftBounded
<1> QED
  BY <1>5, <1>8

\* What a timer takes from the counters, whether it finds the reservation
\* it was armed for, a newer one of the same key, or none.
LEMMA TimerExact ==
  ASSUME IInv, NEW k \in Keys, TimerFires(k)
  PROVE  CountersExact' /\ OverdraftBounded'
<1> USE DEF IInv
<1>1. RemovePending(k)
  BY DEF TimerFires
<1>2. CountersExact'
  BY <1>1, RemovePendingExact DEF TimerFires, CountersExact, TypeOK, usedVars
<1>3. uncovered \in SUBSET Keys
  BY DEF TypeOK
<1>4. /\ Cardinality(uncovered) \in Nat
      /\ \A u \in Users : Cardinality(OfUser(uncovered, u)) \in Nat
  BY <1>3, CountNat
<1>5. OverdraftBounded'
  BY <1>1, <1>4, RemovePendingExact, QuotaAssumption
  DEF TimerFires, OverdraftBounded, TypeOK, usedVars
<1> QED
  BY <1>2, <1>5

----------------------------------------------------------------------------
\* The invariant.

\* IInv holds in the states where the tracker has just been made.
LEMMA InitIInv == Init => IInv
<1> SUFFICES ASSUME Init PROVE IInv
  OBVIOUS
<1>1. TypeOK /\ RequestsFresh /\ ReservationsTimed
  BY DEF Init, TypeOK, RequestsFresh, ReservationsTimed
<1>2. Cardinality({}) = 0 /\ \A u \in Users : Cardinality(OfUser({}, u)) = 0
  <2>1. \A u \in Users : OfUser({}, u) = {}
    BY DEF OfUser
  <2> QED
    BY <2>1, FS_EmptySet
<1>3. CountersExact /\ OverdraftBounded
  BY <1>2, QuotaAssumption DEF Init, CountersExact, OverdraftBounded
<1> QED
  BY <1>1, <1>3 DEF IInv

\* Requests and allocations of one key exclude each other, and a
\* reservation keeps a timer, over every step.
LEMMA KeyStep ==
  ASSUME IInv, NEW k \in Keys, Step(k)
  PROVE  RequestsFresh' /\ ReservationsTimed'
<1> USE DEF IInv, RequestsFresh, ReservationsTimed, TypeOK
<1>1. CASE AllowAgain(k)
  BY <1>1 DEF AllowAgain, Requested, pendingVars, usedVars
<1>2. CASE Refuse(k)
  BY <1>2 DEF Refuse, vars
<1>3. CASE Reserve(k)
  BY <1>3 DEF Reserve, Requested, usedVars
<1>4. CASE ArmTimer(k)
  BY <1>4 DEF ArmTimer, pendingVars, usedVars
<1>5. CASE BindFails(k)
  BY <1>5 DEF BindFails, pendingVars, usedVars
<1>6. CASE Created(k)
  BY <1>6 DEF Created, RemovePending, pendingVars
<1>7. CASE Deleted(k)
  BY <1>7 DEF Deleted, pendingVars
<1>8. CASE TimerFires(k)
  BY <1>8 DEF TimerFires, RemovePending, pendingVars, usedVars
<1> QED
  BY <1>1, <1>2, <1>3, <1>4, <1>5, <1>6, <1>7, <1>8 DEF Step

\* The counters and their bound, over every step.
LEMMA CounterStep ==
  ASSUME IInv, NEW k \in Keys, Step(k)
  PROVE  CountersExact' /\ OverdraftBounded'
<1>1. ASSUME UNCHANGED <<pending, pendingByUser, pendingTotal, byUser, total,
                         allocated, uncovered>>
      PROVE  CountersExact' /\ OverdraftBounded'
  BY <1>1 DEF IInv, CountersExact, OverdraftBounded, OfUser
<1>2. CASE AllowAgain(k) \/ Refuse(k) \/ ArmTimer(k) \/ BindFails(k)
  BY <1>1, <1>2
  DEF AllowAgain, Refuse, ArmTimer, BindFails, vars, pendingVars, usedVars
<1> QED
  BY <1>2, ReserveExact, CreatedExact, DeletedExact, TimerExact DEF Step

\* IInv is kept by every step of the tracker, its timers and the library.
LEMMA NextIInv == IInv /\ [Next]_vars => IInv'
<1> SUFFICES ASSUME IInv, [Next]_vars PROVE IInv'
  OBVIOUS
<1>1. CASE UNCHANGED vars
  BY <1>1 DEF IInv, TypeOK, RequestsFresh, CountersExact, OverdraftBounded,
              ReservationsTimed, OfUser, vars
<1>2. ASSUME NEW k \in Keys, Step(k) PROVE IInv'
  BY <1>2, TypeStep, KeyStep, CounterStep DEF IInv
<1> QED
  BY <1>1, <1>2 DEF Next, Step

\* The types, for every instance: no counter ever becomes negative.
THEOREM TypeCorrect == Spec => []TypeOK
<1>1. IInv => TypeOK
  BY DEF IInv
<1> QED
  BY <1>1, InitIInv, NextIInv, PTL DEF Spec

\* However requests, failures, timers and ends of allocations interleave,
\* the counters of the tracker are exact: the clamps at zero in deleted and
\* removePendingLocked never hide a mistake.
THEOREM CountersAlwaysExact == Spec => []CountersExact
<1>1. IInv => CountersExact
  BY DEF IInv
<1> QED
  BY <1>1, InitIInv, NextIInv, PTL DEF Spec

\* The quotas are exceeded by at most the number of live allocations whose
\* reservation a timer released before they were created.
THEOREM OverdraftAlwaysBounded == Spec => []OverdraftBounded
<1>1. IInv => OverdraftBounded
  BY DEF IInv
<1> QED
  BY <1>1, InitIInv, NextIInv, PTL DEF Spec

\* Every reservation has a timer that will release it.
THEOREM ReservationsAlwaysTimed == Spec => []ReservationsTimed
<1>1. IInv => ReservationsTimed
  BY DEF IInv
<1> QED
  BY <1>1, InitIInv, NextIInv, PTL DEF Spec

=============================================================================

SPECIFICATION Spec
CONSTANTS
  Users = {u1, u2}
  Sources = {s1, s2}
  PerUser = 1
  MaxTotal = 2
  MaxTimers = 2
SYMMETRY QuotaSymmetry
INVARIANTS
  CountersExact
  OverdraftBounded
  ReservationsTimed

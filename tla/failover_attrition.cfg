SPECIFICATION Spec
CONSTANTS
  a1 = a1
  a2 = a2
  a3 = a3
  f1 = f1
  f2 = f2
  f3 = f3
  f4 = f4
  NoAnchor = NoAnchor
  Anchor = {a1, a2, a3}
  Follower = {f1, f2, f3, f4}
  Initial <- RoundRobin
  InitialCapacity = 2
  Victims = {a1}
  Silenceable = {}
  Rejectable = {}
  Lossy = FALSE
  Lagging = FALSE
  WarmedUp = TRUE
  MaxCopies = 1
  MaxInFlight = 5
CONSTRAINT FewInFlight
SYMMETRY SameStart
INVARIANTS
  TypeOK
  CapacityInvariant
  AckBacked
  HomeHoldsSlot
PROPERTIES
  ImplementsLedger
CHECK_DEADLOCK FALSE

SPECIFICATION Spec
CONSTANTS
  a1 = a1
  a2 = a2
  a3 = a3
  f1 = f1
  f2 = f2
  f3 = f3
  f4 = f4
  NoAnchor = NoAnchor
  Anchor = {a1, a2}
  Follower = {f1, f2}
  Initial <- RoundRobin
  InitialCapacity = 1
  Victims = {a1, f2}
  Silenceable = {a2}
  Rejectable = {a2}
  Lossy = FALSE
  Lagging = FALSE
  WarmedUp = FALSE
  MaxCopies = 1
  MaxInFlight = 3
CONSTRAINT FewInFlight
INVARIANTS
  CapacityInvariant
  SurvivorsHaveRoom
PROPERTIES
  NoFalseFailover
CHECK_DEADLOCK FALSE

SPECIFICATION FairSpec
CONSTANTS
  a1 = a1
  a2 = a2
  a3 = a3
  f1 = f1
  f2 = f2
  f3 = f3
  f4 = f4
  NoAnchor = NoAnchor
  Anchor = {a1, a2}
  Follower = {f1}
  Initial <- RoundRobin
  InitialCapacity = 1
  Victims = {a1}
  Silenceable = {}
  Rejectable = {}
  Lossy = FALSE
  Lagging = FALSE
  WarmedUp = FALSE
  MaxCopies = 1
  MaxInFlight = 5
PROPERTIES
  Recovery
CHECK_DEADLOCK FALSE

SPECIFICATION FairSpec
CONSTANTS
  a1 = a1
  a2 = a2
  a3 = a3
  f1 = f1
  f2 = f2
  f3 = f3
  f4 = f4
  NoAnchor = NoAnchor
  Anchor = {a1, a2}
  Follower = {f1}
  Initial <- AllToVictim
  InitialCapacity = 2
  Victims = {}
  Silenceable = {a1}
  Rejectable = {a1}
  Lossy = TRUE
  Lagging = FALSE
  WarmedUp = TRUE
  MaxCopies = 1
  MaxInFlight = 5
PROPERTIES
  Recovery
CHECK_DEADLOCK FALSE

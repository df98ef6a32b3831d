SPECIFICATION Spec
CONSTANTS
  N = 4
  NSpoofed = {1, 2}
  Edge <- AllButEnds
  Marginal <- FirstPair
  MSuspect = 2
  Window = 1
  Cooldown = 2
  Budget = 5
  Observe = 5
  Ticks = 2
INVARIANTS
  TypeOK
  AlertJustified
  VictimsFoundInTime
CHECK_DEADLOCK FALSE

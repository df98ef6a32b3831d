SPECIFICATION Spec
CONSTANTS
  N = 4
  NSpoofed = {1, 2}
  Edge <- Pairs
  Marginal = {}
  MSuspect = 2
  Window = 1
  Cooldown = 2
  Budget = 5
  Observe = 5
  Ticks = 2
INVARIANTS
  PeelingAttributes
CHECK_DEADLOCK FALSE

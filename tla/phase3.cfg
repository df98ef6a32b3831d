SPECIFICATION Spec
CONSTANTS
  Shapes <- AllShapes
  Directions <- TwoDirections
  RComm = 100
  Flown <- Smallest
  FlownDirection <- Eastward
  UAV = {0, 1, 2}
  Node = {0, 2}
  Anchor = {0, 1}
  Link = {{0, 1}, {0, 2}, {1, 2}}
  Telling = {2}
  MaxFlakes = 2
INVARIANTS
  GraphTypeOK
  UpdatesSucceed
  HopIsShortest
  HopIsExact
PROPERTIES
  SwarmEstimated
CHECK_DEADLOCK FALSE

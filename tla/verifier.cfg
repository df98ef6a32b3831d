SPECIFICATION Spec
CONSTANTS
  UAV = {0, 1, 2}
  Publishing = {1, 2}
  Self = 0
  Forger = {2}
  Place <- Places
  NTiles = 32
  Readable <- ReadableTiles
  Keypoints <- KeypointsOfTiles
  RVerify = 500
  OffsetX = 3000
  KModeA = 20
  TVerify = 30
  MaxLen = 6
  Depth = 2
  MaxAge = 1
  Start <- InitialPositions
  Horizon = 3
  MaxMoves = 1
  MaxFailures = 1
INVARIANTS
  JudgedOnce
  VerdictsAreSound
  QueueHasRoom
PROPERTIES
  NearIsJudged
CHECK_DEADLOCK FALSE

SPECIFICATION FairSpec
CONSTANTS
  u1 = u1
  u2 = u2
  u3 = u3
  u4 = u4
  u5 = u5
  Unknown = Unknown
  UAV = {u1, u2, u3, u4}
  Publishing = {u2, u4}
  Byzantine = {u4}
  Blind = {}
  Manager = {u2, u3, u4}
  Observer = {u1}
  One = 3
  RInit = 2
  AlphaPos = 2
  AlphaNeg = 2
  TReject = 1
  TQuorum = 1
  MQuorum = 2
  Kept = 2
  MaxLapses = 1
INVARIANTS
  TypeOK
  HonestNeverExcluded
  ExclusionStands
PROPERTIES
  ByzantineExcluded
CHECK_DEADLOCK FALSE

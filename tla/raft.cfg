SPECIFICATION Spec
CONSTANTS
  n1 = n1
  n2 = n2
  n3 = n3
  n4 = n4
  Nobody = Nobody
  Node = {n1, n2, n3}
  Byzantine = {n1}
  MaxTerm = 2
SYMMETRY Honest
INVARIANTS
  TypeOK
  OneLeaderPerTerm
  LeaderIsElected
  HeartbeatIsElected
PROPERTIES
  OnlyLiarsDepose
  ImplementsElection
CHECK_DEADLOCK FALSE

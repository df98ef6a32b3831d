SPECIFICATION Spec
CONSTANTS
  TTimeout = 10
  TWindow = 2
  TAttach = 4
  MaxOffers = 2
  MaxTimers = 2
  MaxOrphan = 30
INVARIANTS
  TypeOK
  NoOverlongWait
  ReportedTimeBounded
CHECK_DEADLOCK FALSE

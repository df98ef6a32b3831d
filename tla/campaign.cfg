SPECIFICATION Spec
CONSTANTS
  Trial = {0, 1}
  Worker = {0, 1, 2}
  Jobs <- JobsOfScripts
  Pid <- PidsOfWorkers
  Leftovers <- LeftByEarlierSweeps
  Watched = 0
  M = 4
  F = 3
  Victims = 2
  First = 2
  Step = 1
  Warmup = 1
  Mission = 3
  CapBudget = 1
  RebalanceBudget = 2
INVARIANTS
  RowsAccounted
  DisturbedForCause
  PassIsEarned
  EventsOnTime
  BooksAgree
PROPERTIES
  KeepsLedger
CHECK_DEADLOCK FALSE

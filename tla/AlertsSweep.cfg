\* The sweep against operators, reviewers and crashes.
CONSTANTS
  tank = tank
  probe1 = probe1
  probe2 = probe2
  Movements <- RecentRise
  EventRows = 2
  CandidateRows = 1
  MeasuredVolume = 1
  StatedVolumes = {Nil}
  Callers = {sweeper, op}
  Runners = {sweeper}
  Sweeper = sweeper
  Operators = {op}
  Conditions <- FaultyProbe
  Overlap = TRUE
  Database = TRUE
  MaxEvents = 3
  MaxDeliveries = 1
  MaxAlerts = 5
  MaxChanges = 3
  Nil = Nil
SPECIFICATION FairAlSpec
INVARIANTS ConfirmedHasDelivery
PROPERTY PersistentIsAlerted OverIsClosed
CHECK_DEADLOCK FALSE

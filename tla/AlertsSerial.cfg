\* Runs of the rules, reviewers and operators, one at a time, with crashes.
CONSTANTS
  tank = tank
  probe1 = probe1
  probe2 = probe2
  Movements <- RiseThenFall
  EventRows = 2
  CandidateRows = 2
  MeasuredVolume = 2
  StatedVolumes = {Nil, 0, 1}
  Callers = {sweeper, op}
  Runners = {sweeper}
  Sweeper = sweeper
  Operators = {op}
  Conditions <- FaultyAndOffline
  Overlap = FALSE
  Database = FALSE
  MaxEvents = 4
  MaxDeliveries = 2
  MaxAlerts = 4
  MaxChanges = 3
  Nil = Nil
SPECIFICATION AlSpec
INVARIANTS OneOpenAlert OneDeliveryPerEvent OneEventPerMovement
PROPERTY ResolvedIsFinal DecisionsAreFinal
CHECK_DEADLOCK FALSE

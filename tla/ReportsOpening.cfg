\* Reports of the readings in PostgreSQL.
CONSTANTS
  Volumes = {0, 500, 600, 1000}
  Qualities = {"ok", "suspect", "invalid"}
  DeliveryLitres = 300
  DeliveryWindow = 1
  DropPerHour = 5000
  MinDecreaseWindow = 1
  Lookback = 1
  Horizon = 2
  RecentReadings = 2
  WaterLevels = {0, 2}
  Ties = 2
  MaxReadings = 2
  MaxEvents = 2
  Capacity = 1000
  CriticalPercent = 10
  LowPercent = 40
  HighPercent = 55
  WaterAlarm = 2
  StaleAfter = 1
  OfflineAfter = 1
  FaultRun = 2
  Nil = Nil
  Database = TRUE
  Points <- WideBottom
  Samples <- Measured
  StatedVolumes = {Nil, 0, 250}
  ListRows = 3
  Buckets = {2, 3}
SPECIFICATION RepSpec
INVARIANTS OpeningIsBefore
CHECK_DEADLOCK FALSE

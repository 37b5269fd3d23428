\* Four readings in any order of arrival, detection, reviews and reports.
CONSTANTS
  Volumes = {0, 500, 600, 1000}
  Qualities = {"ok", "suspect", "invalid"}
  DeliveryLitres = 600
  DeliveryWindow = 2
  DropPerHour = 5000
  MinDecreaseWindow = 1
  Lookback = 3
  Horizon = 4
  RecentReadings = 3
  WaterLevels = {0, 2}
  Ties = 1
  MaxReadings = 4
  MaxEvents = 2
  Capacity = 1000
  CriticalPercent = 10
  LowPercent = 40
  HighPercent = 55
  WaterAlarm = 2
  StaleAfter = 3
  OfflineAfter = 1
  FaultRun = 2
  Nil = Nil
  Database = FALSE
  Points <- WideBottom
  Samples <- Measured
  StatedVolumes = {Nil, 0, 250}
  ListRows = 3
  Buckets = {2, 3}
SPECIFICATION RepSpec
INVARIANTS OneEventPerObservation DecreasesDisjoint ReportsAgree SilenceIsReported HealthyIsUnalarmed ResidualsAddUp
PROPERTY DeliveredIsSettled
CHECK_DEADLOCK FALSE

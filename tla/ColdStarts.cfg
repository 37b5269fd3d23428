\* Starts of one or two processes, over the database or memory stores.
CONSTANTS
  Starts = {s1, s2}
  Files = {1, 2}
  Checksums = {v1}
  MaxRuns = 3
  Crashes = TRUE
  Aborts = TRUE
  Instances = {i1, i2}
  Servers = {i2}
  Tables = 1
  Outages = TRUE
  Nil = Nil
SPECIFICATION FairColdSpec
INVARIANTS AppliedOnce SkippedWereCut SeededIsInstalled RevokedStaysRevoked
PROPERTY StartsEnd
CHECK_DEADLOCK FALSE

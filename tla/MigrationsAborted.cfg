\* A statement that fails when it is executed.
CONSTANTS
  Starts = {s1}
  Files = {1, 2}
  Checksums = {v1}
  MaxRuns = 2
  Crashes = FALSE
  Aborts = TRUE
  Nil = Nil
SPECIFICATION MigSpec
INVARIANTS AppliedWasCommitted
CHECK_DEADLOCK FALSE

\* Uploads of a probe, and of a simulated device, while an operator registers,
\* moves and removes them.
CONSTANTS
  d1 = d1
  d2 = d2
  t1 = t1
  t2 = t2
  k1 = k1
  k2 = k2
  s1 = s1
  Devs = {d1, d2}
  Serials = {s1, s2}
  Tanks = {t1, t2}
  Callers = {r1, admin}
  Requests = {r1}
  Ops = {"register", "assign", "unassign"}
  Patches = {"retired"}
  Database = TRUE
  Overlap = TRUE
  MaxAssignments = 2
  Keys = {k1, k2}
  Instants = {1, 2}
  RecentReadings = 2
  Sweeps = FALSE
  MaxReadings = 2
  HealthyTanks = {}
  Nil = Nil
  Samples <- ProbeAndSimulated
  SimulatedSerial <- OneSerial
SPECIFICATION IngSpec
INVARIANTS IngTypeOK HardwareIsAttributable SerialsUnique
PROPERTY HistoryKept

\* Retries of two dips that race each other, the second taken before the first,
\* and the sweep that makes good the evaluations lost.
CONSTANTS
  d1 = d1
  d2 = d2
  t1 = t1
  t2 = t2
  k1 = k1
  k2 = k2
  s1 = s1
  Devs = {d1}
  Serials = {s1}
  Tanks = {t1, t2}
  Callers = {r1, r2}
  Requests = {r1, r2}
  Ops = {}
  Patches = {"retired"}
  Database = TRUE
  Overlap = TRUE
  MaxAssignments = 1
  Keys = {k1, k2}
  Instants = {1, 2}
  RecentReadings = 1
  Sweeps = TRUE
  MaxReadings = 2
  HealthyTanks = {t1}
  Nil = Nil
  Samples <- LateDips
  SimulatedSerial <- OneSerial
SPECIFICATION FairIngSpec
PROPERTY ImplementsLedger StoredIsEvaluated

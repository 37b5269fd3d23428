\* Two overlapping assignments of one device.
CONSTANTS
  Devs = {d1}
  Serials = {s1}
  Tanks = {t1, t2}
  Callers = {c1, c2}
  Ops = {"register", "assign"}
  Patches = {"retired"}
  Database = TRUE
  Overlap = TRUE
  MaxAssignments = 2
  Nil = Nil
SPECIFICATION DevSpec
INVARIANTS OneActivePerDevice

\* Administrators one call at a time, with crashes: the assignment protocol.
CONSTANTS
  Devs = {d1, d2}
  Serials = {s1, s2}
  Tanks = {t1, t2}
  Callers = {c1}
  Ops = {"register", "updateDevice", "updateTank", "assign", "unassign", "touch"}
  Patches = {"retired", "active", Nil}
  Database = TRUE
  Overlap = FALSE
  MaxAssignments = 3
  Nil = Nil
SPECIFICATION DevSpec
INVARIANTS OneActivePerDevice CurrentIsLastAnswered
PROPERTY OnlyOperatorsRestore

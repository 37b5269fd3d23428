\* Two requests at a time, a key that comes and goes, and restarts.
CONSTANTS
  Keys = {k1}
  Limit = 2
  WindowSeconds = 2
  Second = 1
  Horizon = 3
  MaxAttempts = 4
  StatusTtl = 1
  QueryTicks = 1
  Slots = {s1, s2}
  Expiries = {2}
  MaxRequests = 4
  Nil = Nil
SPECIFICATION ReqSpec
INVARIANTS UsableIsAdmitted RevokedIsRefused AnswersMatchEffects BurstIsBounded
PROPERTY StatusIsRecent
CHECK_DEADLOCK FALSE
SYMMETRY SlotSymmetry

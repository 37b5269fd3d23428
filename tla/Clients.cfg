\* The console with two keys and two records, or the simulator with two tanks.
CONSTANTS
  StationDrafts <- SomeStations
  TankDrafts <- SomeTanks
  DeviceDrafts <- SomeDevices
  DipDrafts <- SomeDips
  Volume <- AnyVolume
  Keys = {"owner", "station"}
  Granted <- TwoKeys
  Ids = {"r1", "r2"}
  MaxChanges = 2
  MaxConnects = 2
  Nil = Nil
  Points <- SmallTank
  TankIds <- TwoTanks
  SimCapacity = 780
  Grain = 2
  FillPercent = 65
  InitialWater = 1
  Draws = {100}
  Slow = 100
  Fast = 300
  Growth = 2
  Noises <- Around
  Failures = {0, 2}
  Slots = {s1, s2}
  MaxRuns = 2
  MaxClock = 1
SPECIFICATION ClientsSpec
SYMMETRY SlotSymmetry
INVARIANTS SessionIsOfLastKey SettledIsCurrent OfferedIsAccepted OutcomesAreTrue SimulatedIsPhysical
PROPERTY ShownNeverGoesBack
CHECK_DEADLOCK FALSE

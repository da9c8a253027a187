SPECIFICATION Spec
CONSTANTS
  N = 2
  MaxJobs = 2
  None = None
  Failed = Failed
  Readings = {1, None}
  Hold = 2
  ShedDeadline = 1
  SleepCooldown = 1
  WakeSustain = 1
  SleepSustain = 1
  JobSize <- Job
  Capacity <- Size
  Default <- Unset
  HeadroomPct = 60
  Saturations = {0}
  Fits = {"yes", "no"}
  Actors = {"visit", "restart", "headroom"}
INVARIANTS
  Inv
PROPERTIES
  WithinBudget
  UpFirst
  ForcedWithinReading
  ShedIsMeasured
  HeadroomKept

SPECIFICATION FairSpec
CONSTANTS
  N = 2
  MaxJobs = 1
  None = None
  Failed = Failed
  Readings = {0, None, Failed}
  Hold = 1
  ShedDeadline = 1
  SleepCooldown = 1
  WakeSustain = 0
  SleepSustain = 0
  JobSize <- Job
  Capacity <- Size
  Default <- Unset
  HeadroomPct = 0
  Saturations = {0}
  Fits = {"yes"}
  Actors = {"demand","operator"}
PROPERTIES
  NoNeedlessMachine
  CeilingObeyed
  FlapReachesDeadline
  SparingEnds
  WorkServed
  IdlePoolSleeps

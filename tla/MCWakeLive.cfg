SPECIFICATION FairSpec
CONSTANTS
  Never = Never
  WakeTimeout = 1
  CycleCooldown = 1
  VisitGrace = 1
  Outcomes = {"done", "failed"}
  Actors = {"deaf", "flaky", "cutoff"}
PROPERTIES
  OutageIsReported
  TroubleReachesNode

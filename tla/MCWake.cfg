SPECIFICATION Spec
CONSTANTS
  Never = Never
  WakeTimeout = 1
  CycleCooldown = 3
  VisitGrace = 1
  Outcomes = {"done", "failed", "lost"}
  Actors = {"operator", "restart", "ceiling", "wedge"}
INVARIANTS
  Inv
  OneCyclePerCooldown
PROPERTIES
  TakenNodeLeftAlone

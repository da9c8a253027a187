SPECIFICATION Spec
CONSTANTS
  Units = {u1}
  Never = Never
  DrainTimeout = 1
  ShutdownTimeout = 1
  SleepCooldown = 1
  ShedDeadline = 1
  MaxAttempts = 1
  Outcomes <- AllOutcomes
  Actors = {"operator", "ceiling", "restart", "ignore"}
INVARIANTS
  Inv
  DrainedBeforeShutdown
  NoSecondShutdown
PROPERTIES
  ShutdownUndisturbed
  SeenHoldRespected

SPECIFICATION FairSpec
CONSTANTS
  Units = {u1}
  Never = Never
  DrainTimeout = 1
  ShutdownTimeout = 1
  SleepCooldown = 1
  ShedDeadline = 1
  MaxAttempts = 1
  Outcomes = {"done"}
  Actors = {"restart", "wedge", "ignore", "ceiling"}
PROPERTIES
  HungDrainReturned
  HeldNodeSettles

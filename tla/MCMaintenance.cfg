SPECIFICATION FairSpec
CONSTANTS
  Never = Never
  PowerOnBound = 2
  ShutdownTimeout = 2
  Outcomes <- AllOutcomes
  Actors = {"restart"}
INVARIANTS
  Inv
  NotTakenUpGoingDown
PROPERTIES
  PersonsPowerOffStands
  RequestSettles

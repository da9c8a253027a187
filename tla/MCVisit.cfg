SPECIFICATION FairSpec
CONSTANTS
  Never = Never
  VisitTimeout = 1
  Window = 1
  WakeTimeout = 0
  Outcomes <- AllOutcomes
  Actors = {"operator", "restart"}
INVARIANTS
  Inv
PROPERTIES
  VisitGraceHonoured
  HandedIsNotVisited
  PoweredIsExplained

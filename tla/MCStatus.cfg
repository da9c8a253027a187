SPECIFICATION FairSpec
CONSTANTS
  Reports = {engaged, released}
  None = None
  Refresh = 2
  Others = {x, y}
  Outcomes <- AllOutcomes
  Actors = {"restart", "others", "threads"}
INVARIANTS
  Inv
PROPERTIES
  BoardSpec
  LatestIsShown

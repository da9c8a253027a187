SPECIFICATION FairSpec
CONSTANTS
  Reports = {engaged, released}
  None = None
  Refresh = 1
  Others = {x}
  Outcomes <- AllOutcomes
  Actors = {"threads"}
PROPERTIES
  NextTickTriesAgain

SPECIFICATION FairSpec
CONSTANTS
  byInstance = byInstance
  byNode = byNode
  None = None
  Configs <- TwoConfigs
  Copies = 2
  Actors = {"restart", "expiry", "late", "operator"}
INVARIANTS
  Inv
PROPERTIES
  CutIsAnnounced
  ReplacedFirst
  LoudInTheEnd
  MutedInTheEnd

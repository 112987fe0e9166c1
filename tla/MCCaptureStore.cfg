SPECIFICATION FairSpec
CONSTANTS
  claude = claude
  Bins = {claude}
  Capturers = {c1, c2}
  Pruners = {p1}
  Homes = {h1}
  Versions = {1, 2}
  LastFile = 2
  HomeBin <- HomesRunClaude
  MaxPrunes = 2
  MaxFaults = 1
INVARIANTS MaterializedIsWhole OneRunPerEntry TornOnlyByReap
PROPERTIES SelectionSurvives StoreFills

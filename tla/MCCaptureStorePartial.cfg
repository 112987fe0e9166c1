SPECIFICATION Spec
CONSTANTS
  claude = claude
  Bins = {claude}
  Capturers = {c1, c2}
  Pruners = {p1}
  Homes = {h1}
  Versions = {1, 2}
  LastFile = 2
  HomeBin <- HomesRunClaude
  MaxPrunes = 1
  MaxFaults = 0
INVARIANTS RunsWhole

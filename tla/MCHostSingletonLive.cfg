SPECIFICATION FairSpec
CONSTANTS
  claude = claude
  openai = openai
  Claude = claude
  None = None
  Callers = {c1, c2}
  Instances = {d1, d2}
  Names = {openai}
  Migrates = {openai}
  Verbs = {"ensure", "stop", "restart"}
  MaxCrashes = 1
  SlowBind = FALSE
  Orphans = TRUE
CHECK_DEADLOCK FALSE
PROPERTY EnsureEnds

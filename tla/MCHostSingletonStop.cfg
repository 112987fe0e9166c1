SPECIFICATION Spec
CONSTANTS
  claude = claude
  openai = openai
  Claude = claude
  None = None
  Callers = {c1, c2}
  Instances = {d1, d2, d3}
  Names = {openai}
  Migrates = {}
  Verbs = {"ensure", "restart"}
  MaxCrashes = 0
  SlowBind = FALSE
  Orphans = TRUE
CHECK_DEADLOCK FALSE
INVARIANT OneDaemon

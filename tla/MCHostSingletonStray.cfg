SPECIFICATION Spec
CONSTANTS
  claude = claude
  openai = openai
  Claude = claude
  None = None
  Callers = {c1, c2}
  Instances = {d1, d2}
  Names = {openai, claude}
  Migrates = {}
  Verbs = {"ensure", "stop"}
  MaxCrashes = 0
  SlowBind = FALSE
  Orphans = TRUE
CHECK_DEADLOCK FALSE
INVARIANT KillsItsOwn

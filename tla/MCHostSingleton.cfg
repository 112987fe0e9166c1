SPECIFICATION Spec
CONSTANTS
  claude = claude
  openai = openai
  Claude = claude
  None = None
  Callers = {c1, c2, c3}
  Instances = {d1, d2, d3, d4}
  Names = {openai, claude}
  Migrates = {openai}
  Verbs = {"ensure"}
  MaxCrashes = 1
  SlowBind = FALSE
  Orphans = FALSE
CHECK_DEADLOCK FALSE
SYMMETRY Interchangeable
INVARIANTS OneDaemon Findable

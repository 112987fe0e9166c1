SPECIFICATION Spec
CONSTANTS
  Launches = {l1, l2, l3}
  None = None
  MaxCrashes = 1
  Slow = FALSE
  Early = FALSE
  Hatch = FALSE
  Mute = FALSE
CHECK_DEADLOCK FALSE
PROPERTY ReapsOrphansOnly

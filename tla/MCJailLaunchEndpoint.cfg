SPECIFICATION Spec
CONSTANTS
  Launches = {l1, l2}
  None = None
  MaxCrashes = 0
  Slow = FALSE
  Early = FALSE
  Hatch = FALSE
  Mute = FALSE
CHECK_DEADLOCK FALSE
INVARIANT EndpointKept

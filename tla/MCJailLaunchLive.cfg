SPECIFICATION FairSpec
CONSTANTS
  Launches = {l1, l2}
  None = None
  MaxCrashes = 1
  Slow = FALSE
  Early = FALSE
  Hatch = TRUE
  Mute = FALSE
CHECK_DEADLOCK FALSE
PROPERTY LaunchSettles

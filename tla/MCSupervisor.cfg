SPECIFICATION FairSpec
CONSTANTS
  proxy = proxy
  bridge = bridge
  oneshot = oneshot
  Daemons <- Three
  Restart <- ThreePolicies
  SlowSpawn = TRUE
CHECK_DEADLOCK FALSE
INVARIANTS ClaimedIsSignalled NoSurvivor
PROPERTIES PolicyKept StopEnds AlwaysRetried

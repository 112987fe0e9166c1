\* A jail, the host user and the proactive refresher; two token sets.
SPECIFICATION Spec
CONSTANTS
  j1 = j1
  j2 = j2
  h1 = h1
  bg = bg
  Jails <- OneJail
  Hosts <- OneHost
  Proactive = bg
  LoginPorts = 1
  MaxIssue = 2
  MaxAgain = 1
  NoState = NoState
  Unreadable = Unreadable
  Nobody = Nobody
INVARIANTS PresentsCanonical NoDoubleSpend
PROPERTIES RefusalIsFinal GrantSpec

\* Two jails with Codex views, the refresher, and nobody who can log out.
SPECIFICATION FairSpec
CONSTANTS
  j1 = j1
  j2 = j2
  h1 = h1
  bg = bg
  Jails <- TwoJails
  Hosts <- NoHosts
  Proactive = bg
  LoginPorts = 1
  MaxIssue = 2
  MaxAgain = 1
  NoState = NoState
  Unreadable = Unreadable
  Nobody = Nobody
INVARIANTS StaleNeverRedeems
PROPERTIES RequestsEnd

\* One jail and the background refresher; two logins' worth of token sets and a
\* broker that may die, or fail to lock, once.
SPECIFICATION FairSpec
CONSTANTS
  Jails = {j1}
  Background = bg
  MaxIssue = 3
  MaxFaults = 1
  Absent = Absent
  Nobody = Nobody
INVARIANTS RedeemsTheFile NeverBurnt NotHandedBack
PROPERTIES CredentialSpec DueIsTried

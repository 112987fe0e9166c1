SPECIFICATION FairSpec
CONSTANTS
    narrow = narrow
    wide = wide
    apart = apart
    c1 = c1
    work = work
    home = home
    policy = policy
    none = none
    Daemons = {narrow, wide, apart}
    Callers = {c1}
    Profiles = {work, home}
    Digests = {policy, none}
    DaemonOf <- OfNarrow
    Profile <- TwoProfiles
    Narrowing <- TwoNarrowings
    Lives <- LongAndShort
    Left <- LeftBehind
    Lead = 2
    MaxUp = 2
    MaxFaults = 1
INVARIANTS NoNeedlessMint ServedFits WindowNotSkipped
PROPERTIES NoLostMint KeptWarm
CHECK_DEADLOCK FALSE

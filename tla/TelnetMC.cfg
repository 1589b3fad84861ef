SPECIFICATION FairSpec
CONSTANTS
  c1 = c1
  c2 = c2
  c3 = c3
  ip1 = ip1
  ip2 = ip2
  Conns <- Three
  Ip <- From
  IPs = {ip1, ip2}
  MaxSessions = 2
  MaxSessionsPerIP = 1
  MaxAuthAttempts = 2
  MaxCommands = 1
  MaxPanics = 1
INVARIANTS
  BudgetExact
  NotCrowdedOut
  TranscriptsWhole
PROPERTY
  SlotsReturn
CHECK_DEADLOCK FALSE

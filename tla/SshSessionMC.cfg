SPECIFICATION Spec
CONSTANTS
  Channels = {ch1, ch2, ch3}
  IPs = {ip}
  Source = ip
  MaxSessions = 2
  MaxSessionsPerIP = 2
  MaxOffers = 2
  MaxCommands = 1
INVARIANTS
  OneStartOneEnd
  NeverOvercounts
PROPERTY
  ReasonKept
CHECK_DEADLOCK FALSE

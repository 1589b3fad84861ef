SPECIFICATION WebFairSpec
CONSTANTS
  Sources = {s1, s2, s3}
  Requests = {q1, q2}
  MaxWebSessions = 2
  MaxRecorders = 3
  MaxEvents = 3
INVARIANTS
  ExactlyOnePlace
  EndIsLastWhileUp
PROPERTY
  QuietSessionsEnd
CHECK_DEADLOCK FALSE

SPECIFICATION Spec
CONSTANTS
  s1 = s1
  s2 = s2
  s3 = s3
  Events <- Traffic
  NoSession = NoSession
  NoVal = NoVal
  MAX_SESSIONS = 2
  MAX_EVENTS_PER_SESSION = 2
  MAX_RECENT = 2
  MaxIngest = 4
INVARIANTS
  InStep
  ViewsAccurate
  FeedJustified

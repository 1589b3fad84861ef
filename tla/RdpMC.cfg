CONSTANTS
  Conns = {"c1", "c2"}
  Ip <- Sources
  MaxSessionsPerIP = 1
  Requests <- SomeRequests
  MinRead = 3
  MinRequest = 5
  TpktLen = 2
  FixedLen = 3
  NegLen = 3
  Letters = {"a", "b", "nla", "wide", "junk"}
  Junk = {"junk"}
  Width <- Widths
  MaxText = 3
SPECIFICATION Spec
INVARIANT StoryWhole
INVARIANT NeverHalfACookie
PROPERTY PlacesReturn
CHECK_DEADLOCK FALSE

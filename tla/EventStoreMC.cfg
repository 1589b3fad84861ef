SPECIFICATION StoreFairSpec
CONSTANTS
  Collectors = {c1, c2}
  Kind <- Stream
  MaxPuts = 3
  MaxFails = 1
INVARIANTS
  SchemaCreatedOnce
  OkMeansStored
  SessionReflectsEvents
PROPERTY
  EveryCollectorStarts
CHECK_DEADLOCK FALSE

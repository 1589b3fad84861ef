CONSTANTS
  MaxWriteBytes = 6
  Home <- HomeDir
  MaxBlock = 2
  Lines <- SomeLines
  Users = {"root", "user"}
  MaxCommands = 3
  Payload = {"a", "b", "c", "d"}
SPECIFICATION Spec
INVARIANT ChangesAreMarked
INVARIANT QuotaHolds
INVARIANT OnRecordFirst
INVARIANT DropsAreUploads
CHECK_DEADLOCK FALSE

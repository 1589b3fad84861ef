CONSTANTS
  Keyboards <- SomeKeyboards
  MaxSegment = 3
  ChunkSize = 3
  MaxInput = 5
  MaxPrompt = 2
SPECIFICATION TerminalSpec
INVARIANT PayloadInOrder
INVARIANT NothingWithheld
INVARIANT LinesFaithful
INVARIANT PartsAreIndependent
CHECK_DEADLOCK FALSE

SPECIFICATION FairSpec
CONSTANTS
  Writers = {w1, w2}
  MaxSeq = 3
  MaxBytes = 6
  RecordSize = 1
  Growth = {1}
  BatchSize = 2
  MaxFaults = 2
  InboxCap = 1
INVARIANTS
  EveryLossHasACause
  VerdictsExact
PROPERTY
  DrainsEventually

SPECIFICATION Spec
CONSTANTS
  Writers = {w1, w2}
  MaxSeq = 4
  MaxBytes = 3
  RecordSize = 1
  Growth = {0, 1}
  BatchSize = 2
INVARIANTS
  Accounted
  DropsCounted
PROPERTY
  ImplementsRecordFate

SPECIFICATION Spec
CONSTANTS
  Nodes = {n1, n2}
  NoNode = NoNode
  MaxSeq = 4
  MaxReceived = 4
INVARIANTS
  Conservation
  IdentityIsolated
  HolesRecorded

CONSTANTS
  HostKeys = 2
  Names <- SomeNames
  Fold <- Folded
  Roster = {"root", "ann"}
  WeakAccounts = {"root"}
  HeadPasswords <- FirstList
  TailPasswords <- SecondList
  Mac <- Macs
  MaxFaults = 2
SPECIFICATION Spec
INVARIANT OneIdentity
INVARIANT NeverContradicts
PROPERTY ComesUp

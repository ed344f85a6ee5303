SPECIFICATION Spec
CONSTANTS
  None = None
  Second = 2
  AgeMod = 16
  Storage = "X509"
  Identities = {a, b}
  Capacity = 1
  FirstSecrets <- MCFirstSecrets
  SecretLists <- MCSecretLists
  OldSecrets <- MCOldSecrets
  Policy <- MCPolicy
  MaxPskLife = 4
  Tolerance <- MCTolerance
  AgeAdds = {13}
  Cells <- MCCells
  CellsOf <- MCCellsOf
  Buckets = 4
  BucketWidth = 1
  Bounds <- MCBounds
  Conns = {c1, c2}
CHECK_DEADLOCK FALSE
SYMMETRY Symmetry
INVARIANTS
  EarlyDataOnce
  TicketsRespectPolicy

CONSTANTS
  Thread = {t1, t2}
  Dir = {d1}
  Id = {0, 1, 2, 3, 4, 5}
  TargetId = {1, 2}
  Content = {a, b}
  Null = Null
  Truncated = Truncated
  NotNumber = NotNumber
  TooLarge = TooLarge
  MaxRequests = 3
SPECIFICATION Spec
SYMMETRY Symmetry
INVARIANTS
  CrudInv
  MapCoversDisk
  DiskIsAcknowledged
  AcknowledgedIsFound
  NobodyIsStuck

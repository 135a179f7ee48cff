CONSTANTS
  a = a
  b = b
  Target <- MCTarget
  PutTarget <- MCPutTarget
  Found <- MCFound
  Content = {a, b}
  Null = Null
  NotNumber = NotNumber
  TooLarge = TooLarge
  Uninitialized = {0, 1}
  MaxInt = 11
  MaxRequests = 3
SYMMETRY Symmetry
SPECIFICATION Spec
CHECK_DEADLOCK FALSE
INVARIANTS GetIsLastWrite ListedWasNamed DiskIsStored

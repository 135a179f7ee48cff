CONSTANTS
  a = a
  b = b
  Target <- MCTarget
  PutTarget <- MCPutTarget
  Found <- MCForeign
  Content = {a, b}
  Null = Null
  NotNumber = NotNumber
  TooLarge = TooLarge
  Uninitialized = {0, 1}
  MaxInt = 11
  MaxRequests = 3
SPECIFICATION Spec
CHECK_DEADLOCK FALSE
INVARIANT ListedWasNamed

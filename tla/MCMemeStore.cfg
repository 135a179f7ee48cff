CONSTANTS
  Thread = {t1, t2}
  Id = {1, 2, 3}
  Body = {a, b}
  Malformed = Malformed
  Rating = {1, 2}
  Unit = 12
  Float <- MCFloat
  Even <- MCEven
  TextUnit = 4
  Garbage <- MCGarbage
  Null = Null
  Torn = Torn
  Empty = Empty
  MaxRequests = 3
  MaxSignals = 1
SPECIFICATION Spec
SYMMETRY Symmetry
INVARIANTS
  TypeOK
  PostedIsKept
  ServedIsPosted
  PostedIsFound
  OwnViewIsCounted
  ViewsAreSaved
  RatingsAreSaved
  MeanIsInRange
  NobodyIsStuck
CHECK_DEADLOCK FALSE

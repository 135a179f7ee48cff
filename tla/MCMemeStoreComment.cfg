CONSTANTS
  Thread = {t1}
  Id = {1, 2}
  Body = {a}
  Malformed = Malformed
  Rating = {1}
  Unit = 12
  Float <- MCFloat
  Even <- MCEven
  TextUnit = 4
  Garbage <- MCGarbage
  Null = Null
  Torn = Torn
  Empty = Empty
  MaxRequests = 2
  MaxSignals = 0
SPECIFICATION Spec
INVARIANT CommentIsStored
CHECK_DEADLOCK FALSE

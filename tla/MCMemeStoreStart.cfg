CONSTANTS
  Thread = {t1}
  Id = {1, 2, 3}
  Body = {a}
  Malformed = Malformed
  Rating = {1}
  Unit = 12
  Float <- MCFloat
  Even <- MCEven
  TextUnit = 4
  Garbage <- MCGarbage
  Null = Null
  Torn = Torn
  Empty = Empty
  MaxRequests = 3
  MaxSignals = 1
SPECIFICATION Spec
PROPERTY ServiceStarts
CHECK_DEADLOCK FALSE

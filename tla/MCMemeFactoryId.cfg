CONSTANTS
  Thread = {t1, t2}
  Location = {l1}
  Body = {b1, b2}
  Id <- Ids
  MaxRequests = 2
  Null = Null
  Torn = Torn
SPECIFICATION Spec
CHECK_DEADLOCK FALSE
INVARIANT
  IdsAreUnique

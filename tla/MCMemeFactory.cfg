CONSTANTS
  Thread = {t1, t2}
  Location = {l1, l2}
  Body = {b1, b2}
  Id <- Ids
  MaxRequests = 3
  Null = Null
  Torn = Torn
SPECIFICATION Spec
SYMMETRY Symmetry
CHECK_DEADLOCK FALSE
INVARIANTS
  RaceIsAtTheStart
  OneModuleOneId
  StoredIsKeptFromLater

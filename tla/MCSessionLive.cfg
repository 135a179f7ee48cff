CONSTANTS
  Session = {s1, s2}
  Socket = {k1, k2}
  Worker = {w1, w2}
  Request <- Lengths
  max_length = 1
  MaxFailures = 0
  NotNumber = NotNumber
  TooLarge = TooLarge
  Null = Null
SPECIFICATION FairSpec
CHECK_DEADLOCK FALSE
PROPERTIES
  SentIsAnswered
  GoneIsDeleted

CONSTANTS
  Session = {s1, s2}
  Socket = {k1, k2, k3}
  Worker = {w1, w2}
  Request <- Requests
  max_length = 3
  MaxFailures = 1
  NotNumber = NotNumber
  TooLarge = TooLarge
  Null = Null
SPECIFICATION Spec
CHECK_DEADLOCK FALSE
INVARIANT
  SocketsAreOwned

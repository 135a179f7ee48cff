CONSTANTS
  Text <- Tokens
SPECIFICATION Spec
CHECK_DEADLOCK FALSE
INVARIANT
  AcceptedIsClosed

CONSTANTS
  Text <- Characters
SPECIFICATION Spec
CHECK_DEADLOCK FALSE
INVARIANT
  AcceptedIsWhole

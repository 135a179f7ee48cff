CONSTANTS
  Text <- Ports
SPECIFICATION Spec
CHECK_DEADLOCK FALSE
INVARIANT
  PortIsNumber

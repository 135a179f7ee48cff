CONSTANTS
  Text <- Texts
SPECIFICATION Spec
CHECK_DEADLOCK FALSE
INVARIANTS
  RejectedIsInvalid
  NothingIsLost
  RoundTrip
  PortIsTheOnlyOne

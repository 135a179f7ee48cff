CONSTANTS
  Config <- Clash
  Url <- Urls
  Opens <- Files
  Null = Null
SPECIFICATION Spec
CHECK_DEADLOCK FALSE
INVARIANT
  FactoryHasItsArguments

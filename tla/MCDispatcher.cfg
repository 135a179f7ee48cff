CONSTANTS
  Config <- Configs
  Url <- Urls
  Opens <- Files
  Null = Null
SPECIFICATION Spec
CHECK_DEADLOCK FALSE
INVARIANTS
  MatchIsLongest
  ArgumentsCoverFactories
  ConfiguredIsServed
  GoodConfigServes

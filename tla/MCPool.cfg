CONSTANTS
  main = main
  other = other
  checkpoints = checkpoints
  artifacts = artifacts
  elsewhere = elsewhere
  Callers = {c1, c2}
  Urls = {main, other}
  NoUrl = NoUrl
  Stores = {checkpoints, artifacts, elsewhere}
  StoreUrl <- MCStoreUrl
  MaxPools = 3
SPECIFICATION Spec
INVARIANTS
  OverwrittenOnlyByEarlierCallers
PROPERTIES
  OnlyStoresKeepClosedPools
CHECK_DEADLOCK FALSE

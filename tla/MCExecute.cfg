SPECIFICATION FairSpec
CONSTANTS
  h1 = h1
  h2 = h2
  deploy = deploy
  setup = setup
  ghost = ghost
  None = None
  Task <- Tasks
  Host <- Hosts2
  CommandLines <- Lines
  HostLists <- Deduped
  PoolSizes <- Pools
  OwnSizes <- Own
  MarkedParallel = {}
  MarkedSerial = {setup}
  RunsOnce = {setup}
  Known = {setup, deploy}
INVARIANTS
  TypeOK
  FailFast
  StatusIsTrue
  EveryHostIsAnswered
  OnlyOnce
PROPERTIES
  FabEnds

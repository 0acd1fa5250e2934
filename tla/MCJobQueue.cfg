SPECIFICATION FairSpec
CONSTANTS
  j1 = j1
  j2 = j2
  j3 = j3
  h1 = h1
  h2 = h2
  None = None
  Job <- Jobs3
  Host <- Hosts2
  HostOf <- Shared
  MaxRunning = 2
  PipeCapacity = 1
  Endings = {"return", "abort", "killed"}
  NetworkErrorsIgnored = FALSE
INVARIANTS
  TypeOK
  JobsAreAccounted
  WindowIsKept
  ReportIsComplete
PROPERTIES
  NothingIsUndone
  ImplementsFairWindow

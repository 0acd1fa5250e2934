SPECIFICATION Spec
CONSTANTS
  h1 = h1
  h2 = h2
  h3 = h3
  blankH2 = blankH2
  web = web
  db = db
  ghost = ghost
  None = None
  Abort = Abort
  Raw <- Given
  Strip <- Stripped
  Role <- Roles
  Roledefs <- Defined
  Arguments <- SomeArguments
  HostSeqs <- SomeHosts
  RoleSeqs <- SomeRoles
INVARIANTS
  OneLevelCounts
CHECK_DEADLOCK FALSE

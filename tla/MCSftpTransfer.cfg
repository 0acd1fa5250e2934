SPECIFICATION Spec
CONSTANTS
  a = a
  b = b
  c = c
  None = None
  File <- Files3
  Calls <- AllCalls
  ArgLists <- Lists
INVARIANTS
  TypeOK
  ReportIsTrue
  RemoteIsClean

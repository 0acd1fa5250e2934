CONSTANTS
  t1 = t1
  t2 = t2
  t3 = t3
  t4 = t4
  t5 = t5
  none = none
  None = none
  Task <- MCTask
  DefinedName <- MCDefinedName
  Aliases <- MCAliases
  IsDefault <- MCIsDefault
  FabfileModule = "fabfile"
  Directory = "here"
  Fabfiles <- MCFabfiles
  SysPaths <- MCSysPaths
  CommandLines <- MCCommandLines
SPECIFICATION Spec
INVARIANTS
  TypeOK
  PathIsRestored
  TasksAreFound
  RunsWhatWasAsked

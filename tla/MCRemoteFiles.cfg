CONSTANTS
  None = None
  Scripts <- MCScripts
  Originals <- MCOriginals
  MaxStops = 2
SPECIFICATION Spec
INVARIANTS
  TypeOK
  EndsAsUndisturbed
  TarsAreRemoved
PROPERTIES
  BackupIsPrevious

SPECIFICATION Spec
CONSTANTS
  a = a
  b = b
  v = v
  w = w
  Absent = Absent
  Key <- Keys2
  Value <- Vals
  Group <- Groups
  Aliases <- AllAliases
  InitialEnv <- Env
  InitialOutput <- Out
  Blocks <- Calls
  MaxFrames = 4
INVARIANTS
  TypeOK
  BlocksLeaveNoTrace
  BlocksNest

SPECIFICATION Spec
CONSTANTS
  good = good
  bad = bad
  None = None
  Password <- Passwords
  Right = {good}
  Typed = {good, bad}
  Options <- Calls
  MaxWrites = 2
  MaxTries = 2
INVARIANTS
  OutputIsCaptured

SPECIFICATION Spec
CONSTANTS
  c1 = c1
  c2 = c2
  Conn <- Conns1
  Silent = {}
  MaxWrites <- TwoBytes
  ShortSends = TRUE
INVARIANTS
  DataIsForwarded

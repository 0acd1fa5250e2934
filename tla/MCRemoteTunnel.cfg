SPECIFICATION FairSpec
CONSTANTS
  c1 = c1
  c2 = c2
  Conn <- Conns2
  Silent <- Second
  MaxWrites <- TwoBytes
  ShortSends = FALSE
INVARIANTS
  TypeOK
  DataIsForwarded
  LeftClean
PROPERTIES
  BlockEnds

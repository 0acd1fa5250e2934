SPECIFICATION FairSpec
CONSTANTS
  alias = alias
  web = web
  db = db
  gate = gate
  p = p
  q = q
  None = None
  Name <- Names
  Norm <- OneAlias
  Gateway = alias
  Attempts = 2
  Password <- Passwords
  Accepts <- Servers
  Answers <- Guesses
  Initial = None
  AbortOnPrompts = {TRUE, FALSE}
INVARIANTS
  TypeOK
  CacheIsTruthful
  NoLooseChannel
  PromptedOnce
PROPERTIES
  OpEnds

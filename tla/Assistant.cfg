SPECIFICATION FairSpec
CONSTANTS
  Client = {c1, c2}
  Voice = voice
  Nobody = nobody
  AllowPersonalRemote = FALSE
  MaxConnections = 1
  RecallLimit = 1
INVARIANTS
  NothingPrivateLeaves
  ConnectionsCounted
PROPERTIES
  RequestsEnd

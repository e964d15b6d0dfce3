CONSTANTS
  Addr = {a1, a2, a3}
  Undialable = {}
  SessionTimeout = 1
  WarmPoolSize = 1
  WarmSizes <- Sizes
  Replicas = 1
  MaxEdits = 1
SPECIFICATION FairSpec
INVARIANTS
  TypeOK
  NeverToZero
PROPERTIES
  NoScaleLost
  WarmPoolConverges

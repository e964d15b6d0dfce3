CONSTANTS
  Addr = {a1, a2}
  Undialable = {}
  SessionTimeout = 1
  Deleted = Deleted
  Failure = Failure
  MaxEvents = 2
SPECIFICATION FairSpec
INVARIANTS
  TypeOK
  QuietMeansCurrent
PROPERTIES
  ListedAgentStays
  PoolConverges

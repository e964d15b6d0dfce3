CONSTANTS
  Addr = {a1}
  Undialable = {}
  SessionTimeout = 1
  Deleted = Deleted
  Failure = Failure
  MaxEvents = 2
SPECIFICATION Spec
PROPERTY DeletedRemovesAll

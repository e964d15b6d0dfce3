CONSTANTS
  Addr = {a1}
  Undialable = {}
  SessionTimeout = 1
  Client = {c1}
  Handler = {h1}
  NoSession = NoSession
  NoClient = NoClient
  DoneReplies = {FALSE}
  Prompt = TRUE
SPECIFICATION Spec
PROPERTY FailedSetupFreesNode
CHECK_DEADLOCK FALSE

CONSTANTS
  Addr = {a1}
  Undialable = {}
  SessionTimeout = 1
  Client = {c1, c2}
  Handler = {h1, h2}
  NoSession = NoSession
  NoClient = NoClient
  DoneReplies = {TRUE, FALSE}
  Prompt = FALSE
SPECIFICATION FairSpec
PROPERTIES
  LeaksAreReclaimed
  ShutdownCompletes
CHECK_DEADLOCK FALSE

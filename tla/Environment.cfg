CONSTANTS
  Addr = {a1, a2}
  Undialable = {}
  SessionTimeout = 1
  Client = {c1}
  Handler = {h1, h2}
  NoSession = NoSession
  NoClient = NoClient
  DoneReplies = {FALSE}
  Prompt = TRUE
  MAX_STEPS = 2
  MaxRetries = 2
  MaxLost = 1
SPECIFICATION EnvFairSpec
INVARIANTS
  EnvTypeOK
  EpisodeKeepsAgent
PROPERTY MethodsReturn

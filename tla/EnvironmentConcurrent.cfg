CONSTANTS
  Addr = {a1}
  Undialable = {}
  SessionTimeout = 1
  Client = {c1, c2}
  Handler = {h1, h2}
  NoSession = NoSession
  NoClient = NoClient
  DoneReplies = {FALSE}
  Prompt = TRUE
  MAX_STEPS = 3
  MaxRetries = 3
  MaxLost = 0
SPECIFICATION EnvSpec
INVARIANT
  EpisodeKeepsAgent

CONSTANTS
  Addr = {a1, bad}
  Undialable = {bad}
  SessionTimeout = 1
  Client = {c1, c2}
  Handler = {h1, h2, h3}
  NoSession = NoSession
  NoClient = NoClient
  DoneReplies = {FALSE}
  Prompt = TRUE
  Cmd = {google, github}
  NoCmd = NoCmd
  MaxLate = 1
SYMMETRY Symmetry
SPECIFICATION DispatchSpec
INVARIANTS
  DispatchTypeOK
  DedicatedAgent
  EpisodeKeepsConnection
  PendingIsBusy
  ConnsMatchEntries
  EpisodeRunsItsCommand
PROPERTY ImplementsLifecycle
CHECK_DEADLOCK FALSE

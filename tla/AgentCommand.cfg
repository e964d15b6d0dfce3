CONSTANTS
  Handler = {h1, h2}
  Cmd = {google, github}
  Allowed = {google, github}
  Ip = {i1}
  Act = {t1}
  Pid = {p1, p2}
  NoCmd = NoCmd
  NoIp = NoIp
  NoAct = NoAct
  NoPid = NoPid
  NoHandler = NoHandler
  MaxActions = 1
  MaxMetrics = 1
  MaxCookies = 2
  MaxRuns = 2
SYMMETRY Symmetry
SPECIFICATION Spec
INVARIANTS
  BaselineRunsItsCommand

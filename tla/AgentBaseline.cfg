CONSTANTS
  Handler = {h1}
  Cmd = {google, whoami}
  Allowed = {google}
  Ip = {i1, i2}
  Act = {t1, t2}
  Pid = {p1, p2, p3}
  NoCmd = NoCmd
  NoIp = NoIp
  NoAct = NoAct
  NoPid = NoPid
  NoHandler = NoHandler
  MaxActions = 1
  MaxMetrics = 2
  MaxCookies = 2
  MaxRuns = 3
SYMMETRY Symmetry
SPECIFICATION Spec
INVARIANTS
  BaselineIsUntuned

CONSTANTS
  s1 = s1
  s2 = s2
  c2 = c2
  p1 = p1
  m1 = m1
  None = None
  Sess = {s1, s2}
  Cmds = {c2, p1}
  SessOf <- MCSessOf
  Preempts = {p1, c2}
  Mcmds = {m1}
  Fns = {"LUN_RESET"}
  Tas = TRUE
  Async = FALSE
  InitRace = FALSE
  Registration = "none"
SPECIFICATION FairSpec
PROPERTIES McmdsAnswered CmdsEnd
CHECK_DEADLOCK FALSE

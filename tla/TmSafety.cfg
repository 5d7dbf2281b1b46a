CONSTANTS
  s1 = s1
  s2 = s2
  c2 = c2
  p1 = p1
  m1 = m1
  None = None
  Sess = {s1, s2}
  Cmds = {c2, p1}
  SessOf <- MCSessOf
  Preempts = {p1}
  Mcmds = {m1}
  Fns = {"ABORT_TASK", "CLEAR_TASK_SET", "NEXUS_LOSS_SESS"}
  Tas = FALSE
  Async = TRUE
  InitRace = FALSE
  Registration = "quiet"
SPECIFICATION Spec
INVARIANTS McmdSound NoLostMcmd Quiescent InitiatorTold PreemptEndsLast

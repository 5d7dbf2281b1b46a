CONSTANTS
  i1 = i1
  i2 = i2
  s1 = s1
  s2 = s2
  s3 = s3
  s4 = s4
  None = None
  NoFile = NoFile
  Torn = Torn
  Tid = {i1, i2}
  Rel = {1, 2}
  Sess = {s1, s2, s3, s4}
  NexusOf <- MCNexusOf
  Keys = {1, 2}
  Types = {"WRITE_EXCLUSIVE", "EXCLUSIVE_ACCESS_REGONLY", "WRITE_EXCLUSIVE_ALL_REG"}
  LoginRace = FALSE
  SaveGaps = FALSE
SPECIFICATION MCSpec
INVARIANTS LinksSound HolderSound AccessRight NoMixing
PROPERTIES FailureUndone PeersTold Recovered
CHECK_DEADLOCK FALSE

SPECIFICATION FairSpec
CONSTANTS
  MaxTask = 4
  MaxProc = 1
  NumPrio = 3
  KernelPrio = 1
  UserPrios = {0, 1}
  Quantum = 2
  WordMax = 3
  Api <- FairnessApi
  NULL = NULL
PROPERTIES
  ReadyRuns
  ZombieReaped

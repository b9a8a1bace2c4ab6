SPECIFICATION Spec
CONSTANTS
  MaxTask = 4
  MaxProc = 2
  NumPrio = 3
  KernelPrio = 1
  UserPrios = {1}
  Quantum = 2
  WordMax = 3
  Api <- KilledProcessApi
  NULL = NULL
INVARIANT
  RunsOnLivePages

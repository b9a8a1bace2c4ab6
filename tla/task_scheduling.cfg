SPECIFICATION Spec
CONSTANTS
  MaxTask = 4
  MaxProc = 2
  NumPrio = 3
  KernelPrio = 1
  UserPrios = {0, 1}
  Quantum = 1
  WordMax = 3
  Api <- SchedulingApi
  NULL = NULL
INVARIANTS
  Inv
  AlwaysReplaceable

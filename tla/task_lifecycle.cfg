SPECIFICATION Spec
CONSTANTS
  MaxTask = 5
  MaxProc = 2
  NumPrio = 3
  KernelPrio = 1
  UserPrios = {0}
  Quantum = 2
  WordMax = 3
  Api <- LifecycleApi
  NULL = NULL
INVARIANTS
  FlagMatchesList
  JoinConsistent
  NoFault
  MainThreadOwned
  StackLifetime
PROPERTIES
  JoinNotEarly
  ZombieStays

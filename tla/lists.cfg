SPECIFICATION FairSpec
CONSTANTS
  Nodes = {n1, n2, n3, n4}
  Dummy = dummy
  Preemptible = TRUE
INVARIANTS
  ListWhole
PROPERTIES
  QueueSpec
  ExitSpec
  PopReturns
\* Everything pushed and nothing poppable any more is a legal end.
CHECK_DEADLOCK FALSE

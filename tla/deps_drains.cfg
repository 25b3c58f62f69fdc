SPECIFICATION FairSpec

CONSTANTS
  Default = Default
  Foreign = Foreign
  None = None
  Issue = {1, 2, 3}
  Graphs <- Acyclic3
  MaxEdit = 0
  MaxReject = 0
  MaxFault = 0
  Chaining = {TRUE, FALSE}

\* A plan that is done, or waits for a human, is at rest.
CHECK_DEADLOCK FALSE

PROPERTY PlanDrains

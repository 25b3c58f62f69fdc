SPECIFICATION Spec

CONSTANTS
  Default = Default
  Foreign = Foreign
  None = None
  Issue = {1, 2, 3}
  Graphs <- Edited3
  MaxEdit = 1
  MaxReject = 1
  MaxFault = 1
  Chaining = {TRUE, FALSE}

\* A plan that is done, or waits for a human, is at rest.
CHECK_DEADLOCK FALSE

INVARIANT TypeOK
INVARIANT WalkInvariant
INVARIANT DiffIsOwn
INVARIANT StartsInOrder
INVARIANT NoWorkDropped

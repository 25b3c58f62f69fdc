SPECIFICATION Spec

CONSTANTS
  i1 = i1
  w1 = w1
  w2 = w2
  None = None
  Issue = {i1}
  Worker = {w1, w2}
  MaxRun = 4
  MaxCrash = 0
  MaxControlCrash = 1
  MaxFault = 0
  MaxLost = 1
  MaxCut = 1
  Timely = TRUE
  PromptPass = FALSE
  CrashInUnwind = TRUE

SYMMETRY WorkerSymmetry

\* The bounds on Runs and faults end every behaviour.
CHECK_DEADLOCK FALSE

INVARIANT OwnershipInvariant
PROPERTY ImplementsClaimOwner

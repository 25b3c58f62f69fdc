SPECIFICATION Spec

CONSTANTS
  i1 = i1
  w1 = w1
  w2 = w2
  None = None
  Issue = {i1}
  Worker = {w1, w2}
  MaxRun = 5
  MaxCrash = 1
  MaxControlCrash = 0
  MaxFault = 1
  MaxLost = 1
  MaxCut = 0
  Timely = TRUE
  PromptPass = TRUE
  CrashInUnwind = FALSE

SYMMETRY WorkerSymmetry

\* The bounds on Runs and faults end every behaviour.
CHECK_DEADLOCK FALSE

INVARIANT TypeOK
INVARIANT NothingFallsThrough
INVARIANT JanitorSparesDrivers
INVARIANT OwnershipOnGitHub
INVARIANT GrantsAreWorkable

SPECIFICATION FairSpec

CONSTANTS
  i1 = i1
  w1 = w1
  None = None
  Issue = {i1}
  Worker = {w1}
  MaxRun = 4
  MaxCrash = 1
  MaxControlCrash = 0
  MaxFault = 1
  MaxLost = 0
  MaxCut = 0
  Timely = TRUE
  PromptPass = TRUE
  CrashInUnwind = FALSE

\* The bounds on Runs and faults end every behaviour.
CHECK_DEADLOCK FALSE

PROPERTY ClaimsSettle
PROPERTY EvidencePublished

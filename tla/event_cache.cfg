SPECIFICATION CacheSpec

CONSTANTS
  issue1 = issue1
  progress = progress
  error = error
  Scope = {issue1, progress, error}
  RunScope = {issue1}
  Time = {1, 2}
  Any = Any
  None = None
  TailBudget = 1
  ScopeCap = 1
  SampleCap = 2
  MaxEvents = 5

CHECK_DEADLOCK FALSE
INVARIANT EvidenceInvariant

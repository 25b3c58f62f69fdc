SPECIFICATION FairSpec

CONSTANTS
  issue1 = issue1
  issue2 = issue2
  progress = progress
  error = error
  Scope = {issue1, issue2, progress, error}
  RunScope = {issue1, issue2}
  Time = {1}
  Filter <- MCFilter
  Any = Any
  None = None
  TailBudget = 1
  ScopeCap = 2
  SampleCap = 1
  Limit = 1
  IndexPages = 2
  FeedPages = 2
  Keep = 2
  MaxEvents = 4
  MaxRefusals = 1
  MaxChanges = 1

INVARIANT IndexInvariant
INVARIANT FeedHonest
PROPERTY IndexCatchesUp

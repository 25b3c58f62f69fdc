SPECIFICATION Spec

CONSTANTS
  r1 = r1
  r2 = r2
  Reviewer = {r1}
  RoundBudget = 3
  Patient = TRUE
  MaxDecisions = 1
  MaxDeaths = 1
  MaxCuts = 1
  MaxDrifts = 2

\* A PR that is merged, or waits for the human, is at rest.
CHECK_DEADLOCK FALSE

INVARIANT LabelsAreEarned
INVARIANT BoundedTurns
INVARIANT OnlyCutsStrand
INVARIANT DriftInvariant
PROPERTY ReachesHuman

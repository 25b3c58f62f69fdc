SPECIFICATION FairSpec

CONSTANTS
  s1 = s1
  s2 = s2
  v1 = v1
  v2 = v2
  None = None
  Stack = {s1, s2}
  Custom = {s2}
  Version = {v1, v2}
  First = v1
  Menu <- MCMenu
  OffpinBeats = 2
  MaxCommands = 2
  MaxRepins = 1
  MaxRuns = 1
  MaxFailures = 2
  MaxFaults = 1

INVARIANT DrainsAsOrdered
PROPERTY GateProtectsRuns
PROPERTY LadderInOrder
PROPERTY Settles

SPECIFICATION Spec
CONSTANTS
    f1 = f1
    f2 = f2
    f3 = f3
    Incomplete = {f3}
    Fingerprint <- MCFingerprint
    Desires <- MCDesires
    Absent = Absent
    None = None
    MaxChanges = 3
    MaxFailures = 2
    MaxUnsaved = 1
    MaxDeaths = 1
    MaxCrashes = 1
    MaxLosses = 1
    MaxRuns = 1
INVARIANT HostInvariant
PROPERTY RunsSpared
PROPERTY Converges

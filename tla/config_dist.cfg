SPECIFICATION Spec
CONSTANTS
    h1 = h1
    h2 = h2
    Hash = {h1, h2}
    Exported = {h1}
    Nothing = Nothing
    Unknown = Unknown
    Damaged = Damaged
    Desires <- MCDesires
    MaxChanges = 3
    MaxFailures = 2
    MaxDamages = 1
    MaxCrashes = 1
    MaxClaims = 2
INVARIANT TypeOK
PROPERTY StartsVerified
PROPERTY RunningSpared
PROPERTY OldOrNew
PROPERTY Settles

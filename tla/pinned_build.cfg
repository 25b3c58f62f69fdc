SPECIFICATION Spec
CONSTANTS
    s1 = s1
    s2 = s2
    p1 = p1
    p2 = p2
    a1 = a1
    a2 = a2
    Source = {s1, s2}
    Declares <- MCDeclares
    Pin = {p1, p2}
    Address = {a1, a2}
    None = None
    Edit = Edit
    Fix = Fix
    First <- MCFirst
    MaxIngests = 3
    MaxWrites = 2
    MaxFailures = 1
    MaxCrashes = 1
    MaxHands = 1
\* The bounds end every behaviour.
CHECK_DEADLOCK FALSE
INVARIANT RepositoryInvariant
INVARIANT CarriesOver
INVARIANT LoadsWhole
PROPERTY NothingOverwritten

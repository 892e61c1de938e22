CONSTANTS
    Fd = {0, 1}
    whole = whole
    cut = cut
    lost = lost
    Path <- MCPath
    Shown <- MCShown
    Task = {r, a}
    Root = r
SPECIFICATION Spec
CONSTRAINTS
    Observed
    OneInCall
    Alone
    Beside
INVARIANTS
    TypeOK
    TableTruthful
    TableComplete
PROPERTY
    EventsTruthful

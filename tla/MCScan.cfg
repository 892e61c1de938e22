CONSTANTS
    Scanner = {s1, s2}
    Free = Free
    Names = {"a", "b"}
    Versions = {"1", "2"}
    Scores <- Thresholds
SPECIFICATION Spec
CHECK_DEADLOCK FALSE
INVARIANTS
    TypeOK
    OneBaseline
    StoredWhole
    ComparisonFindsBoth
PROPERTIES
    NeverSoftened

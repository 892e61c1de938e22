SPECIFICATION Spec
CONSTANTS
    Raw <- MCRaw
    Length = 3
    Buffer = 2
    MaxInfo = 2
    MaxUnpacked = 4
    MaxEntries = 2
    MaxPath = 3
INVARIANTS
    AcceptedIsSafe
    IdentityOfListing
    BoundedEffort
CHECK_DEADLOCK FALSE

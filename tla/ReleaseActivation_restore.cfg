SPECIFICATION Spec
CONSTANTS
    b1 = b1
    b2 = b2
    b3 = b3
    r1 = r1
    r2 = r2
    Builds = {b1, b2, b3}
    ReleaseIds = {r1, r2}
    ReleaseOf <- MCReleaseOf
    None = None
    Absent = Absent
    Partial = Partial
    MaxInterruptions = 2
    RestoreMayFail = TRUE
CHECK_DEADLOCK FALSE
INVARIANTS
    PairConsistent

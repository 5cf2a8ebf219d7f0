SPECIFICATION Spec
CONSTANTS
    None = None
    Other = Other
    Budget = 2
    MaxBytes = 3
    Chunk = 2
    MaxHops = 1
INVARIANTS
    WholeOrNothing
    BytesBounded
PROPERTIES
    NoOverwrite
    EndsUnlessHeld

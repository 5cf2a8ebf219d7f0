SPECIFICATION Spec
CONSTANTS
    c1 = c1
    c2 = c2
    q1 = q1
    q2 = q2
    None = None
    Ids <- MCIds
    Questions <- MCQuestions
    MaxTurns = 3
INVARIANTS
    ShownWhole
    SaveDurable
PROPERTIES
    LogSpec

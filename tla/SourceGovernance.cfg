SPECIFICATION Spec
CONSTANTS
    None = None
    MaxLetters = 3
    Texts <- MCTexts
    MaxTime = 2
    Dues = {0}
    BlockAfter = 1
    Roots <- MCRoots
    Keys = {"k1"}
    Versions = {1}
    Application = 1
    MaxBuilds = 2
    MaxInstalls = 1
    MaxChecks = 2
CHECK_DEADLOCK FALSE
ACTION_CONSTRAINT GovernedBefore
INVARIANTS
    LoadedAsReviewed
    BuildsAreValid
    FreshAsChecked

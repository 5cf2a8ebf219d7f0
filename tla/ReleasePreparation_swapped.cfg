SPECIFICATION MCSpec
CONSTANTS
    None = None
    Claimed = Claimed
    Sources = {s1}
    Texts = {t1, t2}
    Addresses <- MCAddresses
    Rulings <- MCRulings
    Times = {1}
    b1 = b1
    b2 = b2
    Builders = {b1, b2}
    Findable = {t1}
    MaxFetches = 0
    MaxDecisions = 2
    MaxEdits = 1
    MaxBuilds = 2
    MaxInstalls = 1
    c1 = c1
    d1 = d1
    Initial <- MCInitial
    Bars = {1}
    Datasets = {d1}
    Codes = {c1}
    Releases <- MCReleases
    Misreports <- MCMisreports
    Scores = {1}
    Gates <- MCGates
    Declared <- MCDeclared
    Outcomes = {"failed", "passed"}
    MaxChanges = 2
    MaxRuns = 2
    MaxVerdicts = 1
    MaxPins = 1
CONSTRAINT NothingMadeUp
ACTION_CONSTRAINT ReviewGoesFirst
SYMMETRY Symmetry
VIEW View
INVARIANTS
    PassedUnderItsName
CHECK_DEADLOCK FALSE

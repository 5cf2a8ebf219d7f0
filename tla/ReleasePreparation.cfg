SPECIFICATION MCSpec
CONSTANTS
    None = None
    Claimed = Claimed
    Sources = {s1}
    Texts = {t1, t2}
    Addresses <- MCAddresses
    Rulings <- MCRulings
    Times = {1}
    b1 = b1
    b2 = b2
    Builders = {b1, b2}
    Findable = {t1}
    MaxFetches = 2
    MaxDecisions = 2
    MaxEdits = 1
    MaxBuilds = 2
    MaxInstalls = 1
    c1 = c1
    d1 = d1
    Initial <- MCInitial
    Bars = {1, 2}
    Datasets = {d1, d2}
    Codes = {c1, c2}
    Releases <- MCReleases
    Misreports <- MCMisreports
    Scores = {1, 2}
    Gates <- MCGates
    Declared <- MCDeclared
    Outcomes = {"failed", "passed"}
    MaxChanges = 1
    MaxRuns = 3
    MaxVerdicts = 1
    MaxPins = 1
CONSTRAINT NothingMadeUp
ACTION_CONSTRAINT ReviewGoesFirst
SYMMETRY Symmetry
VIEW View
INVARIANTS
    InstalledAsReviewed
    InstalledAsQualified
    CandidateIsWhole
    PassedAsJudged
CHECK_DEADLOCK FALSE
